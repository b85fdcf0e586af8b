------------------------- MODULE WatchControllerProofs -------------------------
(***************************************************************************)
(* Proofs about the watch controller, for any number of handlers, settings *)
(* and generations, and any restart limits.                                *)
(***************************************************************************)
EXTENDS WatchController, TLAPS

AtControl == {"forcing", "launching", "joining"}
InLoop == {"top", "running", "backoff"}

\* Where the code holds _control_lock between steps, the model's lock is held;
\* a start that is under way has seen that no watch runs.
LockInv ==
  \A h \in Handlers :
    /\ pc[h] \in AtControl => lock = h /\ gen < MaxGen
    /\ pc[h] \in {"forcing", "launching"} => ~Running

\* A generation is only followed by another when its thread has ended.
OldGone == \A g \in Gens : g < gen => pc[g] = "ended"

RestartsInv == MaxRestarts > 0 => \A g \in Gens : restarts[g] <= MaxRestarts

ErrorsInv ==
  SameErrors > 0 => \A g \in Gens : pc[g] \in InLoop => errCount < SameErrors

Inv == /\ TypeOK /\ LockInv /\ OldGone
       /\ BlockedMeansStopping /\ RunsCurrentConfig /\ RestartsInv /\ ErrorsInv

-----------------------------------------------------------------------------
(* What a process that moves leaves alone                                   *)

\* A thread is a handler or a watch thread, never both.
LEMMA Distinct == /\ \A h \in Handlers : h \in Procs /\ h \notin Gens
                  /\ \A g \in Gens : g \in Procs /\ g \notin Handlers /\ g \in Nat
  BY ControllerAssumption DEF Procs, Gens

\* Only the thread of the current generation can be alive.
LEMMA OnlyCurrent ==
  ASSUME TypeOK, OldGone, NEW g \in Gens, Alive(g)
  PROVE  g = gen /\ Running
  BY ControllerAssumption DEF TypeOK, OldGone, Alive, Running, Gens

\* A handler that moves leaves the watch threads where they are.
LEMMA HandlerMoves ==
  ASSUME TypeOK, NEW h \in Handlers, NEW l \in HandlerAt,
         pc' = [pc EXCEPT ![h] = l], gen' = gen
  PROVE  /\ pc'[h] = l
         /\ \A q \in Procs : q # h => pc'[q] = pc[q]
         /\ \A g \in Gens : pc'[g] = pc[g]
         /\ pc' \in [Procs -> HandlerAt \cup WatchAt]
         /\ \A k \in Handlers : pc'[k] \in HandlerAt
         /\ Running' <=> Running
<1>1. /\ pc'[h] = l
      /\ \A q \in Procs : q # h => pc'[q] = pc[q]
      /\ \A g \in Gens : pc'[g] = pc[g]
      /\ pc' \in [Procs -> HandlerAt \cup WatchAt]
      /\ \A k \in Handlers : pc'[k] \in HandlerAt
  BY Distinct DEF TypeOK
<1>2. Running' <=> Running
  BY <1>1, ControllerAssumption DEF Running, Alive, TypeOK, Gens
<1> QED
  BY <1>1, <1>2

\* A watch thread that moves leaves the handlers and the other threads alone.
LEMMA ThreadMoves ==
  ASSUME TypeOK, NEW g \in Gens, NEW l \in WatchAt \ {"none"},
         pc[g] # "none", pc[g] # "ended",
         pc' = [pc EXCEPT ![g] = l], gen' = gen
  PROVE  /\ pc'[g] = l
         /\ \A q \in Procs : q # g => pc'[q] = pc[q]
         /\ \A h \in Handlers : pc'[h] = pc[h]
         /\ pc' \in [Procs -> HandlerAt \cup WatchAt]
         /\ \A f \in Gens : pc'[f] \in WatchAt /\ (pc'[f] = "none" <=> pc[f] = "none")
         /\ \A f \in Gens : pc[f] = "ended" => pc'[f] = "ended"
         /\ Running' => Running
<1>1. /\ pc'[g] = l
      /\ \A q \in Procs : q # g => pc'[q] = pc[q]
      /\ \A h \in Handlers : pc'[h] = pc[h]
      /\ pc' \in [Procs -> HandlerAt \cup WatchAt]
      /\ \A f \in Gens : pc'[f] \in WatchAt /\ (pc'[f] = "none" <=> pc[f] = "none")
      /\ \A f \in Gens : pc[f] = "ended" => pc'[f] = "ended"
  BY Distinct DEF TypeOK
<1>2. Running' => Running
  BY <1>1, ControllerAssumption DEF Running, Alive, TypeOK, Gens
<1> QED
  BY <1>1, <1>2

\* The invariant holds initially.
LEMMA InitInv == Init => Inv
<1> SUFFICES ASSUME Init PROVE Inv
  OBVIOUS
<1>1. /\ \A h \in Handlers : pc[h] = "idle"
      /\ \A g \in Gens : pc[g] = "none"
  BY Distinct, ZenonT(40) DEF Init
<1>2. pc \in [Procs -> HandlerAt \cup WatchAt]
  BY DEF Init, HandlerAt, WatchAt
<1>3. /\ gen = 0 /\ errCount = 0 /\ blocked = "none"
      /\ restarts = [g \in Gens |-> 0]
  BY DEF Init
<1>4. TypeOK
  <2>1. /\ \A h \in Handlers : pc[h] \in HandlerAt
        /\ \A g \in Gens : pc[g] \in WatchAt /\ (g > gen <=> pc[g] = "none")
    BY <1>1, <1>3, ControllerAssumption DEF HandlerAt, WatchAt, Gens
  <2>2. /\ restarts \in [Gens -> Nat] /\ gen \in 0..MaxGen /\ errCount \in Nat
    BY <1>3, ControllerAssumption
  <2>3. /\ failure \in [Procs -> Failures \cup {"none"}]
        /\ stopEvent \in [Gens -> BOOLEAN]
        /\ used \in [Gens -> Configs \cup {"none"}]
    BY DEF Init
  <2>4. /\ lock \in Handlers \cup {"free"} /\ conf \in Configs /\ wanted \in Configs
        /\ lastError \in Errors \cup {"none"} /\ blocked \in Failures \cup {"none"}
        /\ disabled \in BOOLEAN
    BY DEF Init
  <2> QED
    BY <1>2, <2>1, <2>2, <2>3, <2>4 DEF TypeOK
<1>5. LockInv /\ OldGone
  BY <1>1, <1>3, ControllerAssumption DEF LockInv, OldGone, AtControl, Gens
<1>6. BlockedMeansStopping /\ RunsCurrentConfig
  BY <1>1, <1>3 DEF BlockedMeansStopping, RunsCurrentConfig
<1>7. RestartsInv /\ ErrorsInv
  BY <1>1, <1>3, ControllerAssumption DEF RestartsInv, ErrorsInv, InLoop
<1> QED
  BY <1>4, <1>5, <1>6, <1>7 DEF Inv

-----------------------------------------------------------------------------
(* Handlers                                                                 *)

\* A step that tells no watch to go on, starts none and ends no handling of a
\* failure keeps a blocked watch stopping.
LEMMA BlockedKept ==
  ASSUME Inv, blocked' \in {blocked, "none"},
         \A g \in Gens : stopEvent[g] => stopEvent'[g],
         \A p \in Procs : pc[p] = "finalizing" => pc'[p] = "finalizing",
         \A g \in Gens : pc'[g] \in {"none", "ended"} \/ Alive(g)
  PROVE  BlockedMeansStopping'
  BY DEF Inv, BlockedMeansStopping, Alive

\* A handler that moves and starts no watch.
LEMMA HandlerInv ==
  ASSUME Inv, NEW h \in Handlers, NEW l \in HandlerAt,
         pc' = [pc EXCEPT ![h] = l],
         UNCHANGED <<gen, restarts, used, errCount, lastError>>,
         lock' \in Handlers \cup {"free"},
         conf' \in Configs, wanted' \in Configs, conf' = conf \/ ~Running,
         failure' \in [Procs -> Failures \cup {"none"}],
         blocked' \in Failures \cup {"none"}, disabled' \in BOOLEAN,
         stopEvent' \in [Gens -> BOOLEAN],
         l \in AtControl => lock' = h /\ gen < MaxGen,
         l \in {"forcing", "launching"} => ~Running,
         \A k \in Handlers : k # h /\ pc[k] \in AtControl => lock' = lock,
         BlockedMeansStopping'
  PROVE  Inv'
<1>1. /\ pc'[h] = l
      /\ \A q \in Procs : q # h => pc'[q] = pc[q]
      /\ \A g \in Gens : pc'[g] = pc[g]
      /\ pc' \in [Procs -> HandlerAt \cup WatchAt]
      /\ \A k \in Handlers : pc'[k] \in HandlerAt
      /\ Running' <=> Running
  BY HandlerMoves DEF Inv
<1>2. TypeOK'
  BY <1>1 DEF Inv, TypeOK
<1>3. LockInv'
  BY <1>1, Distinct DEF Inv, LockInv
<1>4. RunsCurrentConfig'
  <2>1. \A g \in Gens : pc[g] = "running" => Running
    BY OnlyCurrent DEF Inv, Alive
  <2> QED
    BY <1>1, <2>1 DEF Inv, RunsCurrentConfig
<1>5. OldGone' /\ RestartsInv' /\ ErrorsInv'
  BY <1>1 DEF Inv, OldGone, RestartsInv, ErrorsInv
<1> QED
  BY <1>2, <1>3, <1>4, <1>5 DEF Inv

\* The lock holder is alone in the sections under the lock.
LEMMA LockExcludes ==
  ASSUME Inv, NEW h \in Handlers, lock \in {"free", h}
  PROVE  \A k \in Handlers : k # h => pc[k] \notin AtControl
  BY ControllerAssumption DEF Inv, LockInv

\* A handler that moves from or to a place where it handles no failure, and
\* changes nothing that BlockedMeansStopping is about but for the better.
LEMMA QuietHandlerInv ==
  ASSUME Inv, NEW h \in Handlers, NEW l \in HandlerAt,
         pc[h] # "finalizing", pc' = [pc EXCEPT ![h] = l],
         UNCHANGED <<gen, restarts, used, errCount, lastError>>,
         lock' \in Handlers \cup {"free"},
         conf' \in Configs, wanted' \in Configs, conf' = conf \/ ~Running,
         failure' \in [Procs -> Failures \cup {"none"}],
         blocked' \in {blocked, "none"}, disabled' \in BOOLEAN,
         stopEvent' \in [Gens -> BOOLEAN],
         \A g \in Gens : stopEvent[g] => stopEvent'[g],
         l \in AtControl => lock' = h /\ gen < MaxGen,
         l \in {"forcing", "launching"} => ~Running,
         lock' = lock \/ lock \in {"free", h}
  PROVE  Inv'
<1>1. \A k \in Handlers : k # h /\ pc[k] \in AtControl => lock' = lock
  BY LockExcludes
<1>2. /\ \A q \in Procs : q # h => pc'[q] = pc[q]
      /\ \A g \in Gens : pc'[g] = pc[g]
  BY HandlerMoves DEF Inv
<1>3. BlockedMeansStopping'
  BY <1>2, BlockedKept DEF Alive
<1>4. blocked' \in Failures \cup {"none"}
  BY DEF Inv, TypeOK
<1> QED
  BY <1>1, <1>3, <1>4, HandlerInv

\* StartCheck preserves the invariant.
LEMMA StartCheckInv ==
  ASSUME Inv, NEW h \in Handlers, NEW force \in BOOLEAN, StartCheck(h, force)
  PROVE  Inv'
<1>1. PICK l \in {"launching", "forcing"} : pc' = [pc EXCEPT ![h] = l]
  BY DEF StartCheck, Goto
<1> QED
  BY <1>1, QuietHandlerInv DEF StartCheck, Inv, TypeOK, HandlerAt, AtControl

\* ForceStart preserves the invariant.
LEMMA ForceStartInv == ASSUME Inv, NEW h \in Handlers, ForceStart(h) PROVE Inv'
<1>1. lock = h /\ gen < MaxGen /\ ~Running
  BY DEF ForceStart, Inv, LockInv, AtControl
<1>2. PICK l \in {"launching", "idle"} :
        /\ pc' = [pc EXCEPT ![h] = l]
        /\ disabled' \in {disabled, FALSE}
        /\ lock' = IF l = "idle" THEN "free" ELSE lock
  BY DEF ForceStart, Goto
<1> QED
  BY <1>1, <1>2, QuietHandlerInv DEF ForceStart, Inv, TypeOK, HandlerAt, AtControl

\* Configure preserves the invariant.
LEMMA ConfigureInv ==
  ASSUME Inv, NEW h \in Handlers, NEW c \in Configs, Configure(h, c) PROVE Inv'
<1>1. CASE ~Running /\ conf' = c /\ wanted' = c /\ UNCHANGED <<pc, lock, stopEvent>>
  <2>1. pc' = [pc EXCEPT ![h] = "idle"]
    BY <1>1, Distinct DEF Configure, Inv, TypeOK
  <2> QED
    BY <1>1, <2>1, QuietHandlerInv DEF Configure, Inv, TypeOK, HandlerAt, AtControl
<1>2. CASE /\ gen < MaxGen /\ stopEvent' = [stopEvent EXCEPT ![gen] = TRUE]
           /\ wanted' = c /\ lock' = h /\ Goto(h, "joining") /\ UNCHANGED conf
  <2>1. /\ stopEvent' \in [Gens -> BOOLEAN]
        /\ \A g \in Gens : stopEvent[g] => stopEvent'[g]
    BY <1>2 DEF Inv, TypeOK
  <2> QED
    BY <1>2, <2>1, QuietHandlerInv
    DEF Configure, Goto, Inv, TypeOK, HandlerAt, AtControl
<1> QED
  BY <1>1, <1>2 DEF Configure

\* ConfigureTimeout preserves the invariant.
LEMMA ConfigureTimeoutInv ==
  ASSUME Inv, NEW h \in Handlers, ConfigureTimeout(h) PROVE Inv'
<1>1. lock = h
  BY DEF ConfigureTimeout, Inv, LockInv, AtControl
<1> QED
  BY <1>1, QuietHandlerInv
  DEF ConfigureTimeout, Goto, Inv, TypeOK, HandlerAt, AtControl

\* ConfigureJoined preserves the invariant.
LEMMA ConfigureJoinedInv ==
  ASSUME Inv, NEW h \in Handlers, ConfigureJoined(h) PROVE Inv'
<1>1. lock = h /\ gen < MaxGen
  BY DEF ConfigureJoined, Inv, LockInv, AtControl
<1>2. PICK l \in {"launching", "idle"} :
        /\ pc' = [pc EXCEPT ![h] = l]
        /\ lock' = IF l = "idle" THEN "free" ELSE lock
  BY DEF ConfigureJoined, Goto
<1> QED
  BY <1>1, <1>2, QuietHandlerInv
  DEF ConfigureJoined, Inv, TypeOK, HandlerAt, AtControl

\* StopWatch preserves the invariant.
LEMMA StopWatchInv == ASSUME Inv, NEW h \in Handlers, StopWatch(h) PROVE Inv'
<1>1. pc' = [pc EXCEPT ![h] = "idle"]
  BY Distinct DEF StopWatch, Inv, TypeOK
<1>2. /\ stopEvent' \in [Gens -> BOOLEAN]
      /\ \A g \in Gens : stopEvent[g] => stopEvent'[g]
  BY DEF StopWatch, Inv, TypeOK
<1> QED
  BY <1>1, <1>2, QuietHandlerInv DEF StopWatch, Inv, TypeOK, HandlerAt, AtControl

\* UpdateCookie preserves the invariant.
LEMMA UpdateCookieInv == ASSUME Inv, NEW h \in Handlers, UpdateCookie(h) PROVE Inv'
  BY QuietHandlerInv DEF UpdateCookie, Goto, Inv, TypeOK, HandlerAt, AtControl

\* Unblock preserves the invariant.
LEMMA UnblockInv == ASSUME Inv, NEW h \in Handlers, Unblock(h) PROVE Inv'
  BY QuietHandlerInv DEF Unblock, Goto, Inv, TypeOK, HandlerAt, AtControl

\* A new generation: the old one has ended, and nothing is counted or blocked.
LEMMA LaunchInv == ASSUME Inv, NEW h \in Handlers, Launch(h) PROVE Inv'
<1> DEFINE new == gen + 1
<1>1. /\ lock = h /\ gen < MaxGen /\ ~Running
      /\ gen \in Nat /\ new \in Gens /\ new \in Procs
  BY ControllerAssumption DEF Launch, Inv, TypeOK, LockInv, AtControl, Gens, Procs
<1>2. /\ pc'[h] = "idle" /\ pc'[new] = "top"
      /\ \A q \in Procs : q # h /\ q # new => pc'[q] = pc[q]
      /\ pc' \in [Procs -> HandlerAt \cup WatchAt]
  BY <1>1, Distinct DEF Launch, Inv, TypeOK, HandlerAt, WatchAt
<1>3. /\ gen' = new /\ errCount' = 0 /\ blocked' = "none" /\ lock' = "free"
      /\ lastError' = "none"
      /\ UNCHANGED <<failure, stopEvent, restarts, used, conf, wanted, disabled>>
  BY DEF Launch
<1>4. \A g \in Gens : g # new => pc'[g] \in {"ended", "none"} /\ pc'[g] = pc[g]
  <2>1. \A g \in Gens : g = gen => pc[g] \in {"ended", "none"}
    BY <1>1 DEF Running, Alive, Gens
  <2>2. \A g \in Gens : g # gen => pc[g] \in {"ended", "none"}
    BY <1>1 DEF Inv, TypeOK, OldGone, Gens
  <2> QED
    BY <1>2, <2>1, <2>2, Distinct
<1>5. TypeOK'
  <2>1. \A k \in Handlers : pc'[k] \in HandlerAt
    BY <1>1, <1>2, Distinct DEF Inv, TypeOK, HandlerAt
  <2>2. \A g \in Gens : pc'[g] \in WatchAt /\ (g > gen' <=> pc'[g] = "none")
    <3>1. \A g \in Gens : g # new => (g > gen' <=> g > gen)
      BY <1>1, <1>3 DEF Gens
    <3> QED
      BY <1>1, <1>2, <1>3, <1>4, <3>1 DEF Inv, TypeOK, WatchAt
  <2>3. gen' \in 0..MaxGen
    BY <1>1, <1>3, ControllerAssumption
  <2> HIDE DEF new
  <2> QED
    BY <1>2, <1>3, <2>1, <2>2, <2>3 DEF Inv, TypeOK
<1>6. LockInv'
  <2>1. \A k \in Handlers : pc'[k] \notin AtControl
    BY <1>1, <1>2, LockExcludes, Distinct DEF AtControl
  <2> QED
    BY <2>1 DEF LockInv, AtControl
<1>7. OldGone'
  BY <1>1, <1>2, <1>3, <1>4, <1>5 DEF OldGone, TypeOK, Gens
<1>8. BlockedMeansStopping'
  BY <1>3 DEF BlockedMeansStopping
<1>9. RunsCurrentConfig' /\ RestartsInv' /\ ErrorsInv'
  BY <1>2, <1>3, <1>4, ControllerAssumption
  DEF Inv, RunsCurrentConfig, RestartsInv, ErrorsInv, InLoop
<1> QED
  BY <1>5, <1>6, <1>7, <1>8, <1>9 DEF Inv

-----------------------------------------------------------------------------
(* The watch thread                                                         *)

\* A watch thread that moves, once what is said of its loop is known.
LEMMA ThreadInv ==
  ASSUME Inv, NEW g \in Gens, NEW l \in WatchAt \ {"none"}, Alive(g),
         pc' = [pc EXCEPT ![g] = l],
         UNCHANGED <<lock, gen, conf, wanted>>,
         failure' \in [Procs -> Failures \cup {"none"}],
         stopEvent' \in [Gens -> BOOLEAN],
         restarts' \in [Gens -> Nat],
         used' \in [Gens -> Configs \cup {"none"}],
         errCount' \in Nat, lastError' \in Errors \cup {"none"},
         blocked' \in Failures \cup {"none"}, disabled' \in BOOLEAN,
         l = "running" => used'[g] = conf,
         MaxRestarts > 0 => \A f \in Gens : restarts'[f] <= MaxRestarts,
         l \in InLoop /\ SameErrors > 0 => errCount' < SameErrors,
         BlockedMeansStopping'
  PROVE  Inv'
<1>1. /\ pc'[g] = l
      /\ \A q \in Procs : q # g => pc'[q] = pc[q]
      /\ \A h \in Handlers : pc'[h] = pc[h]
      /\ pc' \in [Procs -> HandlerAt \cup WatchAt]
      /\ \A f \in Gens : pc'[f] \in WatchAt /\ (pc'[f] = "none" <=> pc[f] = "none")
      /\ \A f \in Gens : pc[f] = "ended" => pc'[f] = "ended"
      /\ Running' => Running
  BY ThreadMoves DEF Inv, Alive
<1>2. \A f \in Gens : f # g => pc'[f] \in {"none", "ended"}
  BY <1>1, OnlyCurrent, Distinct DEF Inv, Alive
<1>3. TypeOK'
  BY <1>1 DEF Inv, TypeOK
<1>4. LockInv' /\ OldGone'
  BY <1>1 DEF Inv, LockInv, OldGone
<1>5. RunsCurrentConfig' /\ RestartsInv' /\ ErrorsInv'
  BY <1>1, <1>2 DEF RunsCurrentConfig, RestartsInv, ErrorsInv, InLoop
<1> QED
  BY <1>3, <1>4, <1>5 DEF Inv

\* The same for a step that has no part in handling a failure.
LEMMA QuietThreadInv ==
  ASSUME Inv, NEW g \in Gens, NEW l \in WatchAt \ {"none"}, Alive(g),
         pc[g] # "finalizing", pc' = [pc EXCEPT ![g] = l],
         UNCHANGED <<lock, gen, conf, wanted, stopEvent, blocked, disabled>>,
         failure' \in [Procs -> Failures \cup {"none"}],
         restarts' \in [Gens -> Nat],
         used' \in [Gens -> Configs \cup {"none"}],
         errCount' \in Nat, lastError' \in Errors \cup {"none"},
         l = "running" => used'[g] = conf,
         MaxRestarts > 0 => \A f \in Gens : restarts'[f] <= MaxRestarts,
         l \in InLoop /\ SameErrors > 0 => errCount' < SameErrors
  PROVE  Inv'
<1>1. \A q \in Procs : q # g => pc'[q] = pc[q]
  BY ThreadMoves DEF Inv, Alive
<1>2. \A f \in Gens : pc'[f] \in {"none", "ended"} \/ Alive(f)
  BY <1>1, Distinct DEF Alive
<1>3. BlockedMeansStopping'
  BY <1>1, <1>2, BlockedKept
<1> QED
  BY <1>3, ThreadInv DEF Inv, TypeOK

\* Leaving a loop takes the settings of that thread only.
LEMMA LeaveLemma ==
  ASSUME TypeOK, NEW p \in Procs, Leave(p)
  PROVE  /\ used' \in [Gens -> Configs \cup {"none"}]
         /\ p \in Handlers => used' = used
  BY Distinct DEF TypeOK, Leave

\* Enter preserves the invariant.
LEMMA EnterInv == ASSUME Inv, NEW g \in Gens, Enter(g) PROVE Inv'
<1>1. Alive(g) /\ pc[g] = "top" /\ "top" \in InLoop
  BY DEF Enter, Alive, InLoop
<1>2. CASE stopEvent[g] /\ Goto(g, "ended") /\ UNCHANGED used
  BY <1>1, <1>2, QuietThreadInv
  DEF Enter, Goto, Inv, TypeOK, WatchAt, InLoop, RestartsInv
<1>3. CASE Goto(g, "running") /\ used' = [used EXCEPT ![g] = conf]
  <2>1. used' \in [Gens -> Configs \cup {"none"}] /\ used'[g] = conf
    BY <1>3 DEF Inv, TypeOK
  <2> QED
    BY <1>1, <1>3, <2>1, QuietThreadInv, ZenonT(40)
    DEF Enter, Goto, Inv, TypeOK, WatchAt, RestartsInv, ErrorsInv
<1> QED
  BY <1>2, <1>3 DEF Enter

\* CycleSucceeds preserves the invariant.
LEMMA CycleSucceedsInv == ASSUME Inv, NEW g \in Gens, CycleSucceeds(g) PROVE Inv'
<1>1. pc' = [pc EXCEPT ![g] = "running"] /\ Alive(g) /\ pc[g] = "running"
  BY Distinct DEF CycleSucceeds, Inv, TypeOK, Alive
<1> QED
  BY <1>1, QuietThreadInv, ControllerAssumption
  DEF CycleSucceeds, Inv, TypeOK, WatchAt, RestartsInv, RunsCurrentConfig

\* NoticeStop preserves the invariant.
LEMMA NoticeStopInv == ASSUME Inv, NEW g \in Gens, NoticeStop(g) PROVE Inv'
<1>1. used' \in [Gens -> Configs \cup {"none"}]
  BY LeaveLemma, Distinct DEF NoticeStop, Inv
<1> QED
  BY <1>1, QuietThreadInv
  DEF NoticeStop, Goto, Alive, Inv, TypeOK, WatchAt, InLoop, RestartsInv

\* Crash preserves the invariant.
LEMMA CrashInv == ASSUME Inv, NEW g \in Gens, NEW e \in Errors, Crash(g, e) PROVE Inv'
<1>1. /\ pc[g] = "running" /\ Alive(g)
      /\ errCount' = SameErrorCount(e) /\ errCount' \in Nat
      /\ lastError' = e
      /\ UNCHANGED <<failure, lock, gen, stopEvent, conf, wanted, blocked, disabled>>
  BY DEF Crash, Alive, SameErrorCount, Inv, TypeOK
<1>2. used' \in [Gens -> Configs \cup {"none"}]
  BY LeaveLemma, Distinct DEF Crash, Inv
<1>3. CASE Goto(g, "finalizing") /\ UNCHANGED restarts
  BY <1>1, <1>2, <1>3, QuietThreadInv
  DEF Goto, Inv, TypeOK, WatchAt, InLoop, RestartsInv
<1>4. CASE ~GivesUp(g, SameErrorCount(e)) /\ Goto(g, "backoff")
           /\ restarts' = [restarts EXCEPT ![g] = @ + 1]
  <2>1. restarts' \in [Gens -> Nat] /\ SameErrorCount(e) \in Nat
    BY <1>1, <1>4 DEF Inv, TypeOK
  <2>2. MaxRestarts > 0 => \A f \in Gens : restarts'[f] <= MaxRestarts
    BY <1>4, ControllerAssumption DEF GivesUp, Inv, TypeOK, RestartsInv
  <2>3. SameErrors > 0 => errCount' < SameErrors
    BY <1>1, <1>4, <2>1, ControllerAssumption DEF GivesUp
  <2> QED
    BY <1>1, <1>2, <1>4, <2>1, <2>2, <2>3, QuietThreadInv DEF Goto, Inv, TypeOK, WatchAt
<1> QED
  BY <1>3, <1>4 DEF Crash

\* Backoff preserves the invariant.
LEMMA BackoffInv == ASSUME Inv, NEW g \in Gens, Backoff(g) PROVE Inv'
<1>1. PICK l \in {"ended", "top"} : pc' = [pc EXCEPT ![g] = l]
  BY DEF Backoff, Goto
<1> QED
  BY <1>1, QuietThreadInv
  DEF Backoff, Alive, Inv, TypeOK, WatchAt, InLoop, RestartsInv, ErrorsInv

-----------------------------------------------------------------------------
(* Failures                                                                 *)

\* Fail preserves the invariant.
LEMMA FailInv == ASSUME Inv, NEW p \in Procs, NEW f \in Failures, Fail(p, f) PROVE Inv'
<1>1. /\ failure' \in [Procs -> Failures \cup {"none"}]
      /\ used' \in [Gens -> Configs \cup {"none"}]
      /\ p \in Handlers => used' = used
  BY LeaveLemma DEF Fail, Inv, TypeOK
<1>2. CASE p \in Handlers
  BY <1>1, <1>2, QuietHandlerInv DEF Fail, Goto, Inv, TypeOK, HandlerAt, AtControl
<1>3. CASE p \in Gens
  BY <1>1, <1>3, QuietThreadInv, Distinct
  DEF Fail, Goto, Alive, Inv, TypeOK, WatchAt, InLoop, RestartsInv
<1> QED
  BY <1>2, <1>3 DEF Procs

\* MarkFail preserves the invariant.
LEMMA MarkFailInv == ASSUME Inv, NEW p \in Procs, MarkFail(p) PROVE Inv'
<1>1. disabled' \in BOOLEAN
  BY DEF MarkFail, Inv, TypeOK
<1>2. CASE p \in Handlers
  BY <1>1, <1>2, QuietHandlerInv DEF MarkFail, Goto, Inv, TypeOK, HandlerAt, AtControl
<1>3. CASE p \in Gens
  <2>1. /\ \A q \in Procs : q # p => pc'[q] = pc[q]
        /\ \A g \in Gens : pc'[g] \in {"none", "ended"} \/ Alive(g)
    BY <1>3, Distinct DEF MarkFail, Goto, Alive, Inv, TypeOK
  <2>2. BlockedMeansStopping'
    BY <2>1, BlockedKept DEF MarkFail
  <2> QED
    BY <1>1, <1>3, <2>2, ThreadInv
    DEF MarkFail, Goto, Alive, Inv, TypeOK, WatchAt, InLoop, RestartsInv
<1> QED
  BY <1>2, <1>3 DEF Procs

\* Block preserves the invariant.
LEMMA BlockInv == ASSUME Inv, NEW p \in Procs, Block(p) PROVE Inv'
<1>1. blocked' \in Failures \cup {"none"}
  BY DEF Block, Inv, TypeOK
<1>2. pc'[p] = "finalizing"
  BY DEF Block, Goto, Inv, TypeOK
<1>3. BlockedMeansStopping'
  BY <1>2 DEF BlockedMeansStopping
<1>4. CASE p \in Handlers
  BY <1>1, <1>3, <1>4, HandlerInv DEF Block, Goto, Inv, TypeOK, HandlerAt, AtControl
<1>5. CASE p \in Gens
  BY <1>1, <1>3, <1>5, ThreadInv
  DEF Block, Goto, Alive, Inv, TypeOK, WatchAt, InLoop, RestartsInv
<1> QED
  BY <1>4, <1>5 DEF Procs

\* The stop event set at the end is that of the one thread that can be alive.
LEMMA FinalizeInv == ASSUME Inv, NEW p \in Procs, Finalize(p) PROVE Inv'
<1>1. /\ stopEvent' \in [Gens -> BOOLEAN]
      /\ \A g \in Gens : g = gen => stopEvent'[g]
      /\ failure' \in [Procs -> Failures \cup {"none"}]
  BY DEF Finalize, Inv, TypeOK
<1>2. \A g \in Gens : pc'[g] \in {"none", "ended"} \/ g = gen
  <2>1. \A g \in Gens : pc'[g] = pc[g] \/ pc'[g] = "ended"
    BY Distinct DEF Finalize, Goto, Inv, TypeOK
  <2> QED
    BY <2>1, OnlyCurrent DEF Inv, Alive
<1>3. BlockedMeansStopping'
  BY <1>1, <1>2 DEF BlockedMeansStopping, Alive
<1>4. CASE p \in Handlers
  <2>1. pc' = [pc EXCEPT ![p] = "idle"]
    BY <1>4 DEF Finalize, Goto
  <2> QED
    BY <1>1, <1>3, <1>4, <2>1, HandlerInv
    DEF Finalize, Inv, TypeOK, HandlerAt, AtControl
<1>5. CASE p \in Gens
  <2>1. pc' = [pc EXCEPT ![p] = "ended"] /\ Alive(p)
    BY <1>5, Distinct DEF Finalize, Goto, Alive
  <2> QED
    BY <1>1, <1>3, <1>5, <2>1, ThreadInv
    DEF Finalize, Inv, TypeOK, WatchAt, InLoop, RestartsInv
<1> QED
  BY <1>4, <1>5 DEF Procs

-----------------------------------------------------------------------------

\* Every step preserves the invariant.
LEMMA NextInv == Inv /\ [Next]_vars => Inv'
<1> SUFFICES ASSUME Inv, [Next]_vars PROVE Inv'
  OBVIOUS
<1>1. CASE \E h \in Handlers : Request(h)
  <2>1. PICK h \in Handlers : Request(h)
    BY <1>1
  <2>2. h \in Procs
    BY Distinct
  <2> QED
    BY <2>1, <2>2, StartCheckInv, ConfigureInv, StopWatchInv, UpdateCookieInv, FailInv
    DEF Request
<1>2. CASE \E h \in Handlers : Proceed(h)
  BY <1>2, ForceStartInv, LaunchInv, ConfigureTimeoutInv, ConfigureJoinedInv, UnblockInv
  DEF Proceed
<1>3. CASE \E p \in Procs : HandleFailure(p)
  BY <1>3, MarkFailInv, BlockInv, FinalizeInv DEF HandleFailure
<1>4. CASE \E g \in Gens : WatchLoop(g)
  <2>1. PICK g \in Gens : WatchLoop(g)
    BY <1>4
  <2>2. g \in Procs
    BY Distinct
  <2> QED
    BY <2>1, <2>2, EnterInv, CycleSucceedsInv, NoticeStopInv, BackoffInv, CrashInv, FailInv
    DEF WatchLoop
<1>5. CASE UNCHANGED vars
  BY <1>5
  DEF vars, Inv, TypeOK, LockInv, OldGone, BlockedMeansStopping, RunsCurrentConfig,
      RestartsInv, ErrorsInv, Running, Alive
<1> QED
  BY <1>1, <1>2, <1>3, <1>4, <1>5 DEF Next

\* The invariant holds in every behaviour of the controller.
THEOREM Invariant == Spec => []Inv
  BY InitInv, NextInv, PTL DEF Spec

\* The variables have their types, and each generation above the current one
\* has no thread yet.
THEOREM TypeCorrect == Spec => []TypeOK
<1>1. Inv => TypeOK
  BY DEF Inv
<1> QED
  BY <1>1, Invariant, PTL

\* There are never two watch threads.
THEOREM OneWatcher == Spec => []AtMostOneWatcher
<1>1. Inv => AtMostOneWatcher
  BY OnlyCurrent DEF Inv, AtMostOneWatcher
<1> QED
  BY <1>1, Invariant, PTL

\* A blocked watch has been told to stop when no failure is being handled.
THEOREM BlockedStops == Spec => []BlockedMeansStopping
<1>1. Inv => BlockedMeansStopping
  BY DEF Inv
<1> QED
  BY <1>1, Invariant, PTL

\* The settings in use are the settings in force.
THEOREM ConfigInForce == Spec => []RunsCurrentConfig
<1>1. Inv => RunsCurrentConfig
  BY DEF Inv
<1> QED
  BY <1>1, Invariant, PTL

\* The limits on equal errors and on restarts are kept.
THEOREM CrashesLimited == Spec => []CrashLimits
<1>1. Inv => CrashLimits
  BY DEF Inv, CrashLimits, RestartsInv, ErrorsInv, InLoop
<1> QED
  BY <1>1, Invariant, PTL

-----------------------------------------------------------------------------
(* What RequestsEnd and StopsEventually rest on.                            *)

\* A lock that is held has its holder in the middle of a start or of a
\* reconfiguration, where it can go on: nobody waits for a lock left behind.
LockInUse == \A h \in Handlers : lock = h => pc[h] \in AtControl

\* How far a watch thread that was told to stop is from its end.
WindDown == [running |-> 5, top |-> 4, backoff |-> 4, marking |-> 3, blocking |-> 2,
             finalizing |-> 1, ended |-> 0]

\* A watch thread that was told to stop stays told, and whatever it does next
\* brings it nearer to its end: it never enters the loop again.
ToldWindsDown ==
  [][\A g \in Gens : Alive(g) /\ stopEvent[g] =>
       stopEvent'[g] /\ (pc'[g] = pc[g] \/ WindDown[pc'[g]] < WindDown[pc[g]])]_vars

\* The handlers start without the lock, and a step that takes the lock goes
\* where it is used; where it is used it is given back on the way out.
LEMMA LockInUseStep == Inv /\ LockInUse /\ [Next]_vars => LockInUse'
<1> SUFFICES ASSUME Inv, LockInUse, [Next]_vars PROVE LockInUse'
  OBVIOUS
<1> USE DEF LockInUse, AtControl
<1>1. ASSUME NEW h \in Handlers, Request(h) PROVE LockInUse'
  <2>1. lock' = lock \/ (lock' = h /\ pc'[h] \in AtControl)
    BY <1>1, Distinct
    DEF Request, StartCheck, Configure, StopWatch, UpdateCookie, Fail, Goto, Inv, TypeOK
  <2>2. pc[h] = "idle" /\ \A k \in Handlers : k # h => pc'[k] = pc[k]
    BY <1>1, Distinct
    DEF Request, StartCheck, Configure, StopWatch, UpdateCookie, Fail, Goto, Inv, TypeOK
  <2> QED
    BY <2>1, <2>2
<1>2. ASSUME NEW h \in Handlers, Proceed(h) PROVE LockInUse'
  <2>1. lock' \in {lock, "free"} /\ \A k \in Handlers : k # h => pc'[k] = pc[k]
    <3>1. CASE Launch(h)
      <4>1. gen + 1 \in Nat /\ \A k \in Handlers : k # gen + 1
        BY ControllerAssumption DEF Inv, TypeOK
      <4> QED
        BY <3>1, <4>1, Distinct DEF Launch, Inv, TypeOK
    <3>2. CASE ~Launch(h)
      BY <1>2, <3>2, Distinct
      DEF Proceed, ForceStart, ConfigureTimeout, ConfigureJoined, Unblock, Goto, Inv, TypeOK
    <3> QED
      BY <3>1, <3>2
  <2>2. lock' = h => pc'[h] \in AtControl
    BY <1>2, Distinct, ControllerAssumption
    DEF Proceed, ForceStart, Launch, ConfigureTimeout, ConfigureJoined, Unblock, Goto,
        Inv, TypeOK
  <2> QED
    BY <2>1, <2>2, ControllerAssumption
<1>3. ASSUME NEW p \in Procs, HandleFailure(p) PROVE LockInUse'
  <2>1. lock' = lock /\ pc[p] \notin AtControl /\ \A k \in Procs : k # p => pc'[k] = pc[k]
    BY <1>3 DEF HandleFailure, MarkFail, Block, Finalize, Goto, Inv, TypeOK
  <2> QED
    BY <2>1, Distinct
<1>4. ASSUME NEW g \in Gens, WatchLoop(g) PROVE LockInUse'
  <2>1. lock' = lock /\ \A h \in Handlers : pc'[h] = pc[h]
    BY <1>4, Distinct
    DEF WatchLoop, Enter, CycleSucceeds, NoticeStop, Backoff, Crash, Fail, Goto, Inv, TypeOK
  <2> QED
    BY <2>1
<1> QED
  BY <1>1, <1>2, <1>3, <1>4 DEF Next, vars

\* Whoever waits for _control_lock waits for a handler that is using it.
THEOREM LockHeldInUse == Spec => []LockInUse
<1>1. Init => LockInUse
  BY ControllerAssumption DEF Init, LockInUse
<1> QED
  BY <1>1, LockInUseStep, Invariant, PTL DEF Spec

\* A step of the thread itself brings it nearer to its end once it was told.
LEMMA ThreadWindsDown ==
  ASSUME Inv, NEW g \in Gens, Alive(g), stopEvent[g], WatchLoop(g) \/ HandleFailure(g)
  PROVE  stopEvent'[g] /\ (pc'[g] = pc[g] \/ WindDown[pc'[g]] < WindDown[pc[g]])
<1>1. CASE Enter(g) \/ NoticeStop(g) \/ Backoff(g)
  BY <1>1, Distinct DEF Enter, NoticeStop, Backoff, Goto, WindDown, Inv, TypeOK
<1>2. CASE CycleSucceeds(g)
  BY <1>2 DEF CycleSucceeds
<1>3. CASE \E e \in Errors : Crash(g, e)
  BY <1>3, Distinct DEF Crash, Goto, WindDown, Inv, TypeOK
<1>4. CASE \E f \in Failures : Fail(g, f)
  BY <1>4, Distinct DEF Fail, Goto, WindDown, Inv, TypeOK
<1>5. CASE HandleFailure(g)
  BY <1>5, Distinct
  DEF HandleFailure, MarkFail, Block, Finalize, Goto, WindDown, Inv, TypeOK
<1> QED
  BY <1>1, <1>2, <1>3, <1>4, <1>5 DEF WatchLoop

\* No start, no reconfiguration and no failure takes a stop back or keeps the
\* thread in its loop.
THEOREM ToldThreadsEnd == Spec => ToldWindsDown
<1> DEFINE Nearer(g) == Alive(g) /\ stopEvent[g] =>
             stopEvent'[g] /\ (pc'[g] = pc[g] \/ WindDown[pc'[g]] < WindDown[pc[g]])
<1>1. Inv /\ [Next]_vars => \A g \in Gens : Nearer(g)
  <2> SUFFICES ASSUME Inv, [Next]_vars, NEW g \in Gens PROVE Nearer(g)
    OBVIOUS
  <2>1. ASSUME NEW h \in Handlers, Request(h) PROVE Nearer(g)
    BY <2>1, Distinct
    DEF Request, StartCheck, Configure, StopWatch, UpdateCookie, Fail, Goto, Inv, TypeOK
  <2>2. ASSUME NEW h \in Handlers, Proceed(h) PROVE Nearer(g)
    <3>1. CASE Launch(h)
      <4>1. Alive(g) => g # gen + 1
        BY DEF Alive, Inv, TypeOK, Gens
      <4> QED
        BY <3>1, <4>1, Distinct DEF Launch, Inv, TypeOK
    <3>2. CASE ~Launch(h)
      BY <2>2, <3>2, Distinct
      DEF Proceed, ForceStart, ConfigureTimeout, ConfigureJoined, Unblock, Goto, Inv, TypeOK
    <3> QED
      BY <3>1, <3>2
  <2>3. ASSUME NEW p \in Procs, HandleFailure(p), p # g PROVE Nearer(g)
    BY <2>3, Distinct DEF HandleFailure, MarkFail, Block, Finalize, Goto, Inv, TypeOK
  <2>4. ASSUME NEW f \in Gens, WatchLoop(f), f # g PROVE Nearer(g)
    BY <2>4, Distinct
    DEF WatchLoop, Enter, CycleSucceeds, NoticeStop, Backoff, Crash, Fail, Goto, Inv, TypeOK
  <2>5. CASE WatchLoop(g) \/ HandleFailure(g)
    BY <2>5, ThreadWindsDown
  <2> QED
    BY <2>1, <2>2, <2>3, <2>4, <2>5 DEF Next, vars
<1> QED
  BY <1>1, Invariant, PTL DEF Spec, ToldWindsDown

=============================================================================
