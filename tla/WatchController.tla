--------------------------- MODULE WatchController ---------------------------
(***************************************************************************)
(* server/http_server.py: the WatchController, driven by the handler       *)
(* threads of the HTTP server and by the watch thread it starts.  start,   *)
(* configure, stop and clear_start_blocked_reason run under _control_lock; *)
(* the handling of a login or challenge failure does not, whether a        *)
(* handler meets it or the watch thread.                                   *)
(*                                                                         *)
(* Each start makes a generation: a thread with a stop event of its own.   *)
(* The account state of runtime/state.py is reduced to auth.disabled.      *)
(***************************************************************************)
EXTENDS Integers

CONSTANTS
  Handlers,      \* handler threads of the HTTP server
  Configs,       \* settings /watch/config can choose between
  Errors,        \* signatures of exceptions that end a watch loop
  AutoRestart,   \* server.auto_restart
  MaxRestarts,   \* server.max_restarts, 0 for no limit
  SameErrors,    \* server.same_error_stop_threshold, 0 for none
  MaxGen         \* bound: how many generations are started

ASSUME ControllerAssumption ==
  /\ Configs # {}
  /\ AutoRestart \in BOOLEAN
  /\ MaxRestarts \in Nat
  /\ SameErrors \in Nat
  /\ MaxGen \in Nat
  /\ Handlers \cap Nat = {}
  /\ "free" \notin Handlers

Gens == 1..MaxGen
Procs == Handlers \cup Gens
Failures == {"auth_invalid", "unresolved_challenge"}

VARIABLES
  pc,         \* where each handler and each watch thread is
  failure,    \* the failure a thread is handling
  lock,       \* holder of _control_lock between steps, or "free"
  gen,        \* generation in _runtime, 0 before the first start
  stopEvent,  \* the stop event of each generation
  restarts,   \* the restart count local to each watch thread
  used,       \* the settings each watch loop runs with, "none" outside one
  conf,       \* the controller's settings
  wanted,     \* the settings the configure call under way will apply
  errCount,   \* _same_error_count
  lastError,  \* _last_error_sig, or "none"
  blocked,    \* _start_blocked_reason, or "none"
  disabled    \* auth.disabled

vars == <<pc, failure, lock, gen, stopEvent, restarts, used, conf, wanted,
          errCount, lastError, blocked, disabled>>

Init ==
  /\ pc = [p \in Procs |-> IF p \in Handlers THEN "idle" ELSE "none"]
  /\ failure = [p \in Procs |-> "none"]
  /\ lock = "free"
  /\ gen = 0
  /\ stopEvent = [g \in Gens |-> FALSE]
  /\ restarts = [g \in Gens |-> 0]
  /\ conf \in Configs
  /\ used = [g \in Gens |-> "none"]
  /\ wanted = conf
  /\ errCount = 0 /\ lastError = "none"
  /\ blocked = "none"
  /\ disabled = FALSE

Goto(p, label) == pc' = [pc EXCEPT ![p] = label]

\* p is in no watch loop (any more).
Leave(p) == used' = [g \in Gens |-> IF g = p THEN "none" ELSE used[g]]

Alive(g) == pc[g] \notin {"none", "ended"}
\* Fault: a thread that was told to stop counts as gone.
RunningUntold == gen > 0 /\ Alive(gen) /\ ~stopEvent[gen]

Running == gen > 0 /\ Alive(gen)

-----------------------------------------------------------------------------
(* POST /watch/start                                                        *)

\* Refusals (already running, blocked) change nothing and are not steps.  A
\* forced start of a blocked watch clears the disabled flag first.
StartCheck(h, force) ==
  /\ pc[h] = "idle" /\ lock = "free"
  /\ gen < MaxGen
  /\ ~Running
  /\ blocked = "none" \/ force
  /\ lock' = h
  /\ Goto(h, IF blocked = "none" THEN "launching" ELSE "forcing")
  /\ UNCHANGED <<failure, gen, stopEvent, restarts, used, conf, wanted,
                 errCount, lastError, blocked, disabled>>

\* set_account_disabled(False), which a failed write of the state file undoes.
ForceStart(h) ==
  /\ pc[h] = "forcing"
  /\ \/ /\ disabled' = FALSE
        /\ Goto(h, "launching")
        /\ UNCHANGED lock
     \/ /\ disabled
        /\ Goto(h, "idle")
        /\ lock' = "free"
        /\ UNCHANGED disabled
  /\ UNCHANGED <<failure, gen, stopEvent, restarts, used, conf, wanted,
                 errCount, lastError, blocked>>

\* Fault: the new thread inherits the error count.
LaunchKeepingErrors(h) ==
  /\ pc[h] = "launching"
  /\ gen' = gen + 1
  /\ pc' = [pc EXCEPT ![h] = "idle", ![gen + 1] = "top"]
  /\ blocked' = "none"
  /\ lock' = "free"
  /\ UNCHANGED <<failure, stopEvent, restarts, used, conf, wanted, errCount,
                 lastError, disabled>>

\* Fault: the thread is not recorded, so that gen lags behind.
LaunchUnrecorded(h) ==
  /\ pc[h] = "launching"
  /\ pc' = [pc EXCEPT ![h] = "idle", ![gen + 1] = "top"]
  /\ errCount' = 0 /\ lastError' = "none"
  /\ blocked' = "none"
  /\ lock' = "free"
  /\ UNCHANGED <<failure, gen, stopEvent, restarts, used, conf, wanted, disabled>>

\* A new thread with a new event, and a clean slate for the controller.
Launch(h) ==
  /\ pc[h] = "launching"
  /\ gen' = gen + 1
  /\ pc' = [pc EXCEPT ![h] = "idle", ![gen + 1] = "top"]
  /\ errCount' = 0 /\ lastError' = "none"
  /\ blocked' = "none"
  /\ lock' = "free"
  /\ UNCHANGED <<failure, stopEvent, restarts, used, conf, wanted, disabled>>

-----------------------------------------------------------------------------
(* POST /watch/config                                                       *)

\* A change is applied at once when no watch runs; otherwise the watch is told
\* to stop, and the caller waits for it with the lock held.
Configure(h, c) ==
  /\ pc[h] = "idle" /\ lock = "free"
  /\ c # conf
  /\ \/ /\ ~Running
        /\ conf' = c /\ wanted' = c
        /\ UNCHANGED <<pc, lock, stopEvent>>
     \/ /\ Running
        /\ gen < MaxGen
        /\ stopEvent' = [stopEvent EXCEPT ![gen] = TRUE]
        /\ wanted' = c
        /\ lock' = h
        /\ Goto(h, "joining")
        /\ UNCHANGED conf
  /\ UNCHANGED <<failure, gen, restarts, used, errCount, lastError, blocked,
                 disabled>>

\* Fault: the settings are applied although the watch still runs.
ConfigureAnyway(h) ==
  /\ pc[h] = "joining"
  /\ Running
  /\ conf' = wanted
  /\ lock' = "free"
  /\ Goto(h, "idle")
  /\ UNCHANGED <<failure, gen, stopEvent, restarts, used, wanted, errCount,
                 lastError, blocked, disabled>>

\* Fault: the lock is not released when the join times out.
ConfigureKeepingLock(h) ==
  /\ pc[h] = "joining"
  /\ Running
  /\ Goto(h, "idle")
  /\ UNCHANGED <<failure, lock, gen, stopEvent, restarts, used, conf, wanted,
                 errCount, lastError, blocked, disabled>>

\* The join times out: the settings stay, the watch will stop all the same.
ConfigureTimeout(h) ==
  /\ pc[h] = "joining"
  /\ Running
  /\ wanted' = conf
  /\ lock' = "free"
  /\ Goto(h, "idle")
  /\ UNCHANGED <<failure, gen, stopEvent, restarts, used, conf, errCount,
                 lastError, blocked, disabled>>

\* The old thread has ended: new settings, and a plain start, which a failure
\* handled in the meantime blocks.
ConfigureJoined(h) ==
  /\ pc[h] = "joining"
  /\ ~Running
  /\ conf' = wanted
  /\ \/ /\ blocked = "none"
        /\ Goto(h, "launching")
        /\ UNCHANGED lock
     \/ /\ blocked # "none"
        /\ Goto(h, "idle")
        /\ lock' = "free"
  /\ UNCHANGED <<failure, gen, stopEvent, restarts, used, wanted, errCount,
                 lastError, blocked, disabled>>

-----------------------------------------------------------------------------
(* POST /watch/stop and POST /auth/cookie                                   *)

StopWatch(h) ==
  /\ pc[h] = "idle" /\ lock = "free"
  /\ Running
  /\ stopEvent' = [stopEvent EXCEPT ![gen] = TRUE]
  /\ UNCHANGED <<pc, failure, lock, gen, restarts, used, conf, wanted,
                 errCount, lastError, blocked, disabled>>

\* recover_account_with_cookie enables the account and stores the cookie; a
\* failed write changes nothing.
UpdateCookie(h) ==
  /\ pc[h] = "idle"
  /\ disabled' = FALSE
  /\ Goto(h, "unblocking")
  /\ UNCHANGED <<failure, lock, gen, stopEvent, restarts, used, conf, wanted,
                 errCount, lastError, blocked>>

\* After update_auth_cookie, which waits for the request in flight.
Unblock(h) ==
  /\ pc[h] = "unblocking"
  /\ lock = "free"
  /\ blocked' = "none"
  /\ Goto(h, "idle")
  /\ UNCHANGED <<failure, lock, gen, stopEvent, restarts, used, conf, wanted,
                 errCount, lastError, disabled>>

-----------------------------------------------------------------------------
(* Failures, met by a handler's action or by the watch loop                 *)

Fail(p, f) ==
  /\ pc[p] = IF p \in Handlers THEN "idle" ELSE "running"
  /\ failure' = [failure EXCEPT ![p] = f]
  /\ Goto(p, "marking")
  /\ Leave(p)
  /\ UNCHANGED <<lock, gen, stopEvent, restarts, conf, wanted, errCount,
                 lastError, blocked, disabled>>

\* mark_account_fail: only a login failure disables the account.
MarkFail(p) ==
  /\ pc[p] = "marking"
  /\ disabled' = (disabled \/ failure[p] = "auth_invalid")
  /\ Goto(p, "blocking")
  /\ UNCHANGED <<failure, lock, gen, stopEvent, restarts, used, conf, wanted,
                 errCount, lastError, blocked>>

\* Fault: the watch is blocked without being stopped.
BlockOnly(p) ==
  /\ pc[p] = "blocking"
  /\ blocked' = failure[p]
  /\ Goto(p, IF p \in Handlers THEN "idle" ELSE "ended")
  /\ UNCHANGED <<failure, lock, gen, stopEvent, restarts, used, conf, wanted,
                 errCount, lastError, disabled>>

\* The notifications before and after this step may take as long as they like.
Block(p) ==
  /\ pc[p] = "blocking"
  /\ blocked' = failure[p]
  /\ Goto(p, "finalizing")
  /\ UNCHANGED <<failure, lock, gen, stopEvent, restarts, used, conf, wanted,
                 errCount, lastError, disabled>>

\* _finalize_stop sets the event that is in _runtime now.
Finalize(p) ==
  /\ pc[p] = "finalizing"
  /\ stopEvent' = [g \in Gens |-> stopEvent[g] \/ g = gen]
  /\ failure' = [failure EXCEPT ![p] = "none"]
  /\ Goto(p, IF p \in Handlers THEN "idle" ELSE "ended")
  /\ UNCHANGED <<lock, gen, restarts, used, conf, wanted, errCount, lastError,
                 blocked, disabled>>

-----------------------------------------------------------------------------
(* The watch thread                                                         *)

Enter(g) ==
  /\ pc[g] = "top"
  /\ IF stopEvent[g]
     THEN Goto(g, "ended") /\ UNCHANGED used
     ELSE Goto(g, "running") /\ used' = [used EXCEPT ![g] = conf]
  /\ UNCHANGED <<failure, lock, gen, stopEvent, restarts, conf, wanted,
                 errCount, lastError, blocked, disabled>>

\* on_success of a cycle.
CycleSucceeds(g) ==
  /\ pc[g] = "running"
  /\ errCount' = 0 /\ lastError' = "none"
  /\ UNCHANGED <<pc, failure, lock, gen, stopEvent, restarts, used, conf,
                 wanted, blocked, disabled>>

\* Fault: a loop with the current settings sleeps on.
NoticeStopLate(g) ==
  /\ pc[g] = "running"
  /\ stopEvent[g]
  /\ used[g] # conf
  /\ Goto(g, "ended")
  /\ Leave(g)
  /\ UNCHANGED <<failure, lock, gen, stopEvent, restarts, conf, wanted,
                 errCount, lastError, blocked, disabled>>

\* watch() looks at the event between requests and while it sleeps.
NoticeStop(g) ==
  /\ pc[g] = "running"
  /\ stopEvent[g]
  /\ Goto(g, "ended")
  /\ Leave(g)
  /\ UNCHANGED <<failure, lock, gen, stopEvent, restarts, conf, wanted,
                 errCount, lastError, blocked, disabled>>

\* Any other exception: give up on too many errors in a row, without
\* auto_restart, or after too many restarts; otherwise back off.
SameErrorCount(e) == IF e = lastError THEN errCount + 1 ELSE 1

GivesUp(g, count) ==
  \/ SameErrors > 0 /\ count >= SameErrors
  \/ ~AutoRestart
  \/ MaxRestarts > 0 /\ restarts[g] + 1 > MaxRestarts

Crash(g, e) ==
  /\ pc[g] = "running"
  /\ errCount' = SameErrorCount(e)
  /\ lastError' = e
  /\ IF GivesUp(g, SameErrorCount(e))
     THEN Goto(g, "finalizing") /\ UNCHANGED restarts
     ELSE Goto(g, "backoff") /\ restarts' = [restarts EXCEPT ![g] = @ + 1]
  /\ Leave(g)
  /\ UNCHANGED <<failure, lock, gen, stopEvent, conf, wanted, blocked, disabled>>

\* stop_event.wait(backoff)
Backoff(g) ==
  /\ pc[g] = "backoff"
  /\ Goto(g, IF stopEvent[g] THEN "ended" ELSE "top")
  /\ UNCHANGED <<failure, lock, gen, stopEvent, restarts, used, conf, wanted,
                 errCount, lastError, blocked, disabled>>

-----------------------------------------------------------------------------

\* A request that a client may send at any time.
Request(h) ==
  \/ \E force \in BOOLEAN : StartCheck(h, force)
  \/ \E c \in Configs : Configure(h, c)
  \/ StopWatch(h)
  \/ UpdateCookie(h)
  \/ \E f \in Failures : Fail(h, f)

\* What a handler does next once a request is under way.
Proceed(h) ==
  \/ ForceStart(h) \/ Launch(h)
  \/ ConfigureTimeout(h) \/ ConfigureJoined(h)
  \/ Unblock(h)

HandleFailure(p) == MarkFail(p) \/ Block(p) \/ Finalize(p)

WatchLoop(g) ==
  \/ Enter(g) \/ CycleSucceeds(g) \/ NoticeStop(g) \/ Backoff(g)
  \/ \E e \in Errors : Crash(g, e)
  \/ \E f \in Failures : Fail(g, f)

Next ==
  \/ \E h \in Handlers : Request(h) \/ Proceed(h)
  \/ \E p \in Procs : HandleFailure(p)
  \/ \E g \in Gens : WatchLoop(g)

Spec == Init /\ [][Next]_vars

\* Threads that can go on do; a running watch looks at its stop event; a
\* handler that waits for a lock which is released again and again gets it.
\* Nobody is obliged to send a request, and no cycle is obliged to succeed.
Fairness ==
  /\ \A h \in Handlers : WF_vars(Proceed(h)) /\ SF_vars(Unblock(h))
  /\ \A p \in Procs : WF_vars(HandleFailure(p))
  /\ \A g \in Gens : WF_vars(Enter(g) \/ Backoff(g)) /\ WF_vars(NoticeStop(g))

FairSpec == Spec /\ Fairness

-----------------------------------------------------------------------------
(* Properties                                                               *)

HandlerAt == {"idle", "forcing", "launching", "joining", "unblocking",
              "marking", "blocking", "finalizing"}
WatchAt == {"none", "top", "running", "backoff", "marking", "blocking",
            "finalizing", "ended"}

\* Type invariant; generations above gen have no thread yet.
TypeOK ==
  /\ pc \in [Procs -> HandlerAt \cup WatchAt]
  /\ \A h \in Handlers : pc[h] \in HandlerAt
  /\ \A g \in Gens : pc[g] \in WatchAt /\ (g > gen <=> pc[g] = "none")
  /\ failure \in [Procs -> Failures \cup {"none"}]
  /\ lock \in Handlers \cup {"free"}
  /\ gen \in 0..MaxGen
  /\ stopEvent \in [Gens -> BOOLEAN]
  /\ restarts \in [Gens -> Nat]
  /\ used \in [Gens -> Configs \cup {"none"}]
  /\ conf \in Configs
  /\ wanted \in Configs
  /\ errCount \in Nat
  /\ lastError \in Errors \cup {"none"}
  /\ blocked \in Failures \cup {"none"}
  /\ disabled \in BOOLEAN

\* Never two watch threads at once, however starts, reconfigurations, stops
\* that are still being noticed and failures interleave: two loops would post,
\* crawl and notify on the same account side by side.
AtMostOneWatcher == \A f, g \in Gens : Alive(f) /\ Alive(g) => f = g

\* A blocked watch is stopped: once a failure has been handled to the end,
\* every watch thread still alive has been told to stop, including one that a
\* concurrent start or reconfiguration put in place of the failed one.
BlockedMeansStopping ==
  blocked # "none" /\ (\A p \in Procs : pc[p] # "finalizing") =>
    \A g \in Gens : Alive(g) => stopEvent[g]

\* The running loop uses the settings that the controller reports, also when
\* a reconfiguration gave up waiting for it.
RunsCurrentConfig == \A g \in Gens : pc[g] = "running" => used[g] = conf

\* A watch loop is not entered again after SameErrors equal errors in a row,
\* nor more than MaxRestarts times by one thread.
CrashLimits ==
  \A g \in Gens : pc[g] \in {"top", "running", "backoff"} =>
    /\ SameErrors > 0 => errCount < SameErrors
    /\ MaxRestarts > 0 => restarts[g] <= MaxRestarts

\* A stop that was requested, by whatever thread, ends the watch thread, also
\* one in its backoff or in the middle of handling a failure.
StopsEventually == \A g \in Gens : stopEvent[g] ~> pc[g] = "ended"

\* Every request to the controller is answered: nobody waits for ever for
\* _control_lock or for the watch thread.
RequestsEnd == \A h \in Handlers : pc[h] # "idle" ~> pc[h] = "idle"

\* usage.md:72-73: a login failure blocks the watch and disables the account.
\* So an account that is left disabled, with nobody at work on it, is blocked.
\* The code does not satisfy it (README, Disagreements), and no run lists it.
DisabledMeansBlocked ==
  /\ disabled
  /\ \A h \in Handlers : pc[h] = "idle"
  /\ \A g \in Gens : pc[g] \notin {"marking", "blocking", "finalizing"}
  => blocked # "none"

=============================================================================
