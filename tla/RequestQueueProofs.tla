-------------------------- MODULE RequestQueueProofs --------------------------
(***************************************************************************)
(* Proofs about the request queue, for any requests, keys, priorities,     *)
(* size limit and waits.                                                   *)
(***************************************************************************)
EXTENDS RequestQueue, TLAPS

\* The worker is between the increment and the decrement of _running.
Counted == (Holding \ {"picked", "admitted"}) \cup {"finishing", "dying"}

\* The counter counts the worker, and the worker has an item while it holds one.
WorkerInv ==
  /\ running = IF worker \in Counted THEN 1 ELSE 0
  /\ item \in Requests <=> worker \in Holding

\* A request whose submit has not taken the lock yet is nowhere in the queue,
\* and a request has a future once its caller has asked for it.
TicketInv ==
  \A r \in Requests :
    /\ caller[r] \in {"new", "ticketed"} => r \notin ready \cup delayed \cup {item}
    /\ caller[r] = "new" <=> fut[r] = "none"

\* stop() sets the event first, and its heaps stay empty.
StopInv ==
  /\ stopper # "idle" => stopped
  /\ stopper = "drained" => ready = {} /\ delayed = {}

Inv == TypeOK /\ WorkerInv /\ TicketInv /\ StopInv /\ HeldOnce /\ CooldownRespected

-----------------------------------------------------------------------------

\* The invariant holds initially.
LEMMA InitInv == Init => Inv
<1> SUFFICES ASSUME Init PROVE Inv
  OBVIOUS
<1> USE QueueAssumption DEF Init
<1>1. TypeOK
  <2>1. /\ ready \subseteq Requests /\ delayed \subseteq Requests
        /\ due \in [Requests -> Nat] /\ cooldown \in [Keys -> Nat]
    OBVIOUS
  <2>2. running \in 0..1 /\ counter \in Nat /\ retryAt \in Nat /\ now \in 0..MaxTime
    OBVIOUS
  <2>3. seq \in [Requests -> Nat]
    OBVIOUS
  <2>4. worker \in WorkerAt /\ item \in Requests \cup {NoRequest}
    BY DEF WorkerAt
  <2>5. fut \in [Requests -> FutureStates] /\ caller \in [Requests -> CallerAt]
    BY DEF FutureStates, CallerAt
  <2> QED
    BY <2>1, <2>2, <2>3, <2>4, <2>5 DEF TypeOK
<1>2. WorkerInv /\ CooldownRespected
  BY DEF WorkerInv, CooldownRespected, Counted, Holding
<1>3. TicketInv /\ StopInv /\ HeldOnce
  BY DEF TicketInv, StopInv, HeldOnce
<1> QED
  BY <1>1, <1>2, <1>3 DEF Inv

\* What the heaps contain after a step that puts r in its place.
LEMMA PlaceLemma ==
  ASSUME NEW r \in Requests, NEW at \in Nat, Place(r, at), TypeOK
  PROVE  /\ ready' \subseteq Requests /\ delayed' \subseteq Requests
         /\ due' \in [Requests -> Nat]
         /\ ready' \cup delayed' = Live(ready) \cup Live(delayed) \cup {r}
         /\ r \notin ready \cup delayed /\ ready \cap delayed = {} =>
              ready' \cap delayed' = {}
  BY DEF Place, DueTimes, Live, TypeOK

\* What the heaps contain after a step that refuses r.
LEMMA RefuseLemma ==
  ASSUME NEW r \in Requests, NEW a \in Answers, Refuse(r, a), TypeOK
  PROVE  /\ ready' = Live(ready) /\ delayed' = Live(delayed)
         /\ due' \in [Requests -> Nat]
         /\ fut' \in [Requests -> FutureStates]
         /\ fut'[r] # "pending" /\ (fut'[r] = "none" <=> fut[r] = "none")
         /\ \A q \in Requests : q # r => fut'[q] = fut[q]
  BY DEF Refuse, DueTimes, Live, TypeOK, Resolved, FutureStates, Answers

-----------------------------------------------------------------------------
(* Each step preserves the invariant.                                       *)

\* TakeTicket preserves the invariant.
LEMMA TakeTicketInv == ASSUME Inv, NEW r \in Requests, TakeTicket(r) PROVE Inv'
  BY QueueAssumption
  DEF TakeTicket, queue, Inv, TypeOK, WorkerInv, TicketInv, StopInv, HeldOnce,
      CooldownRespected, FutureStates, CallerAt

\* Collect preserves the invariant.
LEMMA CollectInv == ASSUME Inv, NEW r \in Requests, Collect(r) PROVE Inv'
  BY QueueAssumption
  DEF Collect, queue, Inv, TypeOK, WorkerInv, TicketInv, StopInv, HeldOnce,
      CooldownRespected, CallerAt

\* TimeOut preserves the invariant.
LEMMA TimeOutInv == ASSUME Inv, NEW r \in Requests, TimeOut(r) PROVE Inv'
  BY QueueAssumption
  DEF TimeOut, queue, Inv, TypeOK, WorkerInv, TicketInv, StopInv, HeldOnce,
      CooldownRespected, CallerAt

\* Cancel preserves the invariant.
LEMMA CancelInv == ASSUME Inv, NEW r \in Requests, Cancel(r) PROVE Inv'
  BY QueueAssumption
  DEF Cancel, Resolved, queue, Inv, TypeOK, WorkerInv, TicketInv, StopInv, HeldOnce,
      CooldownRespected, CallerAt, FutureStates, Answers

\* ExitOnStop preserves the invariant.
LEMMA ExitOnStopInv == ASSUME Inv, ExitOnStop PROVE Inv'
  BY QueueAssumption
  DEF ExitOnStop, queue, Inv, TypeOK, WorkerInv, TicketInv, StopInv, HeldOnce,
      CooldownRespected, WorkerAt, Counted, Holding

\* PollTimeout preserves the invariant.
LEMMA PollTimeoutInv == ASSUME Inv, PollTimeout PROVE Inv'
  BY QueueAssumption
  DEF PollTimeout, queue, Inv, TypeOK, WorkerInv, TicketInv, StopInv, HeldOnce,
      CooldownRespected, WorkerAt, Counted, Holding

\* Tick preserves the invariant.
LEMMA TickInv == ASSUME Inv, Tick PROVE Inv'
  BY QueueAssumption
  DEF Tick, queue, Inv, TypeOK, WorkerInv, TicketInv, StopInv, HeldOnce,
      CooldownRespected, WorkerAt, Counted, Holding

\* Begin preserves the invariant.
LEMMA BeginInv == ASSUME Inv, Begin PROVE Inv'
  BY QueueAssumption
  DEF Begin, Resolved, queue, Inv, TypeOK, WorkerInv, TicketInv, StopInv, HeldOnce,
      CooldownRespected, WorkerAt, Counted, Holding, FutureStates, Answers

\* Enter preserves the invariant.
LEMMA EnterInv == ASSUME Inv, Enter PROVE Inv'
  BY QueueAssumption
  DEF Enter, queue, Inv, TypeOK, WorkerInv, TicketInv, StopInv, HeldOnce,
      CooldownRespected, WorkerAt, Counted, Holding

\* Return preserves the invariant.
LEMMA ReturnInv == ASSUME Inv, Return PROVE Inv'
  BY QueueAssumption
  DEF Return, queue, Inv, TypeOK, WorkerInv, TicketInv, StopInv, HeldOnce,
      CooldownRespected, WorkerAt, Counted, Holding

\* ReturnLimited preserves the invariant.
LEMMA ReturnLimitedInv == ASSUME Inv, NEW w \in Waits, ReturnLimited(w) PROVE Inv'
  BY QueueAssumption
  DEF ReturnLimited, queue, Inv, TypeOK, WorkerInv, TicketInv, StopInv, HeldOnce,
      CooldownRespected, WorkerAt, Counted, Holding

\* DeliverResult preserves the invariant.
LEMMA DeliverResultInv == ASSUME Inv, DeliverResult PROVE Inv'
  BY QueueAssumption
  DEF DeliverResult, Resolved, queue, Inv, TypeOK, WorkerInv, TicketInv, StopInv,
      HeldOnce, CooldownRespected, WorkerAt, Counted, Holding, FutureStates, Answers

\* CheckBeforeError preserves the invariant.
LEMMA CheckBeforeErrorInv == ASSUME Inv, CheckBeforeError PROVE Inv'
  BY QueueAssumption
  DEF CheckBeforeError, queue, Inv, TypeOK, WorkerInv, TicketInv, StopInv,
      HeldOnce, CooldownRespected, WorkerAt, Counted, Holding

\* DeliverError preserves the invariant.
LEMMA DeliverErrorInv == ASSUME Inv, DeliverError PROVE Inv'
  BY QueueAssumption
  DEF DeliverError, Resolved, queue, Inv, TypeOK, WorkerInv, TicketInv, StopInv,
      HeldOnce, CooldownRespected, WorkerAt, Counted, Holding, FutureStates, Answers

\* RecordCooldown preserves the invariant.
LEMMA RecordCooldownInv == ASSUME Inv, RecordCooldown PROVE Inv'
  BY QueueAssumption
  DEF RecordCooldown, Later, queue, Inv, TypeOK, WorkerInv, TicketInv, StopInv,
      HeldOnce, CooldownRespected, WorkerAt, Counted, Holding

\* Finish preserves the invariant.
LEMMA FinishInv == ASSUME Inv, Finish PROVE Inv'
  BY QueueAssumption
  DEF Finish, queue, Inv, TypeOK, WorkerInv, TicketInv, StopInv,
      HeldOnce, CooldownRespected, WorkerAt, Counted, Holding

\* SignalStop preserves the invariant.
LEMMA SignalStopInv == ASSUME Inv, SignalStop PROVE Inv'
  BY QueueAssumption
  DEF SignalStop, queue, Inv, TypeOK, WorkerInv, TicketInv, StopInv,
      HeldOnce, CooldownRespected

\* Drain preserves the invariant.
LEMMA DrainInv == ASSUME Inv, Drain PROVE Inv'
  BY QueueAssumption
  DEF Drain, DueTimes, Live, Woken, queue, Inv, TypeOK, WorkerInv, TicketInv, StopInv,
      HeldOnce, CooldownRespected, WorkerAt, Counted, Holding, FutureStates, Answers

\* DrainInterrupted preserves the invariant.
LEMMA DrainInterruptedInv ==
  ASSUME Inv, NEW r \in Requests, NEW S \in SUBSET Requests, DrainInterrupted(r, S)
  PROVE  Inv'
  BY QueueAssumption
  DEF DrainInterrupted, Live, queue, Inv, TypeOK, WorkerInv, TicketInv, StopInv,
      HeldOnce, CooldownRespected, CallerAt, FutureStates, Answers

\* submit by a caller: the request is refused, or it is put in one heap.
LEMMA SubmitInv == ASSUME Inv, NEW r \in Requests, Submit(r) PROVE Inv'
<1> USE QueueAssumption
<1>1. /\ caller[r] = "ticketed" /\ caller' = [caller EXCEPT ![r] = "waiting"]
      /\ UNCHANGED <<cooldown, running, stopped, counter, seq, item, retryAt,
                     stopper, now>>
      /\ TypeOK /\ r \notin ready \cup delayed \cup {item}
  BY DEF Submit, Inv, TicketInv
<1>2. CASE \E a \in {"full", "stopped"} : Refuse(r, a) /\ UNCHANGED worker
  <2>1. PICK a \in {"full", "stopped"} : Refuse(r, a) /\ UNCHANGED worker
    BY <1>2
  <2>2. /\ ready' = Live(ready) /\ delayed' = Live(delayed)
        /\ due' \in [Requests -> Nat]
        /\ fut' \in [Requests -> FutureStates]
        /\ fut'[r] # "pending" /\ (fut'[r] = "none" <=> fut[r] = "none")
        /\ \A q \in Requests : q # r => fut'[q] = fut[q]
    BY <1>1, <2>1, RefuseLemma DEF Answers
  <2> QED
    BY <1>1, <2>1, <2>2, ZenonT(40)
    DEF Inv, TypeOK, WorkerInv, TicketInv, StopInv, HeldOnce, CooldownRespected,
        Live, CallerAt
<1>3. CASE ~stopped /\ Place(r, cooldown[KeyOf[r]]) /\ worker' = Woken /\ UNCHANGED fut
  <2>1. /\ ready' \subseteq Requests /\ delayed' \subseteq Requests
        /\ due' \in [Requests -> Nat]
        /\ ready' \cup delayed' = Live(ready) \cup Live(delayed) \cup {r}
        /\ ready' \cap delayed' = {}
    BY <1>1, <1>3, PlaceLemma DEF Inv, TypeOK, HeldOnce
  <2>2. /\ worker' \in WorkerAt
        /\ worker' \in Counted <=> worker \in Counted
        /\ worker' \in Holding <=> worker \in Holding
        /\ worker' \in {"picked", "admitted", "running"} <=> worker \in {"picked", "admitted", "running"}
    BY <1>1, <1>3 DEF TypeOK, Woken, WorkerAt, Counted, Holding
  <2>3. TypeOK' /\ WorkerInv' /\ CooldownRespected'
    BY <1>1, <1>3, <2>1, <2>2 DEF Inv, TypeOK, WorkerInv, CooldownRespected, CallerAt
  <2>4. TicketInv' /\ StopInv'
    BY <1>1, <1>3, <2>1 DEF Inv, TypeOK, TicketInv, StopInv, Live
  <2>5. HeldOnce'
    BY <1>1, <1>3, <2>1 DEF Inv, TypeOK, HeldOnce, Live
  <2> QED
    BY <2>3, <2>4, <2>5 DEF Inv
<1> QED
  BY <1>2, <1>3 DEF Submit

\* A rate-limited request goes back, unless the queue is stopped.
LEMMA RequeueInv == ASSUME Inv, Requeue PROVE Inv'
<1> USE QueueAssumption
<1>1. /\ worker = "requeueing" /\ worker' \in {"finishing", "dying"}
      /\ item' = NoRequest /\ retryAt' = 0
      /\ UNCHANGED <<cooldown, running, stopped, counter, seq, caller, stopper, now>>
      /\ TypeOK /\ item \in Requests /\ item \notin ready \cup delayed
      /\ caller[item] \notin {"new", "ticketed"}
      /\ Later(retryAt, cooldown[KeyOf[item]]) \in Nat
  BY DEF Requeue, Inv, TypeOK, WorkerInv, TicketInv, HeldOnce, Holding, Later
<1>2. /\ worker' \in WorkerAt /\ worker' \in Counted /\ worker \in Counted
      /\ worker' \notin Holding
  BY <1>1 DEF WorkerAt, Counted, Holding
<1>3. CASE stopped /\ Refuse(item, "stopped")
  <2>1. /\ ready' = Live(ready) /\ delayed' = Live(delayed)
        /\ due' \in [Requests -> Nat]
        /\ fut' \in [Requests -> FutureStates]
        /\ fut'[item] # "pending" /\ (fut'[item] = "none" <=> fut[item] = "none")
        /\ \A q \in Requests : q # item => fut'[q] = fut[q]
    BY <1>1, <1>3, RefuseLemma DEF Answers
  <2> QED
    BY <1>1, <1>2, <1>3, <2>1
    DEF Inv, TypeOK, WorkerInv, TicketInv, StopInv, HeldOnce, CooldownRespected, Live
<1>4. CASE ~stopped /\ Place(item, Later(retryAt, cooldown[KeyOf[item]])) /\ UNCHANGED fut
  <2>1. /\ ready' \subseteq Requests /\ delayed' \subseteq Requests
        /\ due' \in [Requests -> Nat]
        /\ ready' \cup delayed' = Live(ready) \cup Live(delayed) \cup {item}
        /\ ready' \cap delayed' = {}
    BY <1>1, <1>4, PlaceLemma DEF Inv, HeldOnce
  <2> QED
    BY <1>1, <1>2, <1>4, <2>1
    DEF Inv, TypeOK, WorkerInv, TicketInv, StopInv, HeldOnce, CooldownRespected, Live
<1> QED
  BY <1>3, <1>4 DEF Requeue

\* The pop, and what it puts back for the cooling keys.
LEMMA PickInv == ASSUME Inv, NEW r \in Requests, Pick(r) PROVE Inv'
<1> USE QueueAssumption
<1> DEFINE back == ShuntedBefore(r)
<1>1. /\ worker = "next" /\ worker' = "picked" /\ item' = r /\ ~stopped
      /\ r \in Available \ Cooling(Available)
      /\ ready' = Available \ ({r} \cup back)
      /\ delayed' = (Live(delayed) \ Promoted) \cup back
      /\ due' = [q \in Requests |->
                   IF q \in back THEN [p \in back |-> cooldown[KeyOf[p]]][q]
                   ELSE IF q \in delayed' THEN due[q] ELSE 0]
      /\ UNCHANGED <<cooldown, running, stopped, counter, seq, retryAt, fut,
                     caller, stopper, now>>
      /\ TypeOK
  BY DEF Pick, Shunt, DueTimes, Inv
<1>2. /\ back \subseteq Available /\ r \notin back
      /\ Promoted \subseteq Live(delayed)
      /\ Available = Live(ready) \cup Promoted
      /\ cooldown[KeyOf[r]] <= now
  BY <1>1 DEF ShuntedBefore, Cooling, Promoted, Live, Available, TypeOK
<1> HIDE DEF back
<1>3. TypeOK'
  BY <1>1, <1>2 DEF TypeOK, Live, WorkerAt
<1>4. WorkerInv' /\ CooldownRespected'
  BY <1>1, <1>2 DEF Inv, WorkerInv, CooldownRespected, Counted, Holding
<1>5. TicketInv' /\ StopInv'
  BY <1>1, <1>2 DEF Inv, TypeOK, TicketInv, StopInv, Live
<1>6. HeldOnce'
  BY <1>1, <1>2 DEF Inv, TypeOK, WorkerInv, HeldOnce, Live, Holding
<1> QED
  BY <1>3, <1>4, <1>5, <1>6 DEF Inv

\* Wait preserves the invariant.
LEMMA WaitInv == ASSUME Inv, Wait PROVE Inv'
<1> USE QueueAssumption
<1>1. /\ worker = "next" /\ worker' \in {"blocked", "polling"} /\ ~stopped
      /\ ready' = {}
      /\ delayed' = (Live(delayed) \ Promoted) \cup Available
      /\ due' = [q \in Requests |->
                   IF q \in Available THEN [p \in Available |-> cooldown[KeyOf[p]]][q]
                   ELSE IF q \in delayed' THEN due[q] ELSE 0]
      /\ UNCHANGED <<cooldown, running, stopped, counter, seq, item, retryAt, fut,
                     caller, stopper, now>>
      /\ TypeOK
  BY DEF Wait, Shunt, DueTimes, Inv
<1>2. Available = Live(ready) \cup Promoted /\ Promoted \subseteq Live(delayed)
  BY DEF Promoted, Live, Available
<1>3. TypeOK'
  BY <1>1, <1>2 DEF TypeOK, Live, WorkerAt
<1>4. WorkerInv' /\ CooldownRespected'
  BY <1>1 DEF Inv, WorkerInv, CooldownRespected, Counted, Holding
<1>5. TicketInv' /\ StopInv' /\ HeldOnce'
  BY <1>1, <1>2 DEF Inv, TypeOK, TicketInv, StopInv, HeldOnce, Live
<1> QED
  BY <1>3, <1>4, <1>5 DEF Inv

-----------------------------------------------------------------------------

\* Every step preserves the invariant.
LEMMA NextInv == Inv /\ [Next]_vars => Inv'
<1> SUFFICES ASSUME Inv, [Next]_vars PROVE Inv'
  OBVIOUS
<1>1. CASE WorkerStep
  BY <1>1, ExitOnStopInv, PickInv, WaitInv, PollTimeoutInv, BeginInv, EnterInv, ReturnInv,
     ReturnLimitedInv, DeliverResultInv, CheckBeforeErrorInv, DeliverErrorInv,
     RecordCooldownInv, RequeueInv, FinishInv
  DEF WorkerStep
<1>2. CASE \E r \in Requests : CallerStep(r)
  BY <1>2, TakeTicketInv, SubmitInv, CollectInv, TimeOutInv, CancelInv DEF CallerStep
<1>3. CASE StopStep
  BY <1>3, SignalStopInv, DrainInv, DrainInterruptedInv DEF StopStep
<1>4. CASE Tick
  BY <1>4, TickInv
<1>5. CASE UNCHANGED vars
  BY <1>5
  DEF vars, queue, Inv, TypeOK, WorkerInv, TicketInv, StopInv, HeldOnce,
      CooldownRespected
<1> QED
  BY <1>1, <1>2, <1>3, <1>4, <1>5 DEF Next

\* The invariant holds in every behaviour of the queue.
THEOREM Invariant == Spec => []Inv
  BY InitInv, NextInv, PTL DEF Spec

\* The variables have their types, and _running counts at most the one worker
\* of request_queue.py.
THEOREM TypeCorrect == Spec => []TypeOK
<1>1. Inv => TypeOK
  BY DEF Inv
<1> QED
  BY <1>1, Invariant, PTL

\* No request is lost or doubled by pops, shunts, retries, failures and stop().
THEOREM NoRequestLost == Spec => []HeldOnce
<1>1. Inv => HeldOnce
  BY DEF Inv
<1> QED
  BY <1>1, Invariant, PTL

\* No request is sent while a cooldown of its key is in force.
THEOREM CooldownsHold == Spec => []CooldownRespected
<1>1. Inv => CooldownRespected
  BY DEF Inv
<1> QED
  BY <1>1, Invariant, PTL

\* After stop() only the request in the worker's hands is still waited for.
THEOREM StopIsComplete == Spec => []NothingLeftBehind
<1>1. Inv => NothingLeftBehind
  BY DEF Inv, StopInv, HeldOnce, NothingLeftBehind
<1> QED
  BY <1>1, Invariant, PTL

\* The worker takes the best request that can be sent, from either heap.
THEOREM PriorityHolds == Spec => PriorityRespected
<1>1. ASSUME Inv, Next, worker = "next", worker' = "picked",
             NEW q \in Requests, Startable(q)
      PROVE  q = item' \/ Beats(item', q)
  <2>1. PICK r \in Requests : Pick(r)
    BY <1>1
    DEF Next, WorkerStep, CallerStep, StopStep, ExitOnStop, Wait, PollTimeout,
        Begin, Enter, Return, ReturnLimited, DeliverResult, CheckBeforeError,
        DeliverError, RecordCooldown, Requeue, Finish, TakeTicket, Submit,
        Collect, TimeOut, Cancel, SignalStop, Drain, DrainInterrupted, Tick, Woken
  <2>2. q \in Available \ Cooling(Available)
    BY <1>1, QueueAssumption
    DEF Startable, Available, Cooling, Promoted, Live, Inv, TypeOK
  <2> QED
    BY <2>1, <2>2 DEF Pick
<1>2. Inv /\ [Next]_vars =>
        [worker = "next" /\ worker' = "picked" =>
           \A r \in Requests : Startable(r) => r = item' \/ Beats(item', r)]_vars
  BY <1>1
<1> QED
  BY <1>2, Invariant, PTL DEF Spec, PriorityRespected

\* A request the queue has accepted is not rejected for lack of room later.
THEOREM AcceptedStays == Spec => AcceptedNeverRejected
<1>1. ASSUME Inv, Next, NEW r \in Requests, caller[r] = "waiting", fut[r] = "pending"
      PROVE  fut'[r] # "full"
  <2>1. CASE WorkerStep
    BY <1>1, <2>1
    DEF WorkerStep, ExitOnStop, Pick, Wait, PollTimeout, Begin, Enter, Return,
        ReturnLimited, DeliverResult, CheckBeforeError, DeliverError,
        RecordCooldown, Requeue, Refuse, Finish, Resolved, Inv, TypeOK
  <2>2. CASE \E q \in Requests : CallerStep(q)
    BY <1>1, <2>2
    DEF CallerStep, TakeTicket, Submit, Refuse, Resolved, Collect, TimeOut,
        Cancel, Inv, TypeOK
  <2>3. CASE StopStep \/ Tick
    BY <1>1, <2>3 DEF StopStep, SignalStop, Drain, DrainInterrupted, Tick
  <2> QED
    BY <1>1, <2>1, <2>2, <2>3 DEF Next
<1>2. Inv /\ [Next]_vars =>
        [\A r \in Requests :
           caller[r] = "waiting" /\ fut[r] = "pending" => fut'[r] # "full"]_vars
  BY <1>1
<1> QED
  BY <1>2, Invariant, PTL DEF Spec, AcceptedNeverRejected

-----------------------------------------------------------------------------
(* The queue implements SerialService.  One lemma per kind of abstract step *)
(* says which concrete changes map to it.                                   *)

\* A step that neither answers nor changes what is served maps to a stutter.
LEMMA StutterStep == ASSUME UNCHANGED fut, UNCHANGED <<Claimed, Serving>>
                     PROVE  UNCHANGED Service!svars
  BY DEF Service!svars, Asked, Answered

\* An answer to the item, or none, while it leaves the worker's hands.
LEMMA ReleaseStep ==
  ASSUME TypeOK, NEW a \in {"result", "error", "full", "stopped"},
         item \in Requests, Claimed = item, Serving = item,
         Claimed' = NoRequest, Serving' = NoRequest,
         \/ UNCHANGED fut
         \/ fut[item] = "pending" /\ fut' = [fut EXCEPT ![item] = a]
  PROVE  Service!Next
<1>1. Asked' = Asked
  BY DEF Asked, TypeOK
<1>2. CASE UNCHANGED fut
  BY <1>1, <1>2 DEF Service!Next, Service!Release, Answered
<1>3. CASE fut[item] = "pending" /\ fut' = [fut EXCEPT ![item] = a]
  <2>1. Answered[item] = "none" /\ AnswerFor(a) \in {"result", "error", "refused"}
    BY <1>3 DEF Answered, AnswerFor
  <2>2. Answered' = [Answered EXCEPT ![item] = AnswerFor(a)]
    BY <1>3 DEF Answered, TypeOK
  <2> QED
    BY <1>1, <2>1, <2>2 DEF Service!Next, Service!Release
<1> QED
  BY <1>2, <1>3

\* Pending requests that are refused or cancelled at once.
LEMMA DismissStep ==
  ASSUME TypeOK, fut' \in [Requests -> FutureStates], UNCHANGED <<Claimed, Serving>>,
         NEW R \in SUBSET Requests, NEW C \in SUBSET Requests,
         \A r \in R \cup C : fut[r] = "pending",
         \A r \in R : r # Claimed /\ fut'[r] \in {"full", "stopped"},
         \A r \in C \ R : fut'[r] = "cancelled",
         \A r \in Requests \ (R \cup C) : fut'[r] = fut[r]
  PROVE  Service!Next
<1> DEFINE f == [r \in Requests |-> IF r \in R THEN "refused"
                                    ELSE IF r \in C THEN "cancelled" ELSE "none"]
<1>1. Asked' = Asked
  BY DEF Asked, TypeOK
<1>2. f \in [Requests -> {"none", "refused", "cancelled"}]
  OBVIOUS
<1>3. \A r \in Requests : f[r] # "none" =>
        r \in Asked /\ Answered[r] = "none" /\ (f[r] = "refused" => Claimed # r)
  BY DEF Asked, Answered, AnswerFor
<1>4. Answered' = [r \in Requests |-> IF f[r] = "none" THEN Answered[r] ELSE f[r]]
  BY DEF Answered, AnswerFor
<1> QED
  BY <1>1, <1>2, <1>3, <1>4 DEF Service!Next, Service!Dismiss

\* One pending request that is refused or cancelled.
LEMMA DismissOne ==
  ASSUME TypeOK, NEW r \in Requests, NEW a \in {"full", "stopped", "cancelled"},
         fut[r] = "pending", fut' = [fut EXCEPT ![r] = a],
         UNCHANGED <<Claimed, Serving>>, a = "cancelled" \/ r # Claimed
  PROVE  Service!Next
<1> DEFINE R == IF a = "cancelled" THEN {} ELSE {r}
           C == IF a = "cancelled" THEN {r} ELSE {}
<1>1. R \in SUBSET Requests /\ C \in SUBSET Requests
  OBVIOUS
<1>2. fut' \in [Requests -> FutureStates] /\ fut'[r] = a
  BY DEF TypeOK, FutureStates, Answers
<1>3. /\ \A q \in R \cup C : fut[q] = "pending"
      /\ \A q \in R : q # Claimed /\ fut'[q] \in {"full", "stopped"}
      /\ \A q \in C \ R : fut'[q] = "cancelled"
      /\ \A q \in Requests \ (R \cup C) : fut'[q] = fut[q]
  BY <1>2 DEF TypeOK
<1> HIDE DEF R, C
<1> QED
  BY <1>1, <1>2, <1>3, DismissStep

\* The initial states of the queue are initial states of the service.
LEMMA ServiceInit == Init => Service!Init
  BY DEF Init, Service!Init, Asked, Claimed, Serving, Answered, AnswerFor, Holding

\* Callers and stop() never touch the item's service.
LEMMA CallerMaps ==
  ASSUME Inv, NEW r \in Requests, CallerStep(r)
  PROVE  Service!Next \/ UNCHANGED Service!svars
<1>1. CASE TakeTicket(r)
  <2>1. fut[r] = "none" /\ fut' = [fut EXCEPT ![r] = "pending"] /\ UNCHANGED <<Claimed, Serving>>
    BY <1>1 DEF TakeTicket, Inv, TicketInv, Claimed, Serving
  <2>2. r \notin Asked /\ Asked' = Asked \cup {r} /\ Answered' = Answered
    BY <2>1 DEF Asked, Answered, AnswerFor, Inv, TypeOK
  <2> QED
    BY <2>1, <2>2 DEF Service!Next, Service!Ask
<1>2. CASE Submit(r)
  <2>1. UNCHANGED <<Claimed, Serving>> /\ r # Claimed
    BY <1>2, QueueAssumption
    DEF Submit, Woken, Claimed, Serving, Holding, Inv, TicketInv
  <2>2. CASE UNCHANGED fut
    BY <2>1, <2>2, StutterStep
  <2>3. CASE fut[r] = "pending" /\ \E a \in {"full", "stopped"} : fut' = [fut EXCEPT ![r] = a]
    BY <2>1, <2>3, DismissOne DEF Inv
  <2> QED
    BY <1>2, <2>2, <2>3 DEF Submit, Refuse, Resolved
<1>3. CASE Collect(r) \/ TimeOut(r)
  BY <1>3, StutterStep DEF Collect, TimeOut, Claimed, Serving
<1>4. CASE Cancel(r)
  <2>1. UNCHANGED <<Claimed, Serving>>
    BY <1>4 DEF Cancel, Claimed, Serving
  <2>2. CASE UNCHANGED fut
    BY <2>1, <2>2, StutterStep
  <2>3. CASE fut[r] = "pending" /\ fut' = [fut EXCEPT ![r] = "cancelled"]
    BY <2>1, <2>3, DismissOne DEF Inv
  <2> QED
    BY <1>4, <2>2, <2>3 DEF Cancel, Resolved
<1> QED
  BY <1>1, <1>2, <1>3, <1>4 DEF CallerStep

\* The steps of stop() map to dismissals or stutters.
LEMMA StopMaps ==
  ASSUME Inv, StopStep PROVE Service!Next \/ UNCHANGED Service!svars
<1>1. CASE SignalStop
  BY <1>1, StutterStep DEF SignalStop, Claimed, Serving
<1>2. CASE Drain
  <2> DEFINE R == Live(ready \cup delayed)
  <2>1. UNCHANGED <<Claimed, Serving>>
    BY <1>2 DEF Drain, Woken, Claimed, Serving, Holding
  <2>2. \A r \in R : r \in Requests /\ fut[r] = "pending" /\ r # Claimed
    BY QueueAssumption DEF Live, Claimed, Serving, Inv, TypeOK, HeldOnce
  <2>3. /\ \A r \in R : fut'[r] \in {"full", "stopped"}
        /\ \A r \in Requests \ R : fut'[r] = fut[r]
    BY <1>2, <2>2 DEF Drain
  <2>4. TypeOK /\ fut' \in [Requests -> FutureStates]
    BY <1>2 DEF Drain, Inv, TypeOK, FutureStates, Answers
  <2> HIDE DEF R
  <2> QED
    BY <2>1, <2>2, <2>3, <2>4, DismissStep
<1>3. ASSUME NEW r \in Requests, NEW S \in SUBSET Requests, DrainInterrupted(r, S)
      PROVE  Service!Next
  <2>1. UNCHANGED <<Claimed, Serving>>
    BY <1>3 DEF DrainInterrupted, Claimed, Serving
  <2>2. /\ r \notin S /\ fut[r] = "pending"
        /\ \A q \in S : fut[q] = "pending" /\ q # Claimed
    BY <1>3, QueueAssumption DEF DrainInterrupted, Live, Claimed, Serving, Inv, TypeOK, HeldOnce
  <2>3. /\ \A q \in S : fut'[q] \in {"full", "stopped"}
        /\ fut'[r] = "cancelled"
        /\ \A q \in Requests \ (S \cup {r}) : fut'[q] = fut[q]
    BY <1>3, <2>2 DEF DrainInterrupted
  <2>4. TypeOK /\ fut' \in [Requests -> FutureStates]
    BY <1>3 DEF DrainInterrupted, Inv, TypeOK, FutureStates, Answers
  <2> DEFINE C == {r}
  <2>5. /\ C \in SUBSET Requests
        /\ \A q \in S \cup C : fut[q] = "pending"
        /\ \A q \in C \ S : fut'[q] = "cancelled"
        /\ \A q \in Requests \ (S \cup C) : fut'[q] = fut[q]
    BY <2>2, <2>3
  <2> HIDE DEF C
  <2> QED
    BY <2>1, <2>2, <2>3, <2>4, <2>5, DismissStep
<1> QED
  BY <1>1, <1>2, <1>3 DEF StopStep

\* The steps of the worker map to serving, releasing, dismissing or nothing.
LEMMA WorkerMaps ==
  ASSUME Inv, WorkerStep PROVE Service!Next \/ UNCHANGED Service!svars
<1> USE QueueAssumption
<1>1. CASE ExitOnStop \/ Wait \/ PollTimeout \/ Return \/ Finish
            \/ \E r \in Requests : Pick(r)
  <2>1. UNCHANGED fut /\ UNCHANGED <<Claimed, Serving>>
    BY <1>1
    DEF ExitOnStop, Wait, PollTimeout, Return, Finish, Pick, Claimed, Serving, Holding,
        Inv, WorkerInv
  <2> QED
    BY <2>1, StutterStep
<1>2. CASE \E w \in Waits : ReturnLimited(w)
  BY <1>2, StutterStep DEF ReturnLimited, Claimed, Serving, Holding
<1>3. CASE Begin
  <2>1. worker = "picked" /\ item \in Requests /\ TypeOK /\ Claimed = NoRequest
    BY <1>3 DEF Begin, Inv, WorkerInv, Claimed, Serving, Holding
  <2>2. CASE worker' = "next" /\ UNCHANGED fut
    BY <2>1, <2>2, StutterStep DEF Claimed, Serving, Holding
  <2>3. CASE worker' = "exited" /\ fut[item] = "pending" /\ fut' = Resolved(item, "stopped")
    <3>1. UNCHANGED <<Claimed, Serving>> /\ item # Claimed
      BY <2>1, <2>3 DEF Claimed, Serving, Holding
    <3>2. fut' = [fut EXCEPT ![item] = "stopped"]
      BY <2>3 DEF Resolved
    <3> QED
      BY <2>1, <2>3, <3>1, <3>2, DismissOne
  <2>4. CASE worker' = "admitted" /\ fut[item] = "pending" /\ UNCHANGED <<fut, item>>
    <3>1. Claimed' = item /\ Serving' = Serving
      BY <2>1, <2>4 DEF Claimed, Serving, Holding
    <3>2. item \in Asked /\ Answered[item] = "none" /\ UNCHANGED <<Asked, Answered>>
      BY <2>1, <2>4 DEF Asked, Answered, AnswerFor
    <3> QED
      BY <2>1, <3>1, <3>2 DEF Service!Next, Service!Claim
  <2> QED
    BY <1>3, <2>2, <2>3, <2>4 DEF Begin
<1>4. CASE Enter
  <2>1. /\ item \in Requests /\ Claimed = item /\ Claimed' = item
        /\ Serving = NoRequest /\ Serving' = item
    BY <1>4 DEF Enter, Inv, WorkerInv, Claimed, Serving, Holding
  <2>2. UNCHANGED <<Asked, Answered>>
    BY <1>4 DEF Enter, Asked, Answered
  <2> QED
    BY <2>1, <2>2 DEF Service!Next, Service!Serve
<1>5. CASE DeliverResult \/ DeliverError \/ Requeue
  <2>1. /\ item \in Requests /\ TypeOK /\ Claimed = item /\ Serving = item
        /\ Claimed' = NoRequest /\ Serving' = NoRequest
    BY <1>5 DEF DeliverResult, DeliverError, Requeue, Inv, WorkerInv, Claimed, Serving, Holding
  <2>2. \/ UNCHANGED fut
        \/ \E a \in {"result", "error", "full", "stopped"} :
             fut[item] = "pending" /\ fut' = [fut EXCEPT ![item] = a]
    BY <1>5 DEF DeliverResult, DeliverError, Requeue, Refuse, Resolved
  <2> QED
    BY <2>1, <2>2, ReleaseStep
<1>6. CASE CheckBeforeError \/ RecordCooldown
  <2>1. UNCHANGED fut /\ TypeOK /\ item \in Requests /\ Claimed = item /\ Serving = item
    BY <1>6 DEF CheckBeforeError, RecordCooldown, Inv, WorkerInv, Claimed, Serving, Holding
  <2>2. UNCHANGED <<Claimed, Serving>> \/ (Claimed' = NoRequest /\ Serving' = NoRequest)
    BY <1>6 DEF CheckBeforeError, RecordCooldown, Claimed, Serving, Holding
  <2> QED
    BY <2>1, <2>2, StutterStep, ReleaseStep
<1> QED
  BY <1>1, <1>2, <1>3, <1>4, <1>5, <1>6 DEF WorkerStep

\* Every step of the queue is a step of the service or a stutter.
LEMMA ServiceNext ==
  ASSUME Inv, [Next]_vars PROVE [Service!Next]_Service!svars
<1>1. CASE Tick \/ UNCHANGED vars
  BY <1>1, StutterStep DEF Tick, vars, queue, Claimed, Serving
<1> QED
  BY <1>1, WorkerMaps, CallerMaps, StopMaps DEF Next

\* The queue implements the serial service, whatever its parameters.
THEOREM Implementation == Spec => ImplementsService
  BY ServiceInit, ServiceNext, Invariant, PTL DEF Spec, ImplementsService, Service!Spec

-----------------------------------------------------------------------------
(* Why calls are answered: what CallsAnswered and StopEndsWorker rest on.   *)

\* The worker waits without a timeout only when no request is in a heap, and
\* after the stop event is set only as long as stop() is about to wake it.
NoWakeupLost ==
  worker = "blocked" =>
    /\ ready \cup delayed = {}
    /\ stopped => stopper = "signalled"

\* As long as nobody gives up, the request in the worker's hands waits for its
\* answer, so that no InvalidStateError ends the thread or breaks stop() off.
Patient ==
  /\ \A r \in Requests : caller[r] \notin {"cancelling", "timedout"}
  /\ stopper # "raised"
  /\ worker \in Holding => fut[item] = "pending"
  /\ worker \notin {"dying", "dead"}
  /\ worker = "exited" => stopped
  /\ stopped => stopper # "idle"

\* A call that waits has the worker at work, or stop() about to refuse it.
NobodyForgotten ==
  \A r \in Requests :
    caller[r] = "waiting" /\ fut[r] = "pending" =>
      worker \notin {"blocked", "exited", "dead"} \/ stopper = "signalled"

\* Whoever puts a request into a heap, or empties the heaps, wakes the worker.
LEMMA WakeupStep == Inv /\ NoWakeupLost /\ [Next]_vars => NoWakeupLost'
<1> SUFFICES ASSUME Inv, NoWakeupLost, [Next]_vars PROVE NoWakeupLost'
  OBVIOUS
<1> USE DEF NoWakeupLost
<1>1. CASE Wait
  BY <1>1 DEF Wait, Shunt, Inv, StopInv
<1>2. CASE WorkerStep /\ ~Wait
  BY <1>2
  DEF WorkerStep, ExitOnStop, Pick, PollTimeout, Begin, Enter, Return, ReturnLimited,
      DeliverResult, CheckBeforeError, DeliverError, RecordCooldown, Requeue, Finish
<1>3. ASSUME NEW r \in Requests, Submit(r) PROVE NoWakeupLost'
  BY <1>3 DEF Submit, Refuse, Live, Woken
<1>4. ASSUME NEW r \in Requests, CallerStep(r), ~Submit(r) PROVE NoWakeupLost'
  BY <1>4 DEF CallerStep, TakeTicket, Collect, TimeOut, Cancel, queue
<1>5. CASE StopStep
  <2>1. CASE SignalStop
    BY <2>1 DEF SignalStop
  <2>2. CASE Drain
    BY <2>2 DEF Drain, Woken
  <2>3. ASSUME NEW r \in Requests, NEW S, DrainInterrupted(r, S) PROVE NoWakeupLost'
    BY <2>3 DEF DrainInterrupted, Live, queue
  <2> QED
    BY <1>5, <2>1, <2>2, <2>3 DEF StopStep
<1>6. CASE Tick \/ UNCHANGED vars
  BY <1>6 DEF Tick, vars, queue
<1> QED
  BY <1>1, <1>2, <1>3, <1>4, <1>5, <1>6 DEF Next

\* Only a call that gives up takes the request out of the worker's hands.
LEMMA PatientStep ==
  ASSUME Timed = {}
  PROVE  Inv /\ Patient /\ [Next]_vars => Patient'
<1> SUFFICES ASSUME Inv, Patient, [Next]_vars PROVE Patient'
  OBVIOUS
<1> USE QueueAssumption DEF Patient, Holding
<1>1. CASE WorkerStep
  <2>1. CASE \E r \in Requests : Pick(r)
    BY <1>1, <2>1 DEF Pick, Available, Promoted, Live
  <2>2. CASE Begin \/ Enter \/ CheckBeforeError \/ RecordCooldown
    BY <1>1, <2>2 DEF Begin, Enter, CheckBeforeError, RecordCooldown, Resolved, queue
  <2>3. CASE ExitOnStop \/ Wait \/ PollTimeout \/ Return \/ DeliverResult \/ DeliverError
             \/ \E w \in Waits : ReturnLimited(w)
    BY <1>1, <2>3
    DEF ExitOnStop, Wait, PollTimeout, Return, ReturnLimited, DeliverResult, DeliverError,
        queue
  <2>4. CASE Requeue \/ Finish
    BY <1>1, <2>4 DEF Requeue, Finish
  <2> QED
    BY <1>1, <2>1, <2>2, <2>3, <2>4 DEF WorkerStep
<1>2. ASSUME NEW r \in Requests, CallerStep(r) PROVE Patient'
  <2>1. item \in Requests => fut[item] # "none" /\ (caller[r] \in {"new", "ticketed"} => item # r)
    BY DEF Inv, TicketInv
  <2>2. worker \in Holding => item \in Requests
    BY DEF Inv, WorkerInv
  <2>3. CASE TakeTicket(r)
    BY <2>1, <2>2, <2>3 DEF TakeTicket, Inv, TypeOK, queue
  <2>4. CASE Submit(r)
    BY <2>1, <2>2, <2>4 DEF Submit, Refuse, Resolved, Woken, Inv, TypeOK
  <2>5. CASE Collect(r)
    BY <2>5 DEF Collect, Inv, TypeOK, queue
  <2> QED
    BY <1>2, <2>3, <2>4, <2>5 DEF CallerStep, TimeOut, Cancel
<1>3. CASE StopStep
  <2>1. worker \in Holding => item \in Requests /\ item \notin ready \cup delayed
    BY DEF Inv, WorkerInv, HeldOnce
  <2> QED
    BY <1>3, <2>1 DEF StopStep, SignalStop, Drain, DrainInterrupted, Live, Woken
<1>4. CASE Tick \/ UNCHANGED vars
  BY <1>4 DEF Tick, vars, queue
<1> QED
  BY <1>1, <1>2, <1>3, <1>4 DEF Next

\* No wakeup of the worker is lost, whoever calls, cancels and stops: the wait
\* of _next_item without a timeout (request_queue.py:162) begins and goes on
\* with empty heaps only.
THEOREM WorkerSleepsIdle == Spec => []NoWakeupLost
<1>1. Init => NoWakeupLost
  BY DEF Init, NoWakeupLost
<1> QED
  BY <1>1, WakeupStep, Invariant, PTL DEF Spec

\* When no caller gives up, the worker thread does not die, and a call that
\* waits has it at work or is refused by stop() next: what remains for
\* CallsAnswered is that threads go on and cooldowns pass.
THEOREM WaitingIsServed ==
  ASSUME Timed = {}
  PROVE  Spec => []NobodyForgotten
<1>1. Init => Patient
  BY DEF Init, Patient, Holding
<1>2. Inv /\ NoWakeupLost /\ Patient => NobodyForgotten
  <2> SUFFICES ASSUME Inv, NoWakeupLost, Patient, NEW r \in Requests,
                      caller[r] = "waiting", fut[r] = "pending",
                      worker \in {"blocked", "exited", "dead"}
               PROVE  stopper = "signalled"
    BY DEF NobodyForgotten
  <2>1. r \in ready \cup delayed \cup {item} /\ item \notin Requests
    BY DEF Inv, HeldOnce, WorkerInv, Holding
  <2>2. worker = "exited" /\ stopped /\ stopper \notin {"idle", "raised"}
    BY <2>1 DEF NoWakeupLost, Patient
  <2> QED
    BY <2>1, <2>2 DEF Inv, StopInv, TypeOK
<1> QED
  BY <1>1, <1>2, PatientStep, WorkerSleepsIdle, Invariant, PTL DEF Spec
=============================================================================
