---------------------------- MODULE RequestQueue ----------------------------
(***************************************************************************)
(* core/request_queue.py with its callers in discourse/queued_client.py:   *)
(* threads hand requests to one worker thread through two heaps guarded by *)
(* the condition variable _cv.  A rate-limited request is put back with a  *)
(* due time and its key cools down until then.                             *)
(*                                                                         *)
(* A section of the code under _cv is one step, and so is every run of     *)
(* instructions between two points where another thread can interfere.     *)
(* The clock readings of one locked section are taken as one.  A heap is a *)
(* set: what is popped is the least element by <<priority, seq>>.          *)
(***************************************************************************)
EXTENDS Integers, FiniteSets

CONSTANTS
  Requests,    \* one call of QueuedDiscourseClient._call each
  Keys,        \* rate-limit keys: the client's method names
  NoRequest,
  KeyOf,       \* the key of each request
  PriorityOf,  \* its priority, smaller first
  Timed,       \* the requests whose caller waits with a timeout
  MaxSize,     \* queue.maxsize, 0 for no limit
  Waits,       \* the waits a rate limit can ask for (positive)
  MaxTime      \* bound: the clock stops here

ASSUME QueueAssumption ==
  /\ NoRequest \notin Requests
  /\ IsFiniteSet(Requests)
  /\ KeyOf \in [Requests -> Keys]
  /\ PriorityOf \in [Requests -> Nat]
  /\ Timed \subseteq Requests
  /\ MaxSize \in Nat
  /\ Waits \subseteq Nat \ {0}
  /\ MaxTime \in Nat

VARIABLES
  ready,     \* _ready
  delayed,   \* _delayed
  due,       \* available_at of the delayed requests, 0 for the others
  cooldown,  \* _cooldowns
  running,   \* _running
  stopped,   \* the event _stop
  counter,   \* _counter, the last ticket given out
  seq,       \* the ticket of each request, 0 before it has one
  worker,    \* where the worker thread is
  item,      \* the request in the worker's hands
  retryAt,   \* available_at computed for the rate-limited item, else 0
  fut,       \* the future of each request
  caller,    \* where the calling thread of each request is
  stopper,   \* where the thread that calls stop() is
  now        \* time.monotonic()

queue == <<ready, delayed, due, cooldown, running, stopped>>
vars == <<queue, counter, seq, worker, item, retryAt, fut, caller, stopper, now>>

WorkerAt == {"next", "blocked", "polling", "picked", "admitted", "running",
             "succeeded", "raised", "failing", "limited", "requeueing", "finishing",
             "dying", "exited", "dead"}
Answers == {"result", "error", "full", "stopped", "cancelled"}
FutureStates == {"none", "pending"} \cup Answers
CallerAt == {"new", "ticketed", "waiting", "cancelling", "answered", "timedout"}

Init ==
  /\ ready = {} /\ delayed = {}
  /\ due = [r \in Requests |-> 0]
  /\ cooldown = [k \in Keys |-> 0]
  /\ running = 0
  /\ stopped = FALSE
  /\ counter = 0
  /\ seq = [r \in Requests |-> 0]
  /\ worker = "next"
  /\ item = NoRequest
  /\ retryAt = 0
  /\ fut = [r \in Requests |-> "none"]
  /\ caller = [r \in Requests |-> "new"]
  /\ stopper = "idle"
  /\ now = 0

-----------------------------------------------------------------------------
(* Helpers                                                                  *)

\* not fut.cancelled() and not fut.done()
Live(S) == {r \in S : fut[r] = "pending"}

Later(t, u) == IF t > u THEN t ELSE u

\* The order of the ready heap.
Beats(r, q) ==
  \/ PriorityOf[r] < PriorityOf[q]
  \/ PriorityOf[r] = PriorityOf[q] /\ seq[r] < seq[q]

\* Fault: an answer replaces an earlier one.
ResolvedTwice(r, a) == [fut EXCEPT ![r] = a]

\* An answer is set on a pending future; one that is done keeps its answer.
Resolved(r, a) == IF fut[r] = "pending" THEN [fut EXCEPT ![r] = a] ELSE fut

\* Fault: the notify is lost.
NotWoken == worker

\* notify() and notify_all(): the worker is the only thread that waits.
Woken == IF worker \in {"blocked", "polling"} THEN "next" ELSE worker

\* Fault: a request is promoted one tick late.
PromotedLate == {r \in Live(delayed) : due[r] < now}

\* Delayed requests that _promote_delayed_locked moves to the ready heap.
Promoted == {r \in Live(delayed) : due[r] <= now}
Available == Live(ready) \cup Promoted

\* Fault: the pop does not look at the cooldowns.
CoolingIgnored(S) == {}

Cooling(S) == {r \in S : cooldown[KeyOf[r]] > now}

\* The due times of a new delayed heap, in which those in S come due at t[r].
DueTimes(S, t) ==
  due' = [r \in Requests |-> IF r \in S THEN t[r]
                             ELSE IF r \in delayed' THEN due[r] ELSE 0]

-----------------------------------------------------------------------------
(* Callers                                                                  *)

\* _call and submit up to the counter: the future exists and has its ticket.
TakeTicket(r) ==
  /\ caller[r] = "new"
  /\ counter' = counter + 1
  /\ seq' = [seq EXCEPT ![r] = counter + 1]
  /\ fut' = [fut EXCEPT ![r] = "pending"]
  /\ caller' = [caller EXCEPT ![r] = "ticketed"]
  /\ UNCHANGED <<queue, worker, item, retryAt, stopper, now>>

\* The capacity test, which a request on a cooling key does not take.
Full(r) ==
  /\ MaxSize > 0
  /\ cooldown[KeyOf[r]] <= now
  /\ Cardinality(Live(ready)) + running >= MaxSize

\* submit under _cv: r goes to the heap its due time calls for.
Place(r, at) ==
  LET late == {q \in {r} : at > now}
  IN  /\ ready' = Live(ready) \cup ({r} \ late)
      /\ delayed' = Live(delayed) \cup late
      /\ DueTimes(late, [q \in late |-> at])

Refuse(r, a) ==
  /\ fut' = Resolved(r, a)
  /\ ready' = Live(ready)
  /\ delayed' = Live(delayed)
  /\ DueTimes({}, due)

Submit(r) ==
  /\ caller[r] = "ticketed"
  /\ \/ /\ Full(r)
        /\ Refuse(r, "full")
        /\ UNCHANGED worker
     \/ /\ ~Full(r) /\ stopped
        /\ Refuse(r, "stopped")
        /\ UNCHANGED worker
     \/ /\ ~Full(r) /\ ~stopped
        /\ Place(r, cooldown[KeyOf[r]])
        /\ worker' = Woken
        /\ UNCHANGED fut
  /\ caller' = [caller EXCEPT ![r] = "waiting"]
  /\ UNCHANGED <<cooldown, running, stopped, counter, seq, item, retryAt,
                 stopper, now>>

\* fut.result(timeout) returns or raises what the future holds.
Collect(r) ==
  /\ caller[r] = "waiting"
  /\ fut[r] # "pending"
  /\ caller' = [caller EXCEPT ![r] = "answered"]
  /\ UNCHANGED <<queue, counter, seq, worker, item, retryAt, fut, stopper, now>>

\* fut.result(timeout) gives up on a pending future.
TimeOut(r) ==
  /\ r \in Timed
  /\ caller[r] = "waiting"
  /\ fut[r] = "pending"
  /\ caller' = [caller EXCEPT ![r] = "cancelling"]
  /\ UNCHANGED <<queue, counter, seq, worker, item, retryAt, fut, stopper, now>>

\* fut.cancel(), without _cv: it succeeds unless the future is done, since
\* the worker never calls set_running_or_notify_cancel.
Cancel(r) ==
  /\ caller[r] = "cancelling"
  /\ fut' = Resolved(r, "cancelled")
  /\ caller' = [caller EXCEPT ![r] = "timedout"]
  /\ UNCHANGED <<queue, counter, seq, worker, item, retryAt, stopper, now>>

-----------------------------------------------------------------------------
(* The worker: _next_item                                                   *)

ExitOnStop ==
  /\ worker = "next"
  /\ stopped
  /\ worker' = "exited"
  /\ UNCHANGED <<queue, counter, seq, item, retryAt, fut, caller, stopper, now>>

\* Pops until a request whose key is not cooling; those popped before it go
\* back to the delayed heap, due when their key has cooled down.
ShuntedBefore(r) == {q \in Cooling(Available) : Beats(q, r)}

\* Fault: what is popped on a cooling key is not put back.
ShuntLost(S) ==
  /\ delayed' = Live(delayed) \ Promoted
  /\ DueTimes({}, due)

Shunt(S) ==
  /\ delayed' = (Live(delayed) \ Promoted) \cup S
  /\ DueTimes(S, [q \in S |-> cooldown[KeyOf[q]]])

Pick(r) ==
  /\ worker = "next"
  /\ ~stopped
  /\ r \in Available \ Cooling(Available)
  /\ \A q \in Available \ Cooling(Available) : q = r \/ Beats(r, q)
  /\ ready' = Available \ ({r} \cup ShuntedBefore(r))
  /\ Shunt(ShuntedBefore(r))
  /\ item' = r
  /\ worker' = "picked"
  /\ UNCHANGED <<cooldown, running, stopped, counter, seq, retryAt, fut,
                 caller, stopper, now>>

\* Nothing to pop: _cv.wait, without a timeout when nothing is delayed.
Wait ==
  /\ worker = "next"
  /\ ~stopped
  /\ Available \ Cooling(Available) = {}
  /\ ready' = {}
  /\ Shunt(Available)
  /\ worker' = IF delayed' = {} THEN "blocked" ELSE "polling"
  /\ UNCHANGED <<cooldown, running, stopped, counter, seq, item, retryAt, fut,
                 caller, stopper, now>>

\* The wait for a delayed request ends by itself after at most
\* _POLL_TIMEOUT_SECS; the wait with nothing delayed needs a notify.
PollTimeout ==
  /\ worker = "polling"
  /\ worker' = "next"
  /\ UNCHANGED <<queue, counter, seq, item, retryAt, fut, caller, stopper, now>>

-----------------------------------------------------------------------------
(* The worker: _run                                                         *)

\* The tests of the future and of the stop event, without _cv.  A cancel between
\* the test and set_exception of a stopped worker ends the thread too: the same
\* outcome as a cancel just before.
Begin ==
  /\ worker = "picked"
  /\ \/ /\ fut[item] # "pending"
        /\ worker' = "next"
        /\ item' = NoRequest
        /\ UNCHANGED fut
     \/ /\ fut[item] = "pending" /\ stopped
        /\ fut' = Resolved(item, "stopped")
        /\ worker' = "exited"
        /\ item' = NoRequest
     \/ /\ fut[item] = "pending" /\ ~stopped
        /\ worker' = "admitted"
        /\ UNCHANGED <<fut, item>>
  /\ UNCHANGED <<queue, counter, seq, retryAt, caller, stopper, now>>

\* The section that counts the worker, and the call of fn(): a request that has
\* passed the tests is sent, even if it is cancelled or the queue is stopped by
\* then.  A cancel or a stop between the section and the call changes neither
\* and finds neither changed, so it is the same as one just before the section.
Enter ==
  /\ worker = "admitted"
  /\ running' = running + 1
  /\ worker' = "running"
  /\ UNCHANGED <<ready, delayed, due, cooldown, stopped, counter, seq, item,
                 retryAt, fut, caller, stopper, now>>

\* fn() returns, raises an exception (or a rate limit without a wait, which is
\* treated alike), or raises a rate limit that asks for a wait.
Return ==
  /\ worker = "running"
  /\ worker' \in {"succeeded", "raised"}
  /\ UNCHANGED <<queue, counter, seq, item, retryAt, fut, caller, stopper, now>>

ReturnLimited(w) ==
  /\ worker = "running"
  /\ now + w <= MaxTime
  /\ retryAt' = now + w
  /\ worker' = "limited"
  /\ UNCHANGED <<queue, counter, seq, item, fut, caller, stopper, now>>

\* The result is set unless the future is done.  A cancel between the test and
\* set_result raises InvalidStateError inside the try, whose handler finds the
\* future cancelled: the same outcome.
DeliverResult ==
  /\ worker = "succeeded"
  /\ fut' = Resolved(item, "result")
  /\ worker' = "finishing"
  /\ item' = NoRequest
  /\ UNCHANGED <<queue, counter, seq, retryAt, caller, stopper, now>>

\* In the exception handlers the test and set_exception are two steps.
CheckBeforeError ==
  /\ worker = "raised"
  /\ IF fut[item] = "pending"
     THEN worker' = "failing" /\ UNCHANGED item
     ELSE worker' = "finishing" /\ item' = NoRequest
  /\ UNCHANGED <<queue, counter, seq, retryAt, fut, caller, stopper, now>>

\* set_exception on a future cancelled in between raises InvalidStateError out
\* of the handler: the finally clause still runs, then the thread ends.
DeliverError ==
  /\ worker = "failing"
  /\ fut' = Resolved(item, "error")
  /\ worker' = IF fut[item] = "pending" THEN "finishing" ELSE "dying"
  /\ item' = NoRequest
  /\ UNCHANGED <<queue, counter, seq, retryAt, caller, stopper, now>>

\* The cooldown is recorded without _cv, also for a cancelled request.
RecordCooldown ==
  /\ worker = "limited"
  /\ cooldown' = [cooldown EXCEPT ![KeyOf[item]] = Later(@, retryAt)]
  /\ IF fut[item] = "pending"
     THEN worker' = "requeueing" /\ UNCHANGED item
     ELSE worker' = "finishing" /\ item' = NoRequest
  /\ retryAt' = IF fut[item] = "pending" THEN retryAt ELSE 0
  /\ UNCHANGED <<ready, delayed, due, running, stopped, counter, seq,
                 fut, caller, stopper, now>>

\* Fault: a retry is pushed although the queue is stopped.
RequeueUnchecked ==
  /\ worker = "requeueing"
  /\ Place(item, Later(retryAt, cooldown[KeyOf[item]]))
  /\ worker' = "finishing"
  /\ item' = NoRequest
  /\ retryAt' = 0
  /\ UNCHANGED <<cooldown, running, stopped, counter, seq, fut, caller, stopper,
                 now>>

\* Fault: a retry is subject to the size limit like a new request.
RequeueIfRoom ==
  /\ worker = "requeueing"
  /\ \/ /\ MaxSize > 0 /\ Cardinality(Live(ready)) + running >= MaxSize
        /\ Refuse(item, "full")
     \/ /\ MaxSize > 0 => Cardinality(Live(ready)) + running < MaxSize
        /\ Place(item, Later(retryAt, cooldown[KeyOf[item]]))
        /\ UNCHANGED fut
  /\ worker' = "finishing"
  /\ item' = NoRequest
  /\ retryAt' = 0
  /\ UNCHANGED <<cooldown, running, stopped, counter, seq, caller, stopper, now>>

\* submit with the old future and ticket: it is not subject to MaxSize.  To
\* refuse a future cancelled meanwhile raises InvalidStateError.
Requeue ==
  /\ worker = "requeueing"
  /\ IF stopped
     THEN Refuse(item, "stopped")
     ELSE /\ Place(item, Later(retryAt, cooldown[KeyOf[item]]))
          /\ UNCHANGED fut
  /\ worker' = IF stopped /\ fut[item] # "pending" THEN "dying" ELSE "finishing"
  /\ item' = NoRequest
  /\ retryAt' = 0
  /\ UNCHANGED <<cooldown, running, stopped, counter, seq, caller, stopper, now>>

\* Fault: the finally clause forgets _running.
FinishUncounted ==
  /\ worker \in {"finishing", "dying"}
  /\ worker' = IF worker = "finishing" THEN "next" ELSE "dead"
  /\ UNCHANGED <<queue, counter, seq, item, retryAt, fut, caller, stopper, now>>

\* The finally clause.
Finish ==
  /\ worker \in {"finishing", "dying"}
  /\ running' = IF running > 0 THEN running - 1 ELSE running
  /\ worker' = IF worker = "finishing" THEN "next" ELSE "dead"
  /\ UNCHANGED <<ready, delayed, due, cooldown, stopped, counter, seq, item,
                 retryAt, fut, caller, stopper, now>>

-----------------------------------------------------------------------------
(* stop()                                                                   *)

SignalStop ==
  /\ stopper = "idle"
  /\ stopped' = TRUE
  /\ stopper' = "signalled"
  /\ UNCHANGED <<ready, delayed, due, cooldown, running, counter, seq, worker,
                 item, retryAt, fut, caller, now>>

\* Fault: stop() does not notify.
DrainSilently ==
  /\ stopper = "signalled"
  /\ fut' = [r \in Requests |-> IF r \in Live(ready \cup delayed)
                                THEN "stopped" ELSE fut[r]]
  /\ ready' = {} /\ delayed' = {}
  /\ DueTimes({}, due)
  /\ stopper' = "drained"
  /\ UNCHANGED <<cooldown, running, stopped, counter, seq, worker, item,
                 retryAt, caller, now>>

\* Every queued future is refused and the heaps are emptied, under _cv.
Drain ==
  /\ stopper = "signalled"
  /\ fut' = [r \in Requests |-> IF r \in Live(ready \cup delayed)
                                THEN "stopped" ELSE fut[r]]
  /\ ready' = {} /\ delayed' = {}
  /\ DueTimes({}, due)
  /\ worker' = Woken
  /\ stopper' = "drained"
  /\ UNCHANGED <<cooldown, running, stopped, counter, seq, item, retryAt,
                 caller, now>>

\* A cancel between the test and set_exception of one queued future makes
\* stop() raise: the futures refused before it are done, the heaps stay.
DrainInterrupted(r, S) ==
  /\ stopper = "signalled"
  /\ r \in Live(ready \cup delayed)
  /\ S \subseteq Live(ready \cup delayed) \ {r}
  /\ caller[r] = "cancelling"
  /\ fut' = [q \in Requests |-> IF q \in S THEN "stopped"
                                ELSE IF q = r THEN "cancelled" ELSE fut[q]]
  /\ caller' = [caller EXCEPT ![r] = "timedout"]
  /\ stopper' = "raised"
  /\ UNCHANGED <<queue, counter, seq, worker, item, retryAt, now>>

-----------------------------------------------------------------------------

Tick ==
  /\ now < MaxTime
  /\ now' = now + 1
  /\ UNCHANGED <<queue, counter, seq, worker, item, retryAt, fut, caller, stopper>>

WorkerStep ==
  \/ ExitOnStop
  \/ \E r \in Requests : Pick(r)
  \/ Wait
  \/ PollTimeout
  \/ Begin
  \/ Enter
  \/ Return
  \/ \E w \in Waits : ReturnLimited(w)
  \/ DeliverResult
  \/ CheckBeforeError
  \/ DeliverError
  \/ RecordCooldown
  \/ Requeue
  \/ Finish

CallerStep(r) ==
  TakeTicket(r) \/ Submit(r) \/ Collect(r) \/ TimeOut(r) \/ Cancel(r)

StopStep ==
  \/ SignalStop
  \/ Drain
  \/ \E r \in Requests, S \in SUBSET Requests : DrainInterrupted(r, S)

Next ==
  \/ WorkerStep
  \/ \E r \in Requests : CallerStep(r)
  \/ StopStep
  \/ Tick

Spec == Init /\ [][Next]_vars

\* Threads that can take a step eventually take one and time passes.  Nobody
\* is obliged to make a call, to give up waiting, or to stop the queue.
Fairness ==
  /\ WF_vars(WorkerStep)
  /\ WF_vars(Tick)
  /\ \A r \in Requests : WF_vars(Submit(r) \/ Collect(r) \/ Cancel(r))
  /\ WF_vars(Drain)

FairSpec == Spec /\ Fairness

-----------------------------------------------------------------------------
(* Properties                                                               *)

\* Type invariant; _running never counts more than the one worker.
TypeOK ==
  /\ ready \subseteq Requests /\ delayed \subseteq Requests
  /\ due \in [Requests -> Nat]
  /\ cooldown \in [Keys -> Nat]
  /\ running \in 0..1
  /\ stopped \in BOOLEAN
  /\ counter \in Nat
  /\ seq \in [Requests -> Nat]
  /\ worker \in WorkerAt
  /\ item \in Requests \cup {NoRequest}
  /\ retryAt \in Nat
  /\ fut \in [Requests -> FutureStates]
  /\ caller \in [Requests -> CallerAt]
  /\ stopper \in {"idle", "signalled", "drained", "raised"}
  /\ now \in 0..MaxTime

\* The worker holds a request from the pop until it has dealt with its future.
Holding == {"picked", "admitted", "running", "succeeded", "raised", "failing",
            "limited", "requeueing"}

\* No request is lost or doubled: as long as its future is pending, a submitted
\* request is in exactly one of the two heaps and the worker's hands, through
\* pops, shunts, promotions, rate-limit retries, failures and stop().
HeldOnce ==
  /\ ready \cap delayed = {}
  /\ item \notin ready \cup delayed
  /\ \A r \in Requests :
       fut[r] = "pending" /\ caller[r] # "ticketed" => r \in ready \cup delayed \cup {item}

\* A request is sent only when no cooldown of its key is in force, although
\* the worker records cooldowns without the lock and requests of the same key
\* may already have been ready by then.
CooldownRespected ==
  worker \in {"picked", "admitted", "running"} => cooldown[KeyOf[item]] <= now

\* Once stop() has emptied the heaps, nothing enters them again, so that only
\* the request in the worker's hands can still be waited for: no caller hangs
\* on a stopped queue, whenever its submit or retry ran.
NothingLeftBehind ==
  stopper = "drained" =>
    \A r \in Requests :
      fut[r] = "pending" /\ caller[r] # "ticketed" => r = item

\* A request that could be sent now.
Startable(r) ==
  /\ r \in Live(ready \cup delayed)
  /\ r \in delayed => due[r] <= now
  /\ cooldown[KeyOf[r]] <= now

\* The worker never takes a request while a better one (lower priority number,
\* or same priority and earlier ticket) could be sent, be it in the ready heap
\* or in the delayed heap with its time come.
PriorityRespected ==
  [][worker = "next" /\ worker' = "picked" =>
       \A r \in Requests : Startable(r) => r = item' \/ Beats(item', r)]_vars

\* The size limit rejects a request at submit or never: a request that was
\* accepted is not rejected later, when a rate limit sends it back to a queue
\* that has filled up meanwhile.
AcceptedNeverRejected ==
  [][\A r \in Requests :
       caller[r] = "waiting" /\ fut[r] = "pending" => fut'[r] # "full"]_vars

Asked == {r \in Requests : fut[r] # "none"}
Claimed == IF worker \in Holding \ {"picked"} THEN item ELSE NoRequest
Serving == IF worker \in Holding \ {"picked", "admitted"} THEN item ELSE NoRequest
AnswerFor(f) == IF f \in {"none", "pending"} THEN "none"
                ELSE IF f \in {"full", "stopped"} THEN "refused" ELSE f
Answered == [r \in Requests |-> AnswerFor(fut[r])]

Service == INSTANCE SerialService
             WITH asked <- Asked, claimed <- Claimed, serving <- Serving,
                  answer <- Answered

\* The queue implements the serial service: requests are executed one at a
\* time, none is taken on after it was answered, what the worker has taken on is
\* answered by it or abandoned by its own caller (never refused by stop() or for
\* lack of room), and no answer is ever replaced.  It does not say that fn() never
\* starts for a cancelled request: request_queue.py:85 tests the future before
\* the worker waits for _cv, and a caller may give up in between.
ImplementsService == Service!Spec

\* README.md:65 says that queue.maxsize limits the ready and running requests.
\* The code does not satisfy it (README, Disagreements), and no run lists it.
MaxSizeLimitsReadyAndRunning ==
  MaxSize > 0 => Cardinality(Live(ready)) + running <= MaxSize

\* Every call that does not give up gets its answer: no wakeup of the worker is
\* lost, and a cooling key delays its requests only until its time has come.
CallsAnswered ==
  \A r \in Requests \ Timed : caller[r] = "waiting" ~> caller[r] = "answered"

\* The worker thread ends after stop(), wherever the stop finds it.
StopEndsWorker == stopped ~> worker \in {"exited", "dead"}

=============================================================================
