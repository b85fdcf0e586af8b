------------------------------ MODULE WatchLoop ------------------------------
(***************************************************************************)
(* The loop of flows/watch.py: the schedule, the record of each cycle and  *)
(* the notifications, which are fetched from the site, sent one by one to  *)
(* a chat, recorded when all are sent, and then marked as read.  What a    *)
(* cycle does with topics is CrawlSync's; here it ends well or badly.      *)
(***************************************************************************)
EXTENDS WatchSchedule

CONSTANTS
  Schedules,    \* the values of server.schedule tried, {} for none; config.py
                \* lets no malformed window through (354-368)
  Settings,     \* configurations tried
  MaxNotes,     \* bound: notifications that arrive
  MaxFailures   \* bound: failures, stops and crashes

ASSUME LoopAssumption ==
  /\ \A windows \in Schedules : \A w \in windows : WellFormed(w)
  /\ Settings \subseteq [storage : BOOLEAN, autoMarkRead : BOOLEAN, pageSize : Nat \ {0}]
  /\ MaxNotes \in Nat /\ MaxFailures \in Nat

VARIABLES
  schedule,  \* the windows in force
  setting,   \* whether there is a store (else sent ids are kept in memory),
             \* notify.auto_mark_read, and the notifications per request
  now,       \* minute of the day; without a schedule it does not matter
  nap,       \* minutes of falling asleep and of waking up, <<>> when awake
  arrived,   \* notifications on the site are 1..arrived, the newest last
  read,      \* those marked as read
  marking,   \* a mark-read request is on its way to the site
  pc,        \* the loop: "down", "top", "list", "send", "count",
             \* "mark", "topics", "pause"
  stop,      \* the stop event
  due,       \* notify_interval_secs have passed since last_notify_ts
  ids,       \* unread notifications of the page
  sent,      \* those of them sent before
  todo,      \* those still to be sent
  items,     \* sent_items
  cycleSent, \* cycle_notifications_sent
  memory,    \* sent_notification_ids_mem
  dedupe,    \* table notification_dedupe
  stat,      \* stats_total.notifications_sent
  open,      \* watch_cycles without an end
  counted,   \* sum of watch_cycles.notifications_sent
  failures,  \* failures so far
  harmed,    \* history: crashes and failures of the store
  delivered, \* history: times a notification was delivered
  cut        \* history: times that was not recorded, or the record was lost

config == <<schedule, setting>>
site == <<arrived, read, marking>>
poll == <<ids, sent, todo, items>>
store == <<dedupe, stat, open, counted>>
history == <<harmed, delivered, cut>>
vars == <<config, now, nap, site, pc, stop, due, poll, cycleSent, memory, store,
          failures, history>>

Notes == 1..MaxNotes

Init ==
  /\ schedule \in Schedules /\ setting \in Settings
  /\ now \in (IF schedule = {} THEN {0} ELSE Moments) /\ nap = <<>>
  /\ arrived = 0 /\ read = {} /\ marking = FALSE
  /\ pc = "top" /\ stop = FALSE /\ due = TRUE
  /\ ids = {} /\ sent = {} /\ todo = {} /\ items = {}
  /\ cycleSent = 0
  /\ memory = {}
  /\ dedupe = {} /\ stat = 0 /\ open = 0 /\ counted = 0
  /\ failures = 0
  /\ harmed = 0
  /\ delivered = [n \in Notes |-> 0]
  /\ cut = [n \in Notes |-> 0]

Failure == failures < MaxFailures /\ failures' = failures + 1

-----------------------------------------------------------------------------
(* The world *)

Arrive ==
  /\ arrived < MaxNotes
  /\ arrived' = arrived + 1
  /\ UNCHANGED <<config, now, nap, read, marking, pc, stop, due, poll, cycleSent, memory,
                 store, failures, history>>

\* The request reaches the site, which marks all notifications.
SiteMarks ==
  /\ marking
  /\ marking' = FALSE
  /\ read' = 1..arrived
  /\ UNCHANGED <<config, now, nap, arrived, pc, stop, due, poll, cycleSent, memory, store,
                 failures, history>>

\* A minute passes.  The loop looks at the schedule within the minute in which
\* it wakes up, unless the host was suspended.
Tick ==
  /\ schedule # {}
  /\ \/ /\ pc = "top" => nap # <<>> /\ now # nap[2]
        /\ UNCHANGED failures
     \/ pc = "top" /\ (nap # <<>> => now = nap[2]) /\ Failure
  /\ now' = (now + 1) % Day
  /\ UNCHANGED <<config, nap, site, pc, stop, due, poll, cycleSent, memory, store, history>>

NotifyDue ==
  /\ ~due
  /\ due' = TRUE
  /\ UNCHANGED <<config, now, nap, site, pc, stop, poll, cycleSent, memory, store,
                 failures, history>>

Stop ==
  /\ pc # "down" /\ ~stop
  /\ stop' = TRUE
  /\ Failure
  /\ UNCHANGED <<config, now, nap, site, pc, due, poll, cycleSent, memory, store, history>>

-----------------------------------------------------------------------------
(* A cycle *)

Quit ==
  /\ pc = "top" /\ nap = <<>> /\ stop
  /\ pc' = "down"
  /\ UNCHANGED <<config, now, nap, site, stop, due, poll, cycleSent, memory, store,
                 failures, history>>

Sleep ==
  /\ pc = "top" /\ nap = <<>> /\ ~stop
  /\ DelaySecs(schedule, now) > 0
  /\ nap' = <<now, (now + DelaySecs(schedule, now)) % Day>>
  /\ UNCHANGED <<config, now, site, pc, stop, due, poll, cycleSent, memory, store,
                 failures, history>>

\* The sleep ends in time or late, or with the stop event.
Wake ==
  /\ nap # <<>>
  /\ stop \/ now = nap[2]
  /\ nap' = <<>>
  /\ UNCHANGED <<config, now, site, pc, stop, due, poll, cycleSent, memory, store,
                 failures, history>>

\* Fault: the count of the last cycle is kept.
CountKept == UNCHANGED cycleSent

Reset == cycleSent' = 0

BeginWatchCycle ==
  /\ pc = "top" /\ nap = <<>> /\ ~stop
  /\ DelaySecs(schedule, now) = 0
  /\ open' = IF setting.storage THEN open + 1 ELSE open
  /\ Reset
  /\ pc' = IF due THEN "list" ELSE "topics"
  /\ UNCHANGED <<config, now, nap, site, stop, due, poll, memory, dedupe, stat, counted,
                 failures, history>>

Forgotten == ids' = {} /\ sent' = {} /\ todo' = {} /\ items' = {}

\* _poll_notifications returns, and last_notify_ts is set.
Polled(number) ==
  /\ cycleSent' = cycleSent + number
  /\ due' = FALSE
  /\ pc' = "topics"
  /\ Forgotten

Page == {n \in 1..arrived : n > arrived - setting.pageSize}

\* Fault: only the ids in memory are looked up.
KnownInMemory(unread) == unread \cap memory

Known(unread) == unread \cap (IF setting.storage THEN dedupe ELSE memory)

GetNotifications ==
  /\ pc = "list"
  /\ LET unread == Page \ read
         known == Known(unread)
     IN  IF unread = {} THEN Polled(0)
         ELSE /\ ids' = unread /\ sent' = known /\ todo' = unread \ known
              /\ items' = {}
              /\ pc' = "send"
              /\ UNCHANGED <<cycleSent, due>>
  /\ UNCHANGED <<config, now, nap, site, stop, memory, store, failures, history>>

Send(n) ==
  /\ pc = "send" /\ n \in todo
  /\ todo' = todo \ {n}
  /\ delivered' = [delivered EXCEPT ![n] = @ + 1]
  /\ items' = items \cup {n}
  /\ UNCHANGED <<config, now, nap, site, pc, stop, due, ids, sent, cycleSent, memory, store,
                 failures, harmed, cut>>

\* Fault: what could not be sent counts as sent.
SentAnyway(n) == items \cup {n}

Unsent(n) == items

\* The chat refuses the message, or its answer is lost.
SendFails(n) ==
  /\ pc = "send" /\ n \in todo
  /\ Failure
  /\ todo' = todo \ {n}
  /\ items' = Unsent(n)
  /\ \/ UNCHANGED <<delivered, cut>>
     \/ /\ delivered' = [delivered EXCEPT ![n] = @ + 1]
        /\ cut' = [cut EXCEPT ![n] = @ + 1]
  /\ UNCHANGED <<config, now, nap, site, pc, stop, due, ids, sent, cycleSent, memory, store,
                 harmed>>

Record ==
  /\ pc = "send" /\ todo = {}
  /\ memory' = IF setting.storage THEN memory ELSE memory \cup items
  /\ dedupe' = IF setting.storage THEN dedupe \cup items ELSE dedupe
  /\ pc' = "count"
  /\ UNCHANGED <<config, now, nap, site, stop, due, poll, cycleSent, stat, open, counted,
                 failures, history>>

\* Fault: one of the page that has been sent is enough.
SomeSent == ids \cap (sent \cup items) # {}

AllSent == ids \subseteq sent \cup items

\* inc_stat, and mark_notifications_read is called or not.
CountSent ==
  /\ pc = "count"
  /\ stat' = IF setting.storage THEN stat + Cardinality(items) ELSE stat
  /\ IF setting.autoMarkRead /\ AllSent
     THEN pc' = "mark" /\ marking' = TRUE /\ UNCHANGED <<cycleSent, due, poll>>
     ELSE Polled(Cardinality(items)) /\ UNCHANGED marking
  /\ UNCHANGED <<config, now, nap, arrived, read, stop, memory, dedupe, open, counted,
                 failures, history>>

MarkedRead ==
  /\ pc = "mark" /\ ~marking
  /\ Polled(Cardinality(items))
  /\ UNCHANGED <<config, now, nap, site, stop, memory, store, failures, history>>

\* The request to mark is refused, by the queue or by the site, or it fails when
\* it is on its way.
MarkFails == marking' \in {marking, FALSE}

\* A TimeoutError ends the poll and not the cycle.
PollTimesOut ==
  /\ pc \in {"list", "mark"}
  /\ Failure
  /\ MarkFails
  /\ Polled(0)
  /\ UNCHANGED <<config, now, nap, arrived, read, stop, memory, store, history>>

\* latest or unseen, which may time out, and the topics.
Topics ==
  /\ pc = "topics"
  /\ pc' = "pause"
  /\ UNCHANGED <<config, now, nap, site, stop, due, poll, cycleSent, memory, store,
                 failures, history>>

\* The finally clause.
FinishWatchCycle ==
  IF setting.storage
  THEN open' = open - 1 /\ counted' = counted + cycleSent
  ELSE UNCHANGED <<open, counted>>

\* The sleep between two cycles is over, or the stop was noticed.
EndCycle ==
  /\ pc = "pause"
  /\ FinishWatchCycle
  /\ pc' = IF stop THEN "down" ELSE "top"
  /\ UNCHANGED <<config, now, nap, site, stop, due, poll, cycleSent, memory, dedupe, stat,
                 failures, history>>

\* Deliveries that nothing will remember.
Lose(notes) == cut' = [n \in Notes |-> cut[n] + IF n \in notes THEN 1 ELSE 0]

\* A request of the cycle fails.
RequestFails ==
  /\ pc \in {"list", "mark", "topics"}
  /\ Failure
  /\ MarkFails
  /\ FinishWatchCycle
  /\ pc' = "down"
  /\ Forgotten
  /\ UNCHANGED <<config, now, nap, arrived, read, stop, due, cycleSent, memory, dedupe, stat, history>>

\* The store refuses the call the loop makes next.
StoreFails ==
  /\ setting.storage
  /\ Failure
  /\ harmed' = harmed + 1
  /\ \/ /\ pc = "top" /\ nap = <<>> /\ ~stop /\ DelaySecs(schedule, now) = 0
        /\ UNCHANGED <<open, counted, cut>>
     \/ /\ \/ pc = "list" /\ Page \ read # {}
           \/ pc = "send" /\ todo = {} /\ items # {}
           \/ pc = "count" /\ items # {}
        /\ FinishWatchCycle \/ UNCHANGED <<open, counted>>
        /\ Lose(IF pc = "send" THEN items ELSE {})
     \/ pc = "pause" /\ UNCHANGED <<open, counted, cut>>
  /\ pc' = "down"
  /\ Forgotten
  /\ UNCHANGED <<config, now, nap, site, stop, due, cycleSent, memory, dedupe, stat, delivered>>

Crash ==
  /\ pc # "down"
  /\ Failure
  /\ harmed' = harmed + 1
  /\ pc' = "down" /\ nap' = <<>>
  /\ Lose(memory \cup IF pc = "send" THEN items ELSE {})
  /\ memory' = {}
  /\ Forgotten
  /\ UNCHANGED <<config, now, site, stop, due, cycleSent, store, delivered>>

\* The controller runs watch() again, with the set of sent ids that it keeps
\* from one call to the next.
Start ==
  /\ pc = "down"
  /\ pc' = "top"
  /\ stop' = FALSE
  /\ due' = TRUE
  /\ UNCHANGED <<config, now, nap, site, poll, cycleSent, memory, store, failures, history>>

\* The process has ended, and an operator starts another: watch() begins with no
\* sent ids but those in the store.
StartProcess ==
  /\ pc = "down"
  /\ pc' = "top"
  /\ stop' = FALSE
  /\ due' = TRUE
  /\ memory' = {}
  /\ Lose(memory)
  /\ UNCHANGED <<config, now, nap, site, poll, cycleSent, store, failures, harmed, delivered>>

-----------------------------------------------------------------------------

LoopStep ==
  \/ Quit \/ Sleep \/ Wake \/ BeginWatchCycle \/ GetNotifications
  \/ \E n \in Notes : Send(n)
  \/ Record \/ CountSent \/ MarkedRead \/ Topics \/ EndCycle
  \/ Start \/ StartProcess

Next ==
  \/ LoopStep
  \/ Arrive \/ SiteMarks \/ Tick \/ NotifyDue \/ Stop
  \/ \E n \in Notes : SendFails(n)
  \/ PollTimesOut \/ RequestFails \/ StoreFails \/ Crash

Spec == Init /\ [][Next]_vars

\* The loop goes on, requests are answered and time passes.
FairSpec ==
  Spec /\ WF_vars(LoopStep) /\ WF_vars(SiteMarks) /\ WF_vars(Tick) /\ WF_vars(NotifyDue)

-----------------------------------------------------------------------------
(* Properties *)

TypeOK ==
  /\ now \in Moments
  /\ read \subseteq 1..arrived /\ arrived \in 0..MaxNotes
  /\ pc \in {"down", "top", "list", "send", "count", "mark", "topics", "pause"}
  /\ sent \cup todo \cup items \subseteq ids /\ ids \subseteq Notes
  /\ dedupe \cup memory \subseteq Notes
  /\ {stat, open, counted, cycleSent} \subseteq Nat
  /\ {due, stop, marking} \subseteq BOOLEAN
  /\ failures \in 0..MaxFailures

\* A notification is delivered again only when a delivery went unrecorded or its
\* record was lost: a crash or a store that failed between the sending and the
\* recording, an answer of the chat that was lost (407-425), and, without a
\* store, the end of the process, whose memory is the only record (55).  With a
\* store no number of cycles, failed requests, stops and new processes sends a
\* recorded one again.
DeliveredOncePerCut == \A n \in Notes : delivered[n] <= cut[n] + 1

\* The request to mark all notifications as read goes out only when every one
\* of the page has reached the chat: what is read unseen arrived after the page
\* was fetched or was beyond it (428-433).
MarkedWereDelivered == pc = "mark" => \A n \in ids : delivered[n] > 0

\* Every cycle that began has an end in watch_cycles but for the current one,
\* one per crash or failure of the store; the cycles count no notification that
\* the statistics do not, nor these one that is not recorded, and without a
\* failure all agree (184-195, 419-421).
CyclesAddUp ==
  /\ open - (IF pc \in {"down", "top"} THEN 0 ELSE 1) <= harmed
  /\ counted <= stat /\ stat <= Cardinality(dedupe)
  /\ setting.storage /\ failures = 0 /\ pc = "top" =>
       counted = stat /\ stat = Cardinality(dedupe)

\* The loop falls asleep outside the windows only, and until the first minute
\* inside one, which is also what the status reports meanwhile (467-495;
\* http_server.py:468-503).
WakesAtNextWindow ==
  nap # <<>> =>
    /\ ~Allowed(schedule, nap[1])
    /\ nap[2] = (nap[1] + FirstAllowed(schedule, nap[1])) % Day
    /\ LET next == NextRunLocal(schedule, nap[1])
       IN  next[1] * MinutesPerHour + next[2] = nap[2]

\* A notification reaches the chat in the end, unless it is marked as read
\* first or newer ones push it off the page (405-425).
NotesDelivered ==
  \A n \in Notes :
    arrived >= n ~> delivered[n] > 0 \/ n \in read \/ arrived >= n + setting.pageSize
==============================================================================
