------------------------------- MODULE CrawlSync -------------------------------
(***************************************************************************)
(* flows/watch.py: the cycles of the watch loop and _touch_topic, with the *)
(* tables posts and topic_crawl_state of storage/sqlite_store.py.  A cycle *)
(* goes through the topics the server lists and backfills what the store   *)
(* lacks, within a budget; the progress of a topic is the highest post     *)
(* number of the last visit that went through.  The store commits at every *)
(* call, so a crash, a stop or a refused request keeps what was written.   *)
(*                                                                         *)
(* A post is its number, which orders the stream of its topic.  Crawling   *)
(* is enabled; notifications, timings and plugin hooks are left out, but   *)
(* for what ends a visit.                                                  *)
(***************************************************************************)
EXTENDS Integers, FiniteSets

CONSTANTS
  Topics,
  NoTopic,
  NoBudget,
  PageSize,   \* posts in the answer of get_topic (20 on a Discourse server)
  BatchSize,  \* posts asked for at once (20 in the code)
  Budget,     \* max_posts_per_interval, or NoBudget
  MaxPosts    \* bound: posts ever written in one topic

ASSUME CrawlAssumption ==
  /\ NoTopic \notin Topics
  /\ PageSize \in Nat \ {0}
  /\ BatchSize \in Nat \ {0}
  /\ NoBudget \notin Int
  /\ Budget \in Nat \cup {NoBudget}
  /\ MaxPosts \in Nat

VARIABLES
  stream,       \* server: the posts of each topic
  highest,      \* server: highest_post_number of each topic
  stored,       \* store: the posts of each topic
  synced,       \* store: last_synced_post_number of each topic
  stop,         \* the stop event of the watch thread
  pc,           \* where the watch thread is
  todo,         \* topics of the cycle not visited yet
  topic,        \* the topic being visited, or NoTopic
  seenStream,   \* the stream in the answer of get_topic
  seenHighest,  \* the highest_post_number in it
  missing,      \* posts of the visit still to be fetched
  remaining,    \* the budget, as watch() knows it
  left,         \* the budget, as _touch_topic knows it
  spent,        \* history: posts asked for by number in this cycle
  refused,     \* history: topics of this cycle given up for a refused batch
  cut           \* history: topics of which the budget cut the missing posts

server == <<stream, highest>>
store == <<stored, synced>>
visit == <<topic, seenStream, seenHighest, missing, left>>
vars == <<server, store, visit, stop, pc, todo, remaining, spent, refused, cut>>

Posts == 1..MaxPosts

Init ==
  /\ stream \in [Topics -> {{}, {1} \cap Posts}]
  /\ highest = [t \in Topics |-> IF stream[t] = {} THEN 0 ELSE 1]
  /\ stored = [t \in Topics |-> {}]
  /\ synced = [t \in Topics |-> 0]
  /\ stop = FALSE
  /\ pc = "idle"
  /\ todo = {}
  /\ topic = NoTopic
  /\ seenStream = {} /\ seenHighest = 0 /\ missing = {}
  /\ remaining = Budget /\ left = Budget
  /\ spent = 0 /\ refused = {}
  /\ cut = {}

\* The first n posts of a list.
FirstOf(S, n) == {p \in S : Cardinality({q \in S : q <= p}) <= n}

Exhausted(b) == b # NoBudget /\ b <= 0

-----------------------------------------------------------------------------
(* The server: replies are added, posts other than the last one deleted     *)

Reply(t) ==
  /\ highest[t] < MaxPosts
  /\ highest' = [highest EXCEPT ![t] = @ + 1]
  /\ stream' = [stream EXCEPT ![t] = @ \cup {highest[t] + 1}]
  /\ UNCHANGED <<store, visit, stop, pc, todo, remaining, spent, refused, cut>>

Delete(t, p) ==
  /\ p \in stream[t] /\ p # highest[t]
  /\ stream' = [stream EXCEPT ![t] = @ \ {p}]
  /\ UNCHANGED <<highest, store, visit, stop, pc, todo, remaining, spent, refused,
                 cut>>

-----------------------------------------------------------------------------
(* The cycle                                                                *)

\* The thread notices its stop event at the top of the loop and ends; a stop
\* that comes later lets the first visit begin.  A TimeoutError of get_latest
\* or get_unseen only delays the cycle and is no step here.
BeginCycle(listed) ==
  /\ pc = "idle"
  /\ ~stop
  /\ todo' = listed
  /\ remaining' = Budget
  /\ spent' = 0 /\ refused' = {}
  /\ pc' = "topics"
  /\ UNCHANGED <<server, store, visit, stop, cut>>

\* A topic skipped by a plugin, or whose get_topic a full queue refuses.
SkipTopic(t) ==
  /\ pc = "topics"
  /\ t \in todo
  /\ todo' = todo \ {t}
  /\ UNCHANGED <<server, store, visit, stop, pc, remaining, spent, refused, cut>>

EndCycle ==
  /\ pc = "topics"
  /\ todo = {}
  /\ pc' = "idle"
  /\ UNCHANGED <<server, store, visit, stop, todo, remaining, spent, refused, cut>>

-----------------------------------------------------------------------------
(* A visit: _touch_topic                                                    *)

\* The variables of _touch_topic are gone.
NoVisit ==
  /\ topic' = NoTopic
  /\ seenStream' = {} /\ seenHighest' = 0 /\ missing' = {}
  /\ left' = Budget

\* The result of a visit: the loop goes on unless it is told to stop or the
\* budget is used up.
LeaveTopic(b) ==
  /\ NoVisit
  /\ remaining' = b
  /\ pc' = IF stop \/ Exhausted(b) THEN "idle" ELSE "topics"
  /\ todo' = IF stop \/ Exhausted(b) THEN {} ELSE todo

\* get_topic, and its posts stored, whatever the budget.
EnterTopic(t) ==
  /\ pc = "topics"
  /\ t \in todo
  /\ todo' = todo \ {t}
  /\ topic' = t
  /\ seenStream' = stream[t] /\ seenHighest' = highest[t]
  /\ stored' = [stored EXCEPT ![t] = @ \cup FirstOf(stream[t], PageSize)]
  /\ left' = remaining
  /\ pc' = "entered"
  /\ UNCHANGED <<server, synced, stop, missing, remaining, spent, refused, cut>>

\* A full request queue refuses the timings of the visit, which is a
\* TimeoutError: watch() goes to the next topic.
TimingsRefused ==
  /\ pc = "entered"
  /\ NoVisit
  /\ pc' = "topics"
  /\ UNCHANGED <<server, store, stop, todo, remaining, spent, refused, cut>>

\* A stop noticed after get_topic or after the timings.
StopVisit ==
  /\ pc = "entered"
  /\ stop
  /\ LeaveTopic(left)
  /\ UNCHANGED <<server, store, stop, spent, refused, cut>>

\* Fault: the last post is taken for old.
NothingNewButLast == seenHighest > 0 /\ seenHighest <= synced[topic] + 1

NothingNew == seenHighest > 0 /\ seenHighest <= synced[topic]

\* Nothing newer than the progress, or nothing to look at.
UpToDate ==
  /\ pc = "entered"
  /\ NothingNew \/ seenStream = {}
  /\ LeaveTopic(left)
  /\ UNCHANGED <<server, store, stop, spent, refused, cut>>

Lacking == seenStream \ stored[topic]

\* Fault: the missing posts are not cut to the budget.
AffordableAll == Lacking

Affordable == IF left = NoBudget THEN Lacking ELSE FirstOf(Lacking, left)

\* What the store lacks, cut to the budget.
Plan ==
  /\ pc = "entered"
  /\ ~NothingNew
  /\ seenStream # {}
  /\ \/ /\ Lacking = {}
        /\ synced' = [synced EXCEPT ![topic] = seenHighest]
        /\ LeaveTopic(left)
        /\ UNCHANGED cut
     \/ /\ Lacking # {} /\ Affordable = {}
        /\ LeaveTopic(left)
        /\ UNCHANGED <<synced, cut>>
     \/ /\ Affordable # {}
        /\ missing' = Affordable
        /\ cut' = IF Affordable = Lacking THEN cut ELSE cut \cup {topic}
        /\ pc' = "fetching"
        /\ UNCHANGED <<synced, topic, seenStream, seenHighest, left, todo, remaining>>
  /\ UNCHANGED <<server, stored, stop, spent, refused>>

Batch == FirstOf(missing, BatchSize)
Charged == IF left = NoBudget THEN left ELSE left - Cardinality(Batch)

\* Fault: the budget is not charged.
FetchFree ==
  /\ pc = "fetching"
  /\ missing # {}
  /\ stored' = [stored EXCEPT ![topic] = @ \cup (Batch \cap stream[topic])]
  /\ spent' = spent + Cardinality(Batch)
  /\ missing' = missing \ Batch
  /\ UNCHANGED <<server, synced, topic, seenStream, seenHighest, left, stop, pc,
                 todo, remaining, refused, cut>>

\* One batch is fetched and stored; posts deleted meanwhile are not in the
\* answer, and all that were asked for count.  Then a stop is looked at.
FetchBatch ==
  /\ pc = "fetching"
  /\ missing # {}
  /\ stored' = [stored EXCEPT ![topic] = @ \cup (Batch \cap stream[topic])]
  /\ spent' = spent + Cardinality(Batch)
  /\ IF stop
     THEN LeaveTopic(Charged)
     ELSE /\ left' = Charged
          /\ missing' = missing \ Batch
          /\ UNCHANGED <<topic, seenStream, seenHighest, pc, todo, remaining>>
  /\ UNCHANGED <<server, synced, stop, refused, cut>>

\* Fault: a refused batch ends the batches but not the visit.
RecordAfterRefusal ==
  /\ pc = "fetching"
  /\ missing # {}
  /\ synced' = [synced EXCEPT ![topic] = seenHighest]
  /\ LeaveTopic(left)
  /\ UNCHANGED <<server, stored, stop, spent, refused, cut>>

\* The same for a batch: watch() goes on with the budget it knew before this
\* topic, and looks neither at the stop event nor at the budget.
FetchRefused ==
  /\ pc = "fetching"
  /\ missing # {}
  /\ refused' = refused \cup {topic}
  /\ NoVisit
  /\ pc' = "topics"
  /\ UNCHANGED <<server, store, stop, todo, remaining, spent, cut>>

\* A stop noticed before the next batch.
StopEarly ==
  /\ pc = "fetching"
  /\ missing # {}
  /\ stop
  /\ LeaveTopic(left)
  /\ UNCHANGED <<server, store, stop, spent, refused, cut>>

\* Every batch went through.
RecordProgress ==
  /\ pc = "fetching"
  /\ missing = {}
  /\ synced' = [synced EXCEPT ![topic] = seenHighest]
  /\ LeaveTopic(left)
  /\ UNCHANGED <<server, stored, stop, spent, refused, cut>>

-----------------------------------------------------------------------------
(* Stops, restarts and crashes                                              *)

Stop ==
  /\ ~stop
  /\ stop' = TRUE
  /\ UNCHANGED <<server, store, visit, pc, todo, remaining, spent, refused, cut>>

\* A new watch thread, with a stop event of its own.
Restart ==
  /\ stop
  /\ pc = "idle"
  /\ stop' = FALSE
  /\ UNCHANGED <<server, store, visit, pc, todo, remaining, spent, refused, cut>>

\* The process dies or an exception ends the cycle: the store is what remains.
Crash ==
  /\ pc # "idle"
  /\ NoVisit
  /\ pc' = "idle"
  /\ todo' = {}
  /\ UNCHANGED <<server, store, stop, remaining, spent, refused, cut>>

-----------------------------------------------------------------------------

Visit ==
  \/ UpToDate \/ Plan \/ FetchBatch \/ RecordProgress
  \/ StopVisit \/ StopEarly

Next ==
  \/ \E t \in Topics : Reply(t) \/ SkipTopic(t) \/ EnterTopic(t)
  \/ \E t \in Topics, p \in Posts : Delete(t, p)
  \/ \E listed \in SUBSET Topics : BeginCycle(listed)
  \/ EndCycle
  \/ Visit
  \/ TimingsRefused \/ FetchRefused
  \/ Stop \/ Restart \/ Crash

Spec == Init /\ [][Next]_vars

\* Cycles come again and again and list every topic again and again, visits go
\* on, and now and then a request gets through: a refusal, a crash or a stop may
\* hit any visit, but not every one.
Fairness ==
  /\ WF_vars(Restart)
  /\ WF_vars(Visit)
  /\ WF_vars(EndCycle)
  /\ \A t \in Topics :
       /\ SF_vars(\E listed \in SUBSET Topics : t \in listed /\ BeginCycle(listed))
       /\ SF_vars(EnterTopic(t))
       /\ SF_vars(topic = t /\ Plan)
       /\ SF_vars(topic = t /\ FetchBatch)
       /\ SF_vars(topic = t /\ RecordProgress)

FairSpec == Spec /\ Fairness

-----------------------------------------------------------------------------
(* Properties                                                               *)

Budgets == IF Budget = NoBudget THEN {NoBudget} ELSE 0..Budget

\* Type invariant.
TypeOK ==
  /\ stream \in [Topics -> SUBSET Posts]
  /\ highest \in [Topics -> 0..MaxPosts]
  /\ stored \in [Topics -> SUBSET Posts]
  /\ synced \in [Topics -> 0..MaxPosts]
  /\ stop \in BOOLEAN
  /\ pc \in {"idle", "topics", "entered", "fetching"}
  /\ todo \subseteq Topics
  /\ topic \in Topics \cup {NoTopic}
  /\ topic \in Topics <=> pc \in {"entered", "fetching"}
  /\ seenStream \subseteq Posts
  /\ seenHighest \in 0..MaxPosts
  /\ missing \subseteq Posts
  /\ remaining \in Budgets
  /\ left \in Budgets
  /\ spent \in Nat
  /\ refused \subseteq Topics
  /\ cut \subseteq Topics

\* The recorded progress is not ahead of the store: every post up to it that
\* the server still has is stored, through stops, refusals and crashes between
\* batches, posts that appear or vanish during a visit, and restarts.  It must
\* hold, since a visit never looks for posts again once the progress covers
\* them.  Topics of which the budget ever cut the missing posts are left out.
SyncedMeansStored ==
  \A t \in Topics \ cut : \A p \in stream[t] : p <= synced[t] => p \in stored[t]

\* A cycle asks for more posts than the budget only after refused batches, each
\* of which can cost the budget once more.
BudgetBound ==
  Budget # NoBudget => spent <= Budget * (Cardinality(refused) + 1)

\* Every post is stored in the end, unless it is deleted before or the budget
\* cut its topic.
PostsStoredEventually ==
  \A t \in Topics, p \in Posts :
    p \in stream[t] ~> p \in stored[t] \/ p \notin stream[t] \/ t \in cut

\* tests/test_flows.py:269 asks that the progress of a topic does not advance
\* when the budget cuts its missing posts.  So nothing below it is missing.
NoProgressWhenCut ==
  \A t \in Topics : \A p \in stream[t] : p <= synced[t] => p \in stored[t]

\* docs/cli.md:66 and usage.md:64: the budget is the largest number of posts
\* that one cycle backfills.
\* The code does not satisfy it (README, Disagreements), and no run lists it.
BudgetPerCycle == Budget # NoBudget => spent <= Budget

=============================================================================
