----------------------------- MODULE SqliteStore -----------------------------
(***************************************************************************)
(* storage/sqlite_store.py: one connection in WAL mode that the threads of *)
(* a process share under an RLock, and another process (a site of its own  *)
(* in the same file, an import) that writes now and then.                  *)
(*                                                                         *)
(* Python opens a transaction before the first write of a call and leaves  *)
(* it open, with what was executed in it, when the call raises.  SQLite    *)
(* refuses a write while another connection holds the write lock, and for  *)
(* good when the open transaction has read before another connection       *)
(* committed.                                                              *)
(***************************************************************************)
EXTENDS SqliteContract

CONSTANTS
  CallsOf,     \* CallsOf[th]: writes and reads of that thread
  OtherWriter, \* another process writes to the file
  BadData      \* writes that may be given data that cannot be bound

ASSUME SqliteAssumption ==
  /\ OtherWriter \in BOOLEAN
  /\ MaxCalls \in Nat
  /\ "free" \notin Threads
  /\ \A th \in Threads : \A c \in CallsOf[th] : WellFormed(c)
  \* Only the watch thread writes topics, and there is one (flows/watch.py:231).
  /\ \A th, o \in Threads : \A c \in CallsOf[th], d \in CallsOf[o] :
       c.op = "upsert_topic_detail" /\ d.op = c.op => th = o

conn == <<txn, stale, work>>
vars == <<disk, txn, stale, work, other, lock, pc, call, key, at, tries, result,
          answer, calls, raised, settled>>

\* A transaction is "none", "begun" by a refused write, "read" or "write", and a
\* thread "idle", at its "key", waiting for the "lock" or at its "run".
Init ==
  /\ disk = Initialized
  /\ txn = "none" /\ stale = FALSE /\ work = Initialized
  /\ other = FALSE
  /\ lock = "free"
  /\ pc = [th \in Threads |-> "idle"]
  /\ call = [th \in Threads |-> NoCall]
  /\ key = [th \in Threads |-> Absent]
  /\ at = [th \in Threads |-> 0]
  /\ tries = [th \in Threads |-> 0]
  /\ result = [th \in Threads |-> "none"]
  /\ answer = [th \in Threads |-> {}]
  /\ calls = 0
  /\ raised = FALSE
  /\ settled = Initialized

-----------------------------------------------------------------------------
(* The statements of each write *)

UpsertTopicDetail(c, seen) ==
  LET row == {Cell("topics", c.topic, "set", c.version),
              Cell("last_read", c.topic, "set", c.read)}
      snapshot == {Cell("topic_snapshots", c.topic, "set", c.version)}
  IN  IF seen = c.version THEN <<row>> ELSE <<row, snapshot>>

InsertPosts(c) ==
  [i \in 1..Len(c.ids) |-> {Cell("posts", c.ids[i], "set", c.topic)}]

UpsertTopicCrawlState(c) ==
  <<{Cell("topic_crawl_state", c.topic, "set", c.number)}>>

UpdateLastReadPostNumber(c) ==
  <<{Cell("topics", c.topic, "make", Blank),
     Cell("last_read", c.topic, "set", c.number)}>>

BeginWatchCycle(c) == <<{Cell("watch_cycles", c.id, "set", Open)}>>

FinishWatchCycle(c) == <<{Cell("watch_cycles", c.id, "update", c.outcome)}>>

MarkNotificationsSent(c) ==
  [i \in 1..Len(c.ids) |-> {Cell("notification_dedupe", c.ids[i], "make", 0)}]

IncStat(c) ==
  <<{Cell("stats_total", 1, "make", 0)},
    {Cell("stats_total", 1, "add", c.by)},
    {Cell("stats_daily", c.day, "make", 0)},
    {Cell("stats_daily", c.day, "add", c.by)}>>

IncPluginDailyCount(c) == <<{Cell("plugin_daily_counters", c.day, "count", c.by)}>>

MarkPluginOnce(c) == <<{Cell("plugin_once_marks", 1, "make", 0)}>>

SetPluginKv(c) == <<{Cell("plugin_kv", 1, "set", c.value)}>>

LogPluginAction(c) == <<{Cell("plugin_action_logs", 1, "count", 1)}>>

Statements(c, seen) ==
  CASE c.op = "upsert_topic_detail" -> UpsertTopicDetail(c, seen)
    [] c.op = "insert_posts" -> InsertPosts(c)
    [] c.op = "upsert_topic_crawl_state" -> UpsertTopicCrawlState(c)
    [] c.op = "update_last_read_post_number" -> UpdateLastReadPostNumber(c)
    [] c.op = "begin_watch_cycle" -> BeginWatchCycle(c)
    [] c.op = "finish_watch_cycle" -> FinishWatchCycle(c)
    [] c.op = "mark_notifications_sent" -> MarkNotificationsSent(c)
    [] c.op = "inc_stat" -> IncStat(c)
    [] c.op = "inc_plugin_daily_count" -> IncPluginDailyCount(c)
    [] c.op = "mark_plugin_once" -> MarkPluginOnce(c)
    [] c.op = "set_plugin_kv" -> SetPluginKv(c)
    [] c.op = "log_plugin_action" -> LogPluginAction(c)

-----------------------------------------------------------------------------
(* The reads: sets, so that one variable holds any answer *)

Value(v) == {Number(v)}

GetExistingPostIds(c, db) == {p \in Range(c.ids) : db["posts"][p] = c.topic}
GetLastSyncedPostNumber(c, db) == Value(db["topic_crawl_state"][c.topic])
GetLastReadPostNumber(c, db) == Value(db["last_read"][c.topic])
GetSentNotificationIds(c, db) == {n \in Range(c.ids) : db["notification_dedupe"][n] # Absent}
GetStatsTotal(c, db) == Value(db["stats_total"][1])
GetStatsToday(c, db) == Value(db["stats_daily"][c.day])
GetPluginDailyCount(c, db) == Value(db["plugin_daily_counters"][c.day])
PluginOnceExists(c, db) == {n \in {1} : db["plugin_once_marks"][n] # Absent}
GetPluginKv(c, db) == {db["plugin_kv"][n] : n \in {1}} \ {Absent}

Answer(c, db) ==
  CASE c.op = "get_existing_post_ids" -> GetExistingPostIds(c, db)
    [] c.op = "get_last_synced_post_number" -> GetLastSyncedPostNumber(c, db)
    [] c.op = "get_last_read_post_number" -> GetLastReadPostNumber(c, db)
    [] c.op = "get_sent_notification_ids" -> GetSentNotificationIds(c, db)
    [] c.op = "get_stats_total" -> GetStatsTotal(c, db)
    [] c.op = "get_stats_today" -> GetStatsToday(c, db)
    [] c.op = "get_plugin_daily_count" -> GetPluginDailyCount(c, db)
    [] c.op = "plugin_once_exists" -> PluginOnceExists(c, db)
    [] c.op = "get_plugin_kv" -> GetPluginKv(c, db)
    [] OTHER -> {}

-----------------------------------------------------------------------------
(* A call *)

Body(th) == Statements(call[th], key[th])
View == IF txn \in {"none", "begun"} THEN disk ELSE work

\* Fault: a read opens a transaction as well, as with autocommit=False.
ReadOpens ==
  IF txn # "write" THEN txn' = "read" /\ work' = disk /\ UNCHANGED stale
  ELSE UNCHANGED conn

\* A SELECT takes its snapshot: in an open transaction it keeps it.
AfterRead ==
  IF txn = "begun" THEN txn' = "read" /\ work' = disk /\ UNCHANGED stale
  ELSE UNCHANGED conn

Begin(th, c) ==
  /\ pc[th] = "idle"
  /\ calls < MaxCalls
  /\ calls' = calls + 1
  /\ call' = [call EXCEPT ![th] = c]
  /\ pc' = [pc EXCEPT ![th] = IF c.op = "upsert_topic_detail" THEN "key" ELSE "lock"]
  /\ UNCHANGED <<disk, conn, other, lock, key, at, tries, result, answer, raised,
                 settled>>

\* _existing_topic_snapshot_key, before the lock is taken.
ReadKey(th) ==
  /\ pc[th] = "key"
  /\ key' = [key EXCEPT ![th] = View["topics"][call[th].topic]]
  /\ AfterRead
  /\ pc' = [pc EXCEPT ![th] = "lock"]
  /\ UNCHANGED <<disk, other, lock, call, at, tries, result, answer, calls, raised,
                 settled>>

Acquire(th) ==
  /\ pc[th] = "lock"
  /\ lock = "free"
  /\ lock' = th
  /\ pc' = [pc EXCEPT ![th] = "run"]
  /\ UNCHANGED <<disk, conn, other, call, key, at, tries, result, answer, calls, raised,
                 settled>>

\* Fault: an exception leaves the lock behind.
KeptWhenRaised(th, how) == IF how = "raised" THEN th ELSE "free"

Released(th, how) == "free"

\* The call ends and gives the lock back.
End(th, how) ==
  /\ lock' = Released(th, how)
  /\ pc' = [pc EXCEPT ![th] = "idle"]
  /\ call' = [call EXCEPT ![th] = NoCall]
  /\ key' = [key EXCEPT ![th] = Absent]
  /\ at' = [at EXCEPT ![th] = 0]
  /\ tries' = [tries EXCEPT ![th] = 0]
  /\ result' = [result EXCEPT ![th] = how]
  /\ UNCHANGED <<other, calls>>

Query(th) ==
  /\ pc[th] = "run" /\ IsRead(call[th])
  /\ answer' = [answer EXCEPT ![th] = Answer(call[th], View)]
  /\ AfterRead
  /\ End(th, "ok")
  /\ UNCHANGED <<disk, raised, settled>>

Writing(th) == pc[th] = "run" /\ ~IsRead(call[th])

Refused == other \/ stale

Statement(th) ==
  /\ Writing(th)
  /\ at[th] < Len(Body(th))
  /\ ~Refused
  /\ txn' = "write"
  /\ work' = Exec(Body(th)[at[th] + 1], View)
  /\ at' = [at EXCEPT ![th] = @ + 1]
  /\ UNCHANGED <<disk, stale, other, lock, pc, call, key, tries, result, answer, calls,
                 raised, settled>>

\* Fault: the last refusal is swallowed.
Swallowed == "ok"

AfterLastTry == "raised"

\* _with_retry: "database is locked", after busy_timeout or at once; the transaction that
\* was opened for the write stays open.
Locked(th) ==
  /\ Writing(th)
  /\ at[th] < Len(Body(th))
  /\ Refused
  /\ txn' = IF txn = "none" THEN "begun" ELSE txn
  /\ UNCHANGED <<disk, stale, work, settled>>
  /\ IF tries[th] + 1 = 3
     THEN End(th, AfterLastTry) /\ raised' = TRUE /\ UNCHANGED answer
     ELSE /\ tries' = [tries EXCEPT ![th] = @ + 1]
          /\ at' = [at EXCEPT ![th] = 0]
          /\ UNCHANGED <<other, lock, pc, call, key, result, answer, calls, raised>>

\* Any other exception, at whatever row or statement, passes through at once: the
\* transaction stays open with the statements before.
Unstorable(th) ==
  /\ call[th].op \in BadData
  /\ Writing(th)
  /\ at[th] < Len(Body(th))
  /\ txn' = IF txn = "none" THEN "begun" ELSE txn
  /\ settled' = IF txn = "write" THEN work ELSE settled
  /\ raised' = TRUE
  /\ End(th, "raised")
  /\ UNCHANGED <<disk, stale, work, answer>>

Commit(th) ==
  /\ Writing(th)
  /\ at[th] = Len(Body(th))
  /\ disk' = work /\ settled' = work
  /\ raised' = FALSE
  /\ txn' = "none" /\ stale' = FALSE /\ work' = Initialized
  /\ answer' = [answer EXCEPT ![th] = {}]
  /\ End(th, "ok")

ThreadStep(th) ==
  \/ ReadKey(th) \/ Acquire(th) \/ Query(th) \/ Statement(th) \/ Locked(th)
  \/ Unstorable(th) \/ Commit(th)

-----------------------------------------------------------------------------

OtherLocks ==
  /\ OtherWriter
  /\ ~other
  /\ txn # "write"
  /\ other' = TRUE
  /\ UNCHANGED <<disk, conn, lock, pc, call, key, at, tries, result, answer, calls, raised,
                 settled>>

\* It has written rows of its own site, or nothing.
OtherCommits ==
  /\ other
  /\ other' = FALSE
  /\ stale' \in {stale, stale \/ txn = "read"}
  /\ UNCHANGED <<disk, txn, work, lock, pc, call, key, at, tries, result, answer, calls,
                 raised, settled>>

\* The process ends, by close or by a crash, and is started again.
Restart ==
  /\ txn' = "none" /\ stale' = FALSE /\ work' = Initialized
  /\ lock' = "free"
  /\ pc' = [th \in Threads |-> "idle"]
  /\ call' = [th \in Threads |-> NoCall]
  /\ key' = [th \in Threads |-> Absent]
  /\ at' = [th \in Threads |-> 0]
  /\ tries' = [th \in Threads |-> 0]
  /\ result' = [th \in Threads |-> "none"]
  /\ raised' = FALSE
  /\ settled' = disk
  /\ UNCHANGED <<disk, other, answer, calls>>

Next ==
  \/ \E th \in Threads : ThreadStep(th) \/ \E c \in CallsOf[th] : Begin(th, c)
  \/ OtherLocks \/ OtherCommits \/ Restart

Spec == Init /\ [][Next]_vars

\* A thread that can go on does; the other process may keep its lock.
FairSpec == Spec /\ \A th \in Threads : WF_vars(ThreadStep(th))

-----------------------------------------------------------------------------
(* Properties *)

TypeOK ==
  /\ DOMAIN disk = Names /\ DOMAIN work = Names
  /\ txn \in {"none", "begun", "read", "write"}
  /\ {stale, other, raised} \subseteq BOOLEAN
  /\ lock \in Threads \cup {"free"}
  /\ pc \in [Threads -> {"idle", "key", "lock", "run"}]
  /\ \A th \in Threads : call[th] \in CallsOf[th] \cup {NoCall}
  /\ key \in [Threads -> Versions \cup {Absent, Blank}]
  /\ at \in [Threads -> Nat] /\ tries \in [Threads -> 0..2]
  /\ result \in [Threads -> {"none", "ok", "raised"}]
  /\ calls \in 0..MaxCalls

\* A call comes to an end, even when the other process keeps its lock.
CallsEnd == \A th \in Threads : pc[th] # "idle" ~> pc[th] = "idle"
==============================================================================
