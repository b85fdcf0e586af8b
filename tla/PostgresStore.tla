---------------------------- MODULE PostgresStore ----------------------------
(***************************************************************************)
(* storage/postgres_store.py: one psycopg connection that the threads of a *)
(* process share without a lock.  psycopg lets one command at a time       *)
(* through, but a transaction belongs to the connection: what one thread   *)
(* commits or rolls back is whatever all of them have executed since.      *)
(* Nothing is tried again, and a lost connection is not opened again.      *)
(***************************************************************************)
EXTENDS StoreConnection

CONSTANTS
  CallsOf,     \* CallsOf[th]: writes and reads of that thread
  Fallible     \* names of the calls whose statements the server may refuse

ASSUME PostgresAssumption ==
  /\ MaxCalls \in Nat
  /\ \A th \in Threads : \A c \in CallsOf[th] : WellFormed(c)
  \* Only the watch thread writes topics and statistics, and there is one
  \* (flows/watch.py:231-236, 152, 322, 390, 424).
  /\ \A th, o \in Threads : \A c \in CallsOf[th], d \in CallsOf[o] :
       {c.op, d.op} \subseteq {"upsert_topic_detail", "inc_stat"} => th = o

VARIABLES
  counted,  \* history: inc_stat calls that have returned
  mixed,    \* history: two threads have had a call under way at once
  failed    \* history: a command has failed or was cut off

vars == <<disk, txn, work, pc, call, key, at, answer, calls, counted, mixed, failed>>

\* A transaction is "idle", "open" or "aborted", as the server has it, or "lost"
\* with its connection, and a thread "idle", at its "key", at its "run" or "failed".
Init ==
  /\ disk = Initialized
  /\ txn = "idle" /\ work = Initialized
  /\ pc = [th \in Threads |-> "idle"]
  /\ call = [th \in Threads |-> NoCall]
  /\ key = [th \in Threads |-> Absent]
  /\ at = [th \in Threads |-> 0]
  /\ answer = [th \in Threads |-> {}]
  /\ calls = 0
  /\ counted = 0
  /\ mixed = FALSE /\ failed = FALSE

-----------------------------------------------------------------------------
(* The statements of each write *)

\* Fault: a snapshot is made for a new topic only, not for a new version.
FirstSnapshotOnly(c, seen) ==
  LET row == {Cell("topics", c.topic, "set", c.version),
              Cell("last_read", c.topic, "set", c.read)}
      snapshot == {Cell("topic_snapshots", c.topic, "set", c.version)}
  IN  IF seen = Absent THEN <<row, snapshot>> ELSE <<row>>

UpsertTopicDetail(c, seen) ==
  LET row == {Cell("topics", c.topic, "set", c.version),
              Cell("last_read", c.topic, "set", c.read)}
      snapshot == {Cell("topic_snapshots", c.topic, "set", c.version)}
  IN  IF seen = Absent \/ seen # c.version THEN <<row, snapshot>> ELSE <<row>>

InsertPosts(c) ==
  [i \in 1..Len(c.ids) |-> {Cell("posts", c.ids[i], "set", c.topic)}]

UpsertTopicCrawlState(c) ==
  <<{Cell("topic_crawl_state", c.topic, "set", c.number)}>>

UpdateLastReadPostNumber(c) ==
  <<{Cell("last_read", c.topic, "set", c.number),
     Cell("topics", c.topic, "make", Blank)}>>

\* A cycle that is there keeps its end.
BeginWatchCycle(c) == <<{Cell("watch_cycles", c.id, "make", Open)}>>

FinishWatchCycle(c) == <<{Cell("watch_cycles", c.id, "update", c.outcome)}>>

MarkNotificationsSent(c) ==
  [i \in 1..Len(c.ids) |-> {Cell("notification_dedupe", c.ids[i], "make", 0)}]

IncStat(c) ==
  <<{Cell("stats_total", 1, "make", 0)},
    {Cell("stats_total", 1, "add", c.by)},
    {Cell("stats_daily", c.day, "make", 0)},
    {Cell("stats_daily", c.day, "add", c.by)}>>

IncPluginDailyCount(c) == <<{Cell("plugin_daily_counters", c.day, "count", c.by)}>>

MarkPluginOnce(c) == <<{Cell("plugin_once_marks", 1, "make", 0)}>>

SetPluginKv(c) == <<{Cell("plugin_kv", 1, "set", c.value)}>>

LogPluginAction(c) == <<{Cell("plugin_action_logs", 1, "count", 1)}>>

Statements(c, seen) ==
  CASE c.op = "upsert_topic_detail" -> UpsertTopicDetail(c, seen)
    [] c.op = "insert_posts" -> InsertPosts(c)
    [] c.op = "upsert_topic_crawl_state" -> UpsertTopicCrawlState(c)
    [] c.op = "update_last_read_post_number" -> UpdateLastReadPostNumber(c)
    [] c.op = "begin_watch_cycle" -> BeginWatchCycle(c)
    [] c.op = "finish_watch_cycle" -> FinishWatchCycle(c)
    [] c.op = "mark_notifications_sent" -> MarkNotificationsSent(c)
    [] c.op = "inc_stat" -> IncStat(c)
    [] c.op = "inc_plugin_daily_count" -> IncPluginDailyCount(c)
    [] c.op = "mark_plugin_once" -> MarkPluginOnce(c)
    [] c.op = "set_plugin_kv" -> SetPluginKv(c)
    [] c.op = "log_plugin_action" -> LogPluginAction(c)
    [] OTHER -> << >>

-----------------------------------------------------------------------------
(* The reads *)

Rows(table, keys, db) == {k \in keys : db[table][k] # Absent}
Counter(table, k, db) == {Number(db[table][k])}

GetExistingPostIds(c, db) == {p \in Range(c.ids) : db["posts"][p] = c.topic}
GetLastSyncedPostNumber(c, db) == Counter("topic_crawl_state", c.topic, db)
GetLastReadPostNumber(c, db) == Counter("last_read", c.topic, db)
GetSentNotificationIds(c, db) == Rows("notification_dedupe", Range(c.ids), db)
GetStatsTotal(c, db) == Counter("stats_total", 1, db)
GetStatsToday(c, db) == Counter("stats_daily", c.day, db)
GetPluginDailyCount(c, db) == Counter("plugin_daily_counters", c.day, db)
PluginOnceExists(c, db) == Rows("plugin_once_marks", {1}, db)
GetPluginKv(c, db) == {db["plugin_kv"][k] : k \in Rows("plugin_kv", {1}, db)}

Answer(c, db) ==
  CASE c.op = "get_existing_post_ids" -> GetExistingPostIds(c, db)
    [] c.op = "get_last_synced_post_number" -> GetLastSyncedPostNumber(c, db)
    [] c.op = "get_last_read_post_number" -> GetLastReadPostNumber(c, db)
    [] c.op = "get_sent_notification_ids" -> GetSentNotificationIds(c, db)
    [] c.op = "get_stats_total" -> GetStatsTotal(c, db)
    [] c.op = "get_stats_today" -> GetStatsToday(c, db)
    [] c.op = "get_plugin_daily_count" -> GetPluginDailyCount(c, db)
    [] c.op = "plugin_once_exists" -> PluginOnceExists(c, db)
    [] c.op = "get_plugin_kv" -> GetPluginKv(c, db)

-----------------------------------------------------------------------------
(* A call *)

Body(th) == Statements(call[th], key[th])
View == IF txn = "open" THEN work ELSE disk

Begin(th, c) ==
  /\ pc[th] = "idle"
  /\ calls < MaxCalls
  /\ calls' = calls + 1
  /\ call' = [call EXCEPT ![th] = c]
  /\ pc' = [pc EXCEPT ![th] = IF c.op = "upsert_topic_detail" THEN "key" ELSE "run"]
  /\ mixed' = (mixed \/ \E o \in Threads : pc[o] # "idle")
  /\ UNCHANGED <<disk, txn, work, key, at, answer, counted, failed>>

Return(th) ==
  /\ pc' = [pc EXCEPT ![th] = "idle"]
  /\ call' = [call EXCEPT ![th] = NoCall]
  /\ key' = [key EXCEPT ![th] = Absent]
  /\ at' = [at EXCEPT ![th] = 0]

\* A command opens a transaction, which a read leaves open.
Opened == txn' = "open" /\ work' = View

ReadKey(th) ==
  /\ pc[th] = "key"
  /\ txn \in {"idle", "open"}
  /\ Opened
  /\ key' = [key EXCEPT ![th] = View["topics"][call[th].topic]]
  /\ pc' = [pc EXCEPT ![th] = "run"]
  /\ UNCHANGED <<disk, call, at, answer, calls, counted, mixed, failed>>

Query(th) ==
  /\ pc[th] = "run" /\ IsRead(call[th])
  /\ txn \in {"idle", "open"}
  /\ Opened
  /\ answer' = [answer EXCEPT ![th] = Answer(call[th], View)]
  /\ Return(th)
  /\ UNCHANGED <<disk, calls, counted, mixed, failed>>

Writing(th) == pc[th] = "run" /\ ~IsRead(call[th])

\* Fault: statements commit one by one, as with autocommit=True.
Autocommitted(db) == db

\* What a statement makes permanent.
Durable(db) == disk

Statement(th) ==
  /\ Writing(th)
  /\ at[th] < Len(Body(th))
  /\ txn \in {"idle", "open"}
  /\ txn' = "open"
  /\ work' = Exec(Body(th)[at[th] + 1], View)
  /\ disk' = Durable(work')
  /\ at' = [at EXCEPT ![th] = @ + 1]
  /\ UNCHANGED <<pc, call, key, answer, calls, counted, mixed, failed>>

\* The server refuses the statement, or any command in an aborted transaction,
\* or there is no server.
CommandFails(th) ==
  /\ pc[th] \in {"key", "run"}
  /\ Writing(th) => at[th] < Len(Body(th))
  /\ \/ txn \in {"aborted", "lost"} /\ UNCHANGED txn
     \/ txn \in {"idle", "open"} /\ call[th].op \in Fallible /\ txn' = "aborted"
  /\ pc' = [pc EXCEPT ![th] = "failed"]
  /\ failed' = TRUE
  /\ UNCHANGED <<disk, work, call, key, at, answer, calls, counted, mixed>>

\* commit: an aborted transaction is rolled back by it, without an exception.
Commit(th) ==
  /\ Writing(th)
  /\ at[th] = Len(Body(th))
  /\ txn # "lost"
  /\ disk' = IF txn = "open" THEN work ELSE disk
  /\ txn' = "idle" /\ work' = Initialized
  /\ counted' = IF call[th].op = "inc_stat" THEN counted + call[th].by ELSE counted
  /\ Return(th)
  /\ UNCHANGED <<answer, calls, mixed, failed>>

\* The connection is lost before or after the server has committed.
CommitFails(th) ==
  /\ Writing(th)
  /\ at[th] = Len(Body(th))
  /\ txn = "lost"
  /\ pc' = [pc EXCEPT ![th] = "failed"]
  /\ failed' = TRUE
  /\ UNCHANGED <<disk, txn, work, call, key, at, answer, calls, counted, mixed>>

Rollback ==
  IF txn = "lost" THEN UNCHANGED <<txn, work>> ELSE txn' = "idle" /\ work' = Initialized

\* _run_query and _run_transaction pass the exception on, or that of the
\* rollback.
RaiseToCaller(th) ==
  /\ pc[th] = "failed"
  /\ Rollback
  /\ Return(th)
  /\ UNCHANGED <<disk, answer, calls, counted, mixed, failed>>

ThreadStep(th) ==
  \/ ReadKey(th) \/ Query(th) \/ Statement(th) \/ CommandFails(th) \/ Commit(th)
  \/ CommitFails(th) \/ RaiseToCaller(th)

-----------------------------------------------------------------------------

\* The server goes away; a commit that was on its way may have reached it.
Disconnect ==
  /\ txn # "lost"
  /\ txn' = "lost"
  /\ work' = Initialized
  /\ disk' \in {disk} \cup {work : th \in {o \in Threads : txn = "open" /\ Writing(o)
                                                  /\ at[o] = Len(Body(o))}}
  /\ UNCHANGED <<pc, call, key, at, answer, calls, counted, mixed, failed>>

\* The process ends, by close or by a crash, and is started again.
Restart ==
  /\ txn' = "idle" /\ work' = Initialized
  /\ pc' = [th \in Threads |-> "idle"]
  /\ call' = [th \in Threads |-> NoCall]
  /\ key' = [th \in Threads |-> Absent]
  /\ at' = [th \in Threads |-> 0]
  /\ failed' = (failed \/ \E th \in Threads : pc[th] # "idle")
  /\ UNCHANGED <<disk, answer, calls, counted, mixed>>

Next ==
  \/ \E th \in Threads : ThreadStep(th) \/ \E c \in CallsOf[th] : Begin(th, c)
  \/ Disconnect \/ Restart

Spec == Init /\ [][Next]_vars

-----------------------------------------------------------------------------
(* Properties *)

TypeOK ==
  /\ DOMAIN disk = Names /\ DOMAIN work = Names
  /\ txn \in {"idle", "open", "aborted", "lost"}
  /\ pc \in [Threads -> {"idle", "key", "run", "failed"}]
  /\ \A th \in Threads : call[th] \in CallsOf[th] \cup {NoCall}
  /\ key \in [Threads -> Versions \cup {Absent, Blank}]
  /\ at \in [Threads -> Nat]
  /\ calls \in 0..MaxCalls /\ counted \in Nat
  /\ {mixed, failed} \subseteq BOOLEAN

Quiet == \A th \in Threads : pc[th] = "idle"

\* Once all calls have ended, a topic's row has its snapshot, the total is the
\* sum of the days, and every inc_stat that returned is in it, if no two calls
\* were under way at once or if none has failed: the shared transaction does
\* harm only where a failure meets a second thread (448-456).
WholeUnlessMixedAndFailed ==
  Quiet /\ ~(mixed /\ failed) =>
    /\ SnapshotsAgree(disk)
    /\ StatsAgree(disk)
    /\ counted > 0 => counted <= disk["stats_total"][1]

\* A transaction the server has aborted has a thread that is about to end it:
\* no failure leaves the connection unusable (440-456).
AbortedIsEnded == txn = "aborted" => \E th \in Threads : pc[th] = "failed"

\* Writes cut off at their commit.
CutOff ==
  {th \in Threads : /\ txn = "lost" /\ call[th] # NoCall /\ ~IsRead(call[th])
                    /\ at[th] = Len(Body(th))}

\* As long as no two calls have been under way at once, a call is carried out
\* whole or not at all, a read sees whole calls only, and a call that raises has
\* changed nothing, unless the connection was lost at its commit (436-456).
Alone == INSTANCE DoubtfulStore WITH tables <- disk, calling <- call, doubtful <- CutOff
AtomicWhileAlone == Alone!Init /\ [][mixed' \/ Alone!Next]_(Alone!vars)
==============================================================================
