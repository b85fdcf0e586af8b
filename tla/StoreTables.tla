----------------------------- MODULE StoreTables -----------------------------
(***************************************************************************)
(* The tables of one site and account, as both storage backends keep them, *)
(* the calls of storage/base.py on them, and what a call comes to when it  *)
(* is carried out whole.                                                   *)
(*                                                                         *)
(* A table is a function from keys to numbers: Absent, or what a row has   *)
(* of interest.  The row of a topic is the version of the fields a         *)
(* snapshot is about, Blank when update_last_read_post_number made it; a   *)
(* watch cycle is Open, or has ended one way or the other.                 *)
(***************************************************************************)
EXTENDS Integers, Sequences, Functions

CONSTANTS
  Topics,       \* topic ids
  Versions,     \* versions of a topic's title, category, tags and first post
  PostIds,      \* post ids
  NoteIds,      \* notification ids
  CycleIds,     \* ids of watch cycles
  LastDay       \* dates are numbered up to this one

ASSUME TablesAssumption == Versions \subseteq Nat \ {0} /\ LastDay \in Nat

Days == 1..LastDay

Absent == -1
Blank == 0
Open == 0

Names == {"sites", "accounts", "topics", "last_read", "topic_snapshots", "posts",
          "topic_crawl_state", "watch_cycles", "notification_dedupe", "stats_total",
          "stats_daily", "plugin_daily_counters", "plugin_once_marks", "plugin_kv",
          "plugin_action_logs"}

KeysOf(table) ==
  CASE table \in {"topics", "last_read", "topic_snapshots", "topic_crawl_state"} -> Topics
    [] table = "posts" -> PostIds
    [] table = "watch_cycles" -> CycleIds
    [] table = "notification_dedupe" -> NoteIds
    [] table \in {"stats_daily", "plugin_daily_counters"} -> Days
    [] OTHER -> {1}

Empty == [n \in Names |-> [k \in KeysOf(n) |-> Absent]]

\* The store was opened before: sites and accounts have their row.
Initialized == [Empty EXCEPT !["sites"][1] = 0, !["accounts"][1] = 0]

-----------------------------------------------------------------------------
(* A statement writes some cells at once *)

Cell(table, key, how, value) == [table |-> table, key |-> key, how |-> how, value |-> value]

\* INSERT ... ON CONFLICT DO UPDATE sets or adds, DO NOTHING makes, and an
\* UPDATE changes no row that is not there.
Written(cell, old) ==
  CASE cell.how = "set" -> cell.value
    [] cell.how = "make" -> IF old = Absent THEN cell.value ELSE old
    [] cell.how = "update" -> IF old = Absent THEN old ELSE cell.value
    [] cell.how = "add" -> IF old = Absent THEN old ELSE old + cell.value
    [] cell.how = "count" -> IF old = Absent THEN cell.value ELSE old + cell.value

\* A statement writes each of its cells once.
Exec(statement, tables) ==
  LET cells(n, k) == {c \in statement : c.table = n /\ c.key = k}
      value(n, k) == Written(CHOOSE c \in cells(n, k) : TRUE, tables[n][k])
  IN  [n \in Names |-> [k \in KeysOf(n) |->
         IF cells(n, k) = {} THEN tables[n][k] ELSE value(n, k)]]

-----------------------------------------------------------------------------
(* The calls *)

Operations ==
  {"upsert_topic_detail", "insert_posts", "upsert_topic_crawl_state",
   "update_last_read_post_number", "begin_watch_cycle", "finish_watch_cycle",
   "mark_notifications_sent", "inc_stat", "inc_plugin_daily_count", "mark_plugin_once",
   "set_plugin_kv", "log_plugin_action", "get_existing_post_ids",
   "get_last_synced_post_number", "get_last_read_post_number",
   "get_sent_notification_ids", "get_stats_total", "get_stats_today",
   "get_plugin_daily_count", "plugin_once_exists", "get_plugin_kv"}

Reads == {"get_existing_post_ids", "get_last_synced_post_number",
          "get_last_read_post_number", "get_sent_notification_ids", "get_stats_total",
          "get_stats_today", "get_plugin_daily_count", "plugin_once_exists",
          "get_plugin_kv"}
IsRead(c) == c.op \in Reads

\* What the flows and plugins pass.  A call with an empty list, or for a topic
\* without an id, returns at once and is left out.
WellFormed(c) ==
  /\ c.op \in Operations
  /\ c.op \in {"upsert_topic_detail", "insert_posts", "upsert_topic_crawl_state",
              "update_last_read_post_number"} => c.topic \in Topics
  /\ c.op = "upsert_topic_detail" => c.version \in Versions
  /\ c.op = "insert_posts" => c.ids \in Seq(PostIds) \ {<<>>}
  /\ c.op = "mark_notifications_sent" => c.ids \in Seq(NoteIds) \ {<<>>}
  /\ c.op \in {"begin_watch_cycle", "finish_watch_cycle"} => c.id \in CycleIds
  /\ c.op \in {"inc_stat", "inc_plugin_daily_count"} => c.day \in Days /\ c.by \in Nat

\* What a call asks for, carried out whole: the reference the statements of
\* the backends are held against.
Raise(db, table, key, by) ==
  [db EXCEPT ![table][key] = IF @ = Absent THEN by ELSE @ + by]

Effect(c, db) ==
  CASE c.op = "upsert_topic_detail" ->
         [db EXCEPT !["topics"][c.topic] = c.version, !["last_read"][c.topic] = c.read,
                    !["topic_snapshots"][c.topic] = c.version]
    [] c.op = "insert_posts" ->
         [db EXCEPT !["posts"] = [p \in PostIds |-> IF p \in Range(c.ids) THEN c.topic ELSE @[p]]]
    [] c.op = "upsert_topic_crawl_state" ->
         [db EXCEPT !["topic_crawl_state"][c.topic] = c.number]
    [] c.op = "update_last_read_post_number" ->
         [db EXCEPT !["last_read"][c.topic] = c.number,
                    !["topics"][c.topic] = IF @ = Absent THEN Blank ELSE @]
    [] c.op = "begin_watch_cycle" -> [db EXCEPT !["watch_cycles"][c.id] = Open]
    [] c.op = "finish_watch_cycle" ->
         [db EXCEPT !["watch_cycles"][c.id] = IF @ = Absent THEN @ ELSE c.outcome]
    [] c.op = "mark_notifications_sent" ->
         [db EXCEPT !["notification_dedupe"] =
                      [n \in NoteIds |-> IF n \in Range(c.ids) THEN 0 ELSE @[n]]]
    [] c.op = "inc_stat" ->
         Raise(Raise(db, "stats_total", 1, c.by), "stats_daily", c.day, c.by)
    [] c.op = "inc_plugin_daily_count" -> Raise(db, "plugin_daily_counters", c.day, c.by)
    [] c.op = "mark_plugin_once" -> [db EXCEPT !["plugin_once_marks"][1] = 0]
    [] c.op = "set_plugin_kv" -> [db EXCEPT !["plugin_kv"][1] = c.value]
    [] c.op = "log_plugin_action" -> Raise(db, "plugin_action_logs", 1, 1)
    [] OTHER -> db

Number(old) == IF old = Absent THEN 0 ELSE old

\* What a read returns, as a set; a write returns nothing.  A row that is not
\* there counts as 0.
Reply(c, db) ==
  CASE c.op = "get_existing_post_ids" -> {p \in Range(c.ids) : db["posts"][p] = c.topic}
    [] c.op = "get_sent_notification_ids" ->
         {n \in Range(c.ids) : db["notification_dedupe"][n] # Absent}
    [] c.op = "get_last_synced_post_number" -> {Number(db["topic_crawl_state"][c.topic])}
    [] c.op = "get_last_read_post_number" -> {Number(db["last_read"][c.topic])}
    [] c.op = "get_stats_total" -> {Number(db["stats_total"][1])}
    [] c.op = "get_stats_today" -> {Number(db["stats_daily"][c.day])}
    [] c.op = "get_plugin_daily_count" -> {Number(db["plugin_daily_counters"][c.day])}
    [] c.op = "plugin_once_exists" -> IF db["plugin_once_marks"][1] = Absent THEN {} ELSE {1}
    [] c.op = "get_plugin_kv" -> {db["plugin_kv"][1]} \ {Absent}
    [] OTHER -> {}

\* The key of the last snapshot of a topic is that of its row.
SnapshotsAgree(db) ==
  \A t \in Topics :
    db["topics"][t] \in Versions => db["topic_snapshots"][t] = db["topics"][t]

\* A sum over the days, by its partial sums.
AddsUpTo(amount, total) ==
  \E sum \in [0..LastDay -> 0..total] :
    /\ sum[0] = 0 /\ sum[LastDay] = total
    /\ \A d \in Days : sum[d] = sum[d - 1] + amount[d]

\* The total is the sum of the days, and has a row when a day has one.
StatsAgree(db) ==
  /\ AddsUpTo([d \in Days |-> Number(db["stats_daily"][d])], Number(db["stats_total"][1]))
  /\ db["stats_total"][1] = Absent <=> \A d \in Days : db["stats_daily"][d] = Absent
==============================================================================
