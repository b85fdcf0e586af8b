---------------------------- MODULE LeftoverStore ----------------------------
(***************************************************************************)
(* What the SQLite backend keeps of the promise of storage/base.py.  A     *)
(* write that returns is carried out whole, at once and for good.  One     *)
(* that raises has committed nothing, but may leave its first rows or      *)
(* statements to the connection: every call of the process sees them from  *)
(* then on, the next write that returns commits them, and the end of the   *)
(* process drops them.                                                     *)
(***************************************************************************)
EXTENDS StoreTables

CONSTANT Threads   \* threads that share the store

VARIABLES
  tables,    \* what the database holds
  seen,      \* what the calls of this process find
  calling,   \* the call each thread has under way, or NoCall
  result,    \* how the last one of each thread ended: "ok", "raised" or "none"
  answer     \* and what it returned

NoCall == [op |-> "none"]

vars == <<tables, seen, calling, result, answer>>

\* The row of a topic without its snapshot.
RowOnly(c, db) == [Effect(c, db) EXCEPT !["topic_snapshots"] = db["topic_snapshots"]]

\* A snapshot is taken when the row that is found has another version.
Carried(c, db) ==
  IF c.op = "upsert_topic_detail" /\ db["topics"][c.topic] = c.version
  THEN RowOnly(c, db) ELSE Effect(c, db)

\* A row that is made before it is added to.
Made(db, table, row) == [db EXCEPT ![table][row] = Number(@)]

\* What may be left of a write that raises.
Left(c, db) ==
  CASE c.op = "upsert_topic_detail" ->
         IF db["topics"][c.topic] = c.version THEN {} ELSE {RowOnly(c, db)}
    [] c.op = "insert_posts" ->
         {Effect([op |-> c.op, topic |-> c.topic, ids |-> SubSeq(c.ids, 1, n)], db) :
            n \in 1..(Len(c.ids) - 1)}
    [] c.op = "mark_notifications_sent" ->
         {Effect([op |-> c.op, ids |-> SubSeq(c.ids, 1, n)], db) :
            n \in 1..(Len(c.ids) - 1)}
    [] c.op = "inc_stat" ->
         LET total == Raise(db, "stats_total", 1, c.by)
         IN  {Made(db, "stats_total", 1), total, Made(total, "stats_daily", c.day)}
    [] OTHER -> {}

-----------------------------------------------------------------------------

Init ==
  /\ tables = Initialized
  /\ seen = Initialized
  /\ calling = [th \in Threads |-> NoCall]
  /\ result = [th \in Threads |-> "none"]
  /\ answer = [th \in Threads |-> {}]

\* Any well-formed call, which is then what calling' has for th.
Begin(th) ==
  /\ calling[th] = NoCall
  /\ WellFormed(calling'[th])
  /\ calling' = [calling EXCEPT ![th] = calling'[th]]
  /\ UNCHANGED <<tables, seen, result, answer>>

Return(th, how) ==
  /\ calling[th] # NoCall
  /\ calling' = [calling EXCEPT ![th] = NoCall]
  /\ result' = [result EXCEPT ![th] = how]

Read(th) ==
  /\ Return(th, "ok")
  /\ IsRead(calling[th])
  /\ answer' = [answer EXCEPT ![th] = Reply(calling[th], seen)]
  /\ UNCHANGED <<tables, seen>>

Write(th) ==
  /\ Return(th, "ok")
  /\ ~IsRead(calling[th])
  /\ seen' = Carried(calling[th], seen)
  /\ tables' = seen'
  /\ answer' = [answer EXCEPT ![th] = {}]

Raised(th) ==
  /\ Return(th, "raised")
  /\ seen' \in {seen} \cup Left(calling[th], seen)
  /\ UNCHANGED <<tables, answer>>

\* The process ends and is started again.
Restart ==
  /\ seen' = tables
  /\ calling' = [th \in Threads |-> NoCall]
  /\ result' = [th \in Threads |-> "none"]
  /\ UNCHANGED <<tables, answer>>

Next ==
  \/ \E th \in Threads : Begin(th) \/ Read(th) \/ Write(th) \/ Raised(th)
  \/ Restart

Spec == Init /\ [][Next]_vars
==============================================================================
