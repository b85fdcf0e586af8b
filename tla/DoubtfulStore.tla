---------------------------- MODULE DoubtfulStore ----------------------------
(***************************************************************************)
(* What the PostgreSQL backend keeps of the promise of storage/base.py     *)
(* while no two calls are under way at once: a write is carried out whole  *)
(* or not at all, but one that is cut off at its commit may have been      *)
(* carried out although it raises, and its caller is not told.             *)
(***************************************************************************)
EXTENDS StoreTables

CONSTANT Threads   \* threads that share the store

VARIABLES
  tables,     \* what the database holds
  calling,    \* the call each thread has under way, or NoCall
  doubtful,   \* the threads whose call was cut off at its commit
  answer      \* what the last read of each thread returned

NoCall == [op |-> "none"]

vars == <<tables, calling, doubtful, answer>>

\* A watch cycle that is there keeps its end, other than with SQLite.
Outcome(c, db) ==
  IF c.op = "begin_watch_cycle" /\ db["watch_cycles"][c.id] # Absent
  THEN db ELSE Effect(c, db)

Init ==
  /\ tables = Initialized
  /\ calling = [th \in Threads |-> NoCall]
  /\ doubtful = {}
  /\ answer = [th \in Threads |-> {}]

\* Any well-formed call, which is then what calling' has for th.
Begin(th) ==
  /\ calling[th] = NoCall
  /\ WellFormed(calling'[th])
  /\ calling' = [calling EXCEPT ![th] = calling'[th]]
  /\ UNCHANGED <<tables, doubtful, answer>>

Return(th) ==
  /\ calling[th] # NoCall
  /\ calling' = [calling EXCEPT ![th] = NoCall]

Read(th) ==
  /\ Return(th)
  /\ IsRead(calling[th])
  /\ answer' = [answer EXCEPT ![th] = Reply(calling[th], tables)]
  /\ UNCHANGED <<tables, doubtful>>

Write(th) ==
  /\ Return(th)
  /\ ~IsRead(calling[th]) /\ th \notin doubtful
  /\ tables' = Outcome(calling[th], tables)
  /\ UNCHANGED <<doubtful, answer>>

\* The connection is lost, before or after the commit.
CutOff(th) ==
  /\ calling[th] # NoCall /\ th \notin doubtful
  /\ tables' \in {tables, Outcome(calling[th], tables)}
  /\ doubtful' = doubtful \cup {th}
  /\ UNCHANGED <<calling, answer>>

Fail(th) ==
  /\ Return(th)
  /\ doubtful' = doubtful \ {th}
  /\ UNCHANGED <<tables, answer>>

\* The process dies and is started again.
Restart ==
  /\ calling' = [th \in Threads |-> NoCall]
  /\ doubtful' = {}
  /\ UNCHANGED <<tables, answer>>

Next ==
  \/ \E th \in Threads : Begin(th) \/ Read(th) \/ Write(th) \/ CutOff(th) \/ Fail(th)
  \/ Restart

Spec == Init /\ [][Next]_vars
==============================================================================
