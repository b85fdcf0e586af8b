------------------------------- MODULE Transfer -------------------------------
(***************************************************************************)
(* The bundle of NDJSON files of storage/transfer.py and what importing it *)
(* makes of the rows of a site.  One table stands for each import mode:    *)
(* topics is upserted, topic_snapshots ignores rows that are there, and    *)
(* plugin_action_logs, which has no key, inserts rows it does not find.    *)
(*                                                                         *)
(* A store has one topic: topics is the version of its row, 0 for none;    *)
(* topic_snapshots are the versions kept; plugin_action_logs is the number *)
(* of log rows, which are all alike.                                       *)
(***************************************************************************)
EXTENDS Integers, Sequences, TLC

CONSTANTS MaxVersion, MaxLogs  \* bounds

ASSUME TransferAssumption == MaxVersion \in Nat \ {0} /\ MaxLogs \in Nat

\* The order of _TABLE_SPECS, in which files are written and read.
Tables == <<"topics", "topic_snapshots", "plugin_action_logs">>

TableNames == {Tables[i] : i \in DOMAIN Tables}

RowsOf(table) ==
  CASE table = "topics" -> 0..MaxVersion
    [] table = "topic_snapshots" -> SUBSET (1..MaxVersion)
    [] table = "plugin_action_logs" -> 0..MaxLogs

NoRows == [topics |-> 0, topic_snapshots |-> {}, plugin_action_logs |-> 0]

\* ON CONFLICT DO UPDATE
Upserted(old, new) == IF new = 0 THEN old ELSE new

\* ON CONFLICT DO NOTHING
Ignored(old, new) == old \cup new

\* Fault: rows without a key are always inserted.
Appended(old, new) == old + new

\* A row is inserted unless one like it is there, which the second of two like
\* rows of the bundle finds.
Deduped(old, new) == IF old = 0 /\ new > 0 THEN 1 ELSE old

Imported(table, old, new) ==
  CASE table = "topics" -> Upserted(old, new)
    [] table = "topic_snapshots" -> Ignored(old, new)
    [] table = "plugin_action_logs" -> Deduped(old, new)

\* The import of all of a bundle's files.
Restored(rows, files) == [t \in TableNames |-> Imported(t, rows[t], files[t])]

-----------------------------------------------------------------------------
(* The directory of a bundle *)

EmptyDir == [meta |-> FALSE, files |-> <<>>]

\* What validate_import_bundle asks for; the site and the account are right.
Valid(dir) == dir.meta /\ DOMAIN dir.files = TableNames

WithFile(dir, table, rows) ==
  [dir EXCEPT !.files = [t \in {table} \cup DOMAIN @ |-> IF t = table THEN rows ELSE @[t]]]
==============================================================================
