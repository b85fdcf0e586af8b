--------------------------- MODULE StoreConnection ---------------------------
(***************************************************************************)
(* What both storage backends have: one connection that the threads of a   *)
(* process share, the tables that are committed, what the transaction of   *)
(* the connection sees of them, and where each thread is in its call.      *)
(***************************************************************************)
EXTENDS StoreTables

CONSTANTS
  Threads,     \* the watch thread, threads of hooks, HTTP handlers
  MaxCalls     \* bound: calls begun

VARIABLES
  disk,     \* the committed tables
  txn,      \* the state of the connection's transaction
  work,     \* what the open transaction sees
  pc,       \* where each thread is
  call,     \* its call
  key,      \* the version of the row it has read for its snapshot
  at,       \* statements of the call executed
  answer,   \* what its last read returned
  calls     \* calls begun

NoCall == [op |-> "none"]
==============================================================================
