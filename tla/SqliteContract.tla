---------------------------- MODULE SqliteContract ----------------------------
(***************************************************************************)
(* The state of SqliteStore beyond that of StoreConnection, and what is    *)
(* asked of it.                                                            *)
(***************************************************************************)
EXTENDS StoreConnection

VARIABLES
  stale,    \* another connection has committed since this one read
  other,    \* the other process holds the write lock
  lock,     \* holder of the RLock, or "free"
  tries,    \* attempts of each thread's call that were refused
  result,   \* "ok", "raised" or "none"
  raised,   \* history: a call has raised in this process since the last commit
  settled   \* history: disk, and what calls that raised have left to be committed

\* A write that returns has been carried out once and whole, whatever was refused
\* and tried again in between, and a read sees nothing that another thread has
\* under way; one that raises has committed nothing, and what it leaves in the
\* open transaction is a first part of it, which goes to the database with the
\* next write that returns and not otherwise (367-378).
Store == INSTANCE LeftoverStore WITH tables <- disk, seen <- settled, calling <- call
Implements == Store!Spec

\* Between two calls no transaction is open, so that reads are current and other
\* processes can write, unless a call has raised since the last commit.
ClosedBetweenCalls == lock = "free" /\ ~raised => txn = "none"
==============================================================================
