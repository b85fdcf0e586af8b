------------------------------- MODULE AuthFile -------------------------------
(***************************************************************************)
(* The runtime state file of runtime/state.py and utils/config.py: the     *)
(* paths under "auth" that the program manages, how a command starts from  *)
(* them, and what a save makes of the file.  last_fail is left out: it is  *)
(* set together with last_error.                                           *)
(*                                                                         *)
(* The fields of a file, and those a process has in memory, are a function *)
(* whose domain is the set of the paths that are there.  A file that is    *)
(* missing, that cannot be parsed or has no object "auth" has none.  Of    *)
(* last_ok and last_error counts whether there is a time or a text.        *)
(***************************************************************************)
EXTENDS Integers

CONSTANTS
  Proc,        \* processes of one account
  EnvCookie    \* those with DISCORSAIR_AUTH_COOKIE in their environment

ASSUME AuthAssumption == EnvCookie \subseteq Proc

Managed == {"cookie", "disabled", "last_ok", "last_error"}

NoFields == <<>>

\* The fields of f, and those of g that f does not have.
Over(f, g) ==
  [x \in DOMAIN f \cup DOMAIN g |-> IF x \in DOMAIN f THEN f[x] ELSE g[x]]

\* The operator's app.json holds a cookie and disables nothing.
AppCookie == 0
EnvironmentCookie == -1
AppConfig ==
  [cookie |-> AppCookie, disabled |-> FALSE, last_ok |-> FALSE, last_error |-> FALSE]

Kept(fields, paths) == [f \in DOMAIN fields \cap paths |-> fields[f]]

Overridden(p) == IF p \in EnvCookie THEN {"cookie"} ELSE {}

\* apply_runtime_state, then the environment.
Loaded(p, file) ==
  Over([f \in Overridden(p) |-> EnvironmentCookie], Over(file, AppConfig))

\* Fault: every save writes all that is in memory.
AllPaths(p, file, updated) == Managed \ Overridden(p)

\* The paths a save writes: those it was asked to, or all when the file tells
\* nothing.
PathsToWrite(p, file, updated) ==
  (IF file = NoFields THEN Managed ELSE updated) \ Overridden(p)

\* What _build_runtime_state_payload makes of the file as it was read.
Payload(p, file, updated, memory) ==
  Over(Kept(memory, PathsToWrite(p, file, updated)), Kept(file, Managed \ Overridden(p)))
==============================================================================
