------------------------------- MODULE Commands -------------------------------
(***************************************************************************)
(* The commands of one account, each a process of its own: what they share *)
(* are the crawl lock of the site (runtime/crawl_lock.py), the store, the  *)
(* directory of an export and the runtime state file.  run and watch are   *)
(* "watch"; daily, like and reply are "act".  Crawling is enabled and the  *)
(* backend is SQLite.  What a crawl does is CrawlSync's; here it stores a  *)
(* version of a topic or a log row now and then.                           *)
(***************************************************************************)
EXTENDS AuthFile, Transfer

CONSTANTS
  Nobody,      \* no process
  Budgets      \* bounds, one of which holds in a behavior: the commands used
               \* and how many are started, versions stored, saves begun, cookies
               \* given out, and mishaps (crashes, failures, spoiled files)

CommandNames == {"watch", "serve", "act", "export", "import"}

Allowances ==
  [commands : SUBSET CommandNames, starts : Nat, versions : 0..MaxVersion,
   saves : Nat, cookies : Nat, mishaps : Nat]

ASSUME CommandsAssumption == Nobody \notin Proc /\ Budgets \subseteq Allowances

VARIABLES
  lock,      \* holder of <site>.crawl.lock
  exists,    \* the database file is there
  rows,      \* what is committed in it
  dir,       \* the directory of exports and imports
  file,      \* the state file
  fileLock,  \* holder of its lock file
  cmd,       \* command of a process
  pc,        \* "idle", "lock", "open", "undo", "undone", "failed", "work",
             \* "read", "table", "meta", "commit", "replace",
             \* "close", "release", "exit"
  auth,      \* app_config["auth"] of a process
  session,   \* the cookie its client sends
  save,      \* the save it is carrying out
  copy,      \* rows of its transaction, and whether they go to a new file
  next,      \* the table an export or import is at
  left,      \* what is left of the budget
  latest,    \* history: what the last save about a path set it to
  removed,   \* history: paths that a process whose environment sets them has
             \* taken out of the file, and no save has set since
  mixed      \* history: an export into an older one did not end

stored == <<lock, exists, rows>>
state == <<file, fileLock, latest, removed>>
mine == <<auth, session, save>>
transfer == <<dir, copy, next, mixed>>
vars == <<stored, state, cmd, pc, mine, transfer, left>>

NoSave == [kind |-> "none"]
NoCopy == [rows |-> NoRows, fresh |-> FALSE]
Spend(what) == left[what] > 0 /\ left' = [left EXCEPT ![what] = @ - 1]
Mishap == Spend("mishaps")
At(p, place) == pc' = [pc EXCEPT ![p] = place]

\* A bundle from another machine, which is ahead of this one.
Brought ==
  [meta |-> TRUE,
   files |-> [topics |-> MaxVersion, topic_snapshots |-> {MaxVersion},
              plugin_action_logs |-> MaxLogs]]

Init ==
  /\ left \in Budgets
  /\ lock = Nobody
  /\ exists = FALSE /\ rows = NoRows
  /\ dir \in {EmptyDir} \cup {Brought : c \in left.commands \cap {"import"}}
  /\ file = NoFields /\ fileLock = Nobody
  /\ latest = NoFields /\ removed = {}
  /\ cmd = [p \in Proc |-> "watch"]
  /\ pc = [p \in Proc |-> "idle"]
  /\ auth = [p \in Proc |-> AppConfig]
  /\ session = [p \in Proc |-> AppCookie]
  /\ save = [p \in Proc |-> NoSave]
  /\ copy = [p \in Proc |-> NoCopy]
  /\ next = [p \in Proc |-> 1]
  /\ mixed = FALSE

-----------------------------------------------------------------------------
(* The state file *)

\* What a save changes in memory before it writes, and thereby the paths it
\* writes.
Change(kind, cookie) ==
  CASE kind = "ok" -> [last_ok |-> TRUE]
    [] kind = "fail" -> [last_error |-> TRUE]
    [] kind = "disable" -> [last_error |-> TRUE, disabled |-> TRUE]
    [] kind = "enable" -> [disabled |-> FALSE]
    [] kind = "cookie" -> [cookie |-> cookie]
    [] kind = "recover" -> [cookie |-> cookie, disabled |-> FALSE, last_error |-> FALSE]

\* Both locks are taken, then the file is read.
BeginSave(p, kind, cookie) ==
  LET change == Change(kind, cookie)
  IN /\ save[p] = NoSave /\ fileLock = Nobody
     /\ auth' = [auth EXCEPT ![p] = Over(change, @)]
     /\ save' = [save EXCEPT ![p] = [kind |-> kind, updated |-> DOMAIN change,
                                     old |-> auth[p], base |-> file]]
     /\ fileLock' = p
     /\ UNCHANGED <<file, latest, removed, session>>

\* A temporary file replaces the old one.
EndSave(p) ==
  LET s == save[p]
      named == (IF file = NoFields THEN Managed ELSE s.updated) \ Overridden(p)
  IN /\ s # NoSave
     /\ file' = Payload(p, s.base, s.updated, auth[p])
     /\ latest' = Over(Kept(auth[p], named), latest)
     /\ removed' = (removed \ named) \cup Overridden(p)
     /\ fileLock' = Nobody
     /\ save' = [save EXCEPT ![p] = NoSave]
     /\ session' = IF s.kind = "recover" THEN [session EXCEPT ![p] = auth[p]["cookie"]]
                   ELSE session
     /\ UNCHANGED <<stored, cmd, pc, auth, transfer, left>>

\* mark_account_ok and mark_account_fail do not take back what they changed.
SaveFails(p) ==
  LET s == save[p]
  IN /\ s # NoSave
     /\ Mishap
     /\ auth' = IF s.kind \in {"ok", "fail", "disable"} THEN auth
                ELSE [auth EXCEPT ![p] = s.old]
     /\ fileLock' = Nobody
     /\ save' = [save EXCEPT ![p] = NoSave]
     /\ UNCHANGED <<stored, file, latest, removed, cmd, pc, session, transfer>>

KindsOf(command) ==
  CASE command = "watch" -> {"ok"}
    [] command = "act" -> {"ok"}
    [] command = "serve" -> {"ok", "fail", "disable", "enable"}
    [] OTHER -> {}

\* The watch thread of serve goes on when wait_until_stopped gives up.
Works(p) == pc[p] = "work" \/ (cmd[p] = "serve" /\ pc[p] = "close")

\* mark_account_ok; of serve also mark_account_fail and set_account_disabled,
\* which writes only what is not so already.
Mark(p) ==
  /\ Works(p)
  /\ \E kind \in KindsOf(cmd[p]) :
       /\ kind = "enable" => auth[p]["disabled"]
       /\ BeginSave(p, kind, session[p])
  /\ Spend("saves")
  /\ UNCHANGED <<stored, cmd, pc, transfer>>

\* save_cookies, and the requester's callback.
SaveCookie(p) ==
  /\ pc[p] \in {"work", "close"} /\ cmd[p] \in {"watch", "serve", "act"}
  /\ session[p] # auth[p]["cookie"]
  /\ BeginSave(p, "cookie", session[p])
  /\ Spend("saves")
  /\ UNCHANGED <<stored, cmd, pc, transfer>>

\* POST /auth/cookie
Recover(p) ==
  /\ pc[p] = "work" /\ cmd[p] = "serve"
  /\ left.cookies > 0 /\ left.saves > 0
  /\ left' = [left EXCEPT !.cookies = @ - 1, !.saves = @ - 1]
  /\ BeginSave(p, "recover", left.cookies)
  /\ UNCHANGED <<stored, cmd, pc, transfer>>

-----------------------------------------------------------------------------
(* The life of a command *)

\* The configuration is read.  export needs a database before it takes the
\* lock, import looks at the bundle first.
Start(p, command) ==
  /\ pc[p] = "idle"
  /\ Spend("starts")
  /\ cmd' = [cmd EXCEPT ![p] = command]
  /\ auth' = [auth EXCEPT ![p] = Loaded(p, file)]
  /\ session' = [session EXCEPT ![p] = Loaded(p, file)["cookie"]]
  /\ At(p, CASE command = "act" -> "open"
             [] command = "export" -> IF exists THEN "lock" ELSE "exit"
             [] command = "import" -> IF Valid(dir) THEN "lock" ELSE "exit"
             [] OTHER -> "lock")
  /\ UNCHANGED <<stored, state, save, transfer>>

Serves(p) == cmd[p] \in {"watch", "serve"}

TakeLock(p) ==
  /\ pc[p] = "lock"
  /\ lock = Nobody
  /\ lock' = p
  /\ At(p, CASE Serves(p) -> "open" [] OTHER -> "read")
  /\ UNCHANGED <<exists, rows, state, cmd, mine, transfer, left>>

\* The lock is another's.
FindLocked(p) ==
  /\ pc[p] = "lock"
  /\ lock # Nobody
  /\ At(p, IF Serves(p) THEN "failed" ELSE "exit")
  /\ UNCHANGED <<stored, state, cmd, mine, transfer, left>>

\* open_store and build_client, which refuses a disabled account: then what
\* was built has to be closed.
Open(p) ==
  /\ pc[p] = "open"
  /\ exists' = (exists \/ Serves(p))
  /\ At(p, IF ~auth[p]["disabled"] THEN "work"
           ELSE IF Serves(p) THEN "undo" ELSE "failed")
  /\ UNCHANGED <<lock, rows, state, cmd, mine, transfer, left>>

\* What kept the services from being built is recorded when they are closed.
RecordFailure(p) ==
  /\ pc[p] = "failed"
  /\ BeginSave(p, "fail", session[p])
  /\ At(p, "exit")
  /\ UNCHANGED <<stored, cmd, transfer, left>>

\* The command is done, was interrupted, or ends with an error; the error of a
\* login disables the account.
Finish(p) ==
  /\ pc[p] = "work" /\ save[p] = NoSave
  /\ \/ UNCHANGED <<state, mine, left>>
     \/ /\ \E kind \in {"fail", "disable"} : BeginSave(p, kind, session[p])
        /\ Spend("saves")
  /\ At(p, "close")
  /\ UNCHANGED <<stored, cmd, transfer>>

\* Fault: the lock is released first.
CloseStoreLast(p) ==
  /\ save[p] = NoSave
  /\ pc[p] \in {"close", "undo"}
  /\ lock' = (IF lock = p THEN Nobody ELSE lock)
  /\ IF lock = p THEN UNCHANGED pc ELSE At(p, IF pc[p] = "undo" THEN "undone" ELSE "release")
  /\ UNCHANGED <<exists, rows, state, cmd, mine, transfer, left>>

\* RuntimeServices.close, the clean-up of build_services, or the end of a
\* transfer: the store is closed, then the lock is released.
CloseStore(p) ==
  /\ save[p] = NoSave
  /\ \/ pc[p] = "close" /\ At(p, "release")
     \/ pc[p] = "undo" /\ At(p, "undone")
  /\ UNCHANGED <<stored, state, cmd, mine, transfer, left>>

Release(p) ==
  /\ \/ pc[p] = "release" /\ At(p, "exit")
     \/ pc[p] = "undone" /\ At(p, "failed")
  /\ lock' = (IF lock = p THEN Nobody ELSE lock)
  /\ UNCHANGED <<exists, rows, state, cmd, mine, transfer, left>>

\* Nothing is left of a process, and of its daemon threads.
Gone(p) ==
  /\ At(p, "idle")
  /\ cmd' = [cmd EXCEPT ![p] = "watch"]
  /\ auth' = [auth EXCEPT ![p] = AppConfig]
  /\ session' = [session EXCEPT ![p] = AppCookie]
  /\ save' = [save EXCEPT ![p] = NoSave]
  /\ copy' = [copy EXCEPT ![p] = NoCopy]
  /\ next' = [next EXCEPT ![p] = 1]

Exit(p) ==
  /\ pc[p] = "exit" /\ save[p] = NoSave
  /\ Gone(p)
  /\ UNCHANGED <<stored, state, dir, mixed, left>>

\* The system frees the locks of a process that dies, and its transaction is
\* rolled back.
Crash(p) ==
  /\ pc[p] # "idle"
  /\ Mishap
  /\ lock' = (IF lock = p THEN Nobody ELSE lock)
  /\ fileLock' = (IF fileLock = p THEN Nobody ELSE fileLock)
  /\ Gone(p)
  /\ UNCHANGED <<exists, rows, file, latest, removed, dir, mixed>>

\* The operator removes the state file or makes it unreadable, no command being
\* about to replace it.
Spoil ==
  /\ file # NoFields /\ fileLock = Nobody
  /\ Mishap
  /\ file' = NoFields /\ latest' = NoFields /\ removed' = {}
  /\ UNCHANGED <<stored, fileLock, cmd, pc, mine, transfer>>

\* The site gives the client a new cookie.
Rotate(p) ==
  /\ pc[p] = "work" /\ save[p] = NoSave
  /\ Spend("cookies")
  /\ session' = [session EXCEPT ![p] = left.cookies]
  /\ UNCHANGED <<stored, state, cmd, pc, auth, save, transfer>>

-----------------------------------------------------------------------------
(* The store *)

\* The BEGIN IMMEDIATE of an import keeps other writers out of the database.
Writable == \A p \in Proc :
  ~(cmd[p] = "import" /\ pc[p] \in {"table", "commit"} /\ ~copy[p].fresh)

\* upsert_topic_detail of a new version, or log_plugin_action; in a store that
\* is closed they raise
Crawl(p) ==
  /\ Serves(p) /\ Works(p)
  /\ exists /\ Writable
  /\ \/ /\ Spend("versions")
        /\ LET v == left.versions
           IN rows' = [rows EXCEPT !.topics = v, !.topic_snapshots = @ \cup {v}]
     \/ /\ rows.plugin_action_logs < MaxLogs /\ left.versions > 0
        /\ rows' = [rows EXCEPT !.plugin_action_logs = @ + 1]
        /\ UNCHANGED left
  /\ UNCHANGED <<lock, exists, state, cmd, pc, mine, transfer>>

Last(p) == next[p] = Len(Tables)
Table(p) == Tables[next[p]]

\* export reads in one transaction; import looks at the bundle again, and makes
\* a new database beside the place of one that is missing.
BeginTransfer(p) ==
  /\ pc[p] = "read"
  /\ copy' = [copy EXCEPT ![p] = [rows |-> IF exists THEN rows ELSE NoRows, fresh |-> ~exists]]
  /\ next' = [next EXCEPT ![p] = 1]
  /\ At(p, IF cmd[p] = "import" /\ ~Valid(dir) THEN "release" ELSE "table")
  /\ UNCHANGED <<stored, state, cmd, mine, dir, mixed, left>>

Step(p, after) ==
  IF Last(p) THEN At(p, after) /\ UNCHANGED next
  ELSE next' = [next EXCEPT ![p] = @ + 1] /\ UNCHANGED pc

\* The file meta.json of an older export stays until a new one is written, when
\* the connection has been closed.
ExportTable(p) ==
  /\ pc[p] = "table" /\ cmd[p] = "export"
  /\ dir' = WithFile(dir, Table(p), copy[p].rows[Table(p)])
  /\ mixed' = (mixed \/ dir.meta)
  /\ Step(p, "meta")
  /\ UNCHANGED <<stored, state, cmd, mine, copy, left>>

ExportMeta(p) ==
  /\ pc[p] = "meta"
  /\ dir' = [dir EXCEPT !.meta = TRUE]
  /\ mixed' = FALSE
  /\ At(p, "release")
  /\ UNCHANGED <<stored, state, cmd, mine, copy, next, left>>

\* Fault: each table is committed.
ImportTableAlone(p) ==
  /\ pc[p] = "table" /\ cmd[p] = "import"
  /\ LET t == Table(p)
     IN /\ copy' = [copy EXCEPT ![p].rows[t] = Imported(t, @, dir.files[t])]
        /\ rows' = IF exists THEN [rows EXCEPT ![t] = Imported(t, @, dir.files[t])] ELSE rows
  /\ Step(p, "commit")
  /\ UNCHANGED <<lock, exists, state, cmd, mine, dir, mixed, left>>

ImportTable(p) ==
  /\ pc[p] = "table" /\ cmd[p] = "import"
  /\ LET t == Table(p)
     IN copy' = [copy EXCEPT ![p].rows[t] = Imported(t, @, dir.files[t])]
  /\ Step(p, "commit")
  /\ UNCHANGED <<stored, state, cmd, mine, dir, mixed, left>>

ImportCommit(p) ==
  /\ pc[p] = "commit"
  /\ IF copy[p].fresh THEN At(p, "replace") /\ UNCHANGED rows
     ELSE /\ rows' = copy[p].rows
          /\ At(p, "close")
  /\ UNCHANGED <<lock, exists, state, cmd, mine, dir, copy, next, mixed, left>>

\* The new database, closed by now, takes its place.
ImportReplace(p) ==
  /\ pc[p] = "replace"
  /\ exists' = TRUE /\ rows' = copy[p].rows
  /\ At(p, "release")
  /\ UNCHANGED <<lock, state, cmd, mine, dir, copy, next, mixed, left>>

\* A file cannot be written, or a row not be imported: the transaction is
\* rolled back.
TransferFails(p) ==
  /\ pc[p] \in {"table", "meta"}
  /\ Mishap
  /\ At(p, IF pc[p] = "meta" THEN "release" ELSE "close")
  /\ UNCHANGED <<stored, state, cmd, mine, transfer>>

ProcessStep(p) ==
  \/ \E command \in left.commands : Start(p, command)
  \/ TakeLock(p) \/ FindLocked(p) \/ Open(p) \/ RecordFailure(p) \/ Finish(p)
  \/ CloseStore(p) \/ Release(p) \/ Exit(p)
  \/ Crash(p) \/ Rotate(p) \/ Crawl(p)
  \/ Mark(p) \/ SaveCookie(p) \/ Recover(p) \/ EndSave(p) \/ SaveFails(p)
  \/ BeginTransfer(p) \/ ExportTable(p) \/ ExportMeta(p)
  \/ ImportTable(p) \/ ImportCommit(p) \/ ImportReplace(p) \/ TransferFails(p)

Next == Spoil \/ \E p \in Proc : ProcessStep(p)

Spec == Init /\ [][Next]_vars

-----------------------------------------------------------------------------
(* Properties *)

Places ==
  {"idle", "lock", "open", "undo", "undone", "failed", "work", "read", "table",
   "meta", "commit", "replace", "close", "release", "exit"}

Kinds == {"ok", "fail", "disable", "enable", "cookie", "recover"}

StoreRows ==
  [topics : RowsOf("topics"), topic_snapshots : RowsOf("topic_snapshots"),
   plugin_action_logs : RowsOf("plugin_action_logs")]

\* What a file or a process has of the managed paths: a cookie and flags.
FieldsTyped(f) ==
  /\ DOMAIN f \subseteq Managed
  /\ "cookie" \in DOMAIN f => f["cookie"] \in Int
  /\ \A x \in DOMAIN f \ {"cookie"} : f[x] \in BOOLEAN

\* Type invariant.
TypeOK ==
  /\ {lock, fileLock} \subseteq Proc \cup {Nobody}
  /\ exists \in BOOLEAN /\ mixed \in BOOLEAN
  /\ rows \in StoreRows
  /\ DOMAIN dir = {"meta", "files"} /\ dir.meta \in BOOLEAN
  /\ DOMAIN dir.files \subseteq TableNames
  /\ \A t \in DOMAIN dir.files : dir.files[t] \in RowsOf(t)
  /\ FieldsTyped(file) /\ FieldsTyped(latest) /\ removed \subseteq Managed
  /\ cmd \in [Proc -> CommandNames]
  /\ pc \in [Proc -> Places]
  /\ \A p \in Proc : FieldsTyped(auth[p]) /\ DOMAIN auth[p] = Managed
  /\ session \in [Proc -> Int]
  /\ \A p \in Proc : save[p] # NoSave =>
       /\ save[p].kind \in Kinds /\ save[p].updated \subseteq Managed
       /\ FieldsTyped(save[p].old) /\ FieldsTyped(save[p].base)
  /\ copy \in [Proc -> [rows : StoreRows, fresh : BOOLEAN]]
  /\ next \in [Proc -> DOMAIN Tables]
  /\ left \in Allowances

\* Its connection is open, or it is about to replace the file.
UsesStore(p) ==
  \/ Serves(p) /\ pc[p] \in {"work", "close", "undo"}
  \/ cmd[p] \in {"export", "import"} /\ pc[p] \in {"table", "commit", "replace", "close"}

\* Of all processes that crawl, export or import, one at a time has the store
\* open, and it holds the crawl lock: also while the services of a serve whose
\* watch thread is still writing, or of a command that was refused, are closed
\* (crawl_lock.py 47-82, factory.py 42-51 and 79-125, README.md:38).
StoreAlone ==
  /\ \A p \in Proc : UsesStore(p) => lock = p
  /\ \A p, q \in Proc : UsesStore(p) /\ UsesStore(q) => p = q

\* In the store, and in a bundle an import accepts, the current row of a topic
\* has its snapshot, whatever crashes, failures and transfers came before
\* (sqlite_store.py 465-558, transfer.py 219-349) - unless an interrupted
\* export left a bundle with files of two exports.
SnapshotWithTopic ==
  /\ rows.topics > 0 => rows.topics \in rows.topic_snapshots
  /\ Valid(dir) /\ dir.files["topics"] > 0 /\ ~mixed
       => dir.files["topics"] \in dir.files["topic_snapshots"]

\* Importing a bundle a second time changes nothing (docs/cli.md:127).
ImportConverges ==
  Valid(dir) => LET once == Restored(rows, dir.files)
                IN Restored(once, dir.files) = once

\* The state file holds, path by path, what the last save that was about the
\* path set it to, whichever process made it: no save undoes another's with
\* what it remembers or read before - except that a save of a process whose
\* environment sets a path takes the path out, whoever saved it, and so it stays
\* till a save sets it again (state.py 147-191).
NoSaveLost == file = Kept(latest, Managed \ removed)
==============================================================================
