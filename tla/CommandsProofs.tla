----------------------------- MODULE CommandsProofs -----------------------------
(***************************************************************************)
(* Theorems about Commands, for every value of its constants: any number   *)
(* of processes, commands, saves, cookies and mishaps.                     *)
(***************************************************************************)
EXTENDS Commands, TLAPS

\* The variables are functions on the processes.
Shape ==
  /\ DOMAIN cmd = Proc /\ DOMAIN pc = Proc
  /\ DOMAIN auth = Proc /\ DOMAIN save = Proc

\* From TakeLock to Release, a command other than act has the lock.
Holds(p) == cmd[p] # "act" /\ pc[p] \notin {"idle", "lock", "failed", "exit"}

LockInv == \A p \in Proc : Holds(p) => lock = p

\* A save that has begun holds the lock of the file, which is as it was read.
SaveInv ==
  /\ file = Kept(latest, Managed \ removed)
  /\ DOMAIN file \subseteq Managed
  /\ \A p \in Proc : DOMAIN auth[p] = Managed
  /\ \A p \in Proc : save[p] # NoSave =>
       /\ fileLock = p
       /\ save[p].base = file
       /\ save[p].updated \subseteq Managed
       /\ DOMAIN save[p].old = Managed

Inv == Shape /\ LockInv /\ SaveInv

\* The paths a save sets: all when the file tells nothing.
Named(p, f, updated) ==
  (IF f = NoFields THEN Managed ELSE updated) \ Overridden(p)

-----------------------------------------------------------------------------
(* The state file *)

LEMMA OverDomain ==
  ASSUME NEW f, NEW g
  PROVE  DOMAIN Over(f, g) = (DOMAIN f) \cup (DOMAIN g)
BY DEF Over

\* A save is about paths that the program manages.
LEMMA ChangeDomain ==
  ASSUME NEW kind \in Kinds, NEW cookie
  PROVE  DOMAIN Change(kind, cookie) \subseteq Managed
BY DEF Kinds, Change, Managed

\* A command starts with all of them.
LEMMA LoadedDomain ==
  ASSUME NEW p, NEW f, DOMAIN f \subseteq Managed
  PROVE  DOMAIN Loaded(p, f) = Managed
<1>1. DOMAIN AppConfig = Managed
  BY DEF AppConfig, Managed
<1>2. Overridden(p) \subseteq Managed
  BY DEF Overridden, Managed
<1>3. DOMAIN [g \in Overridden(p) |-> EnvironmentCookie] = Overridden(p)
  OBVIOUS
<1>4. DOMAIN Over(f, AppConfig) = Managed
  BY <1>1, OverDomain
<1> HIDE DEF Managed
<1>5. QED
  BY <1>2, <1>3, <1>4, OverDomain DEF Loaded

\* The beginning of a save, in whichever action it lies.
LEMMA BeginInv ==
  ASSUME Shape, SaveInv, NEW p \in Proc, NEW kind \in Kinds, NEW cookie,
         BeginSave(p, kind, cookie)
  PROVE  DOMAIN auth' = Proc /\ DOMAIN save' = Proc /\ SaveInv'
<1> DEFINE change == Change(kind, cookie)
<1>1. DOMAIN change \subseteq Managed
  BY ChangeDomain
<1>2. auth' = [auth EXCEPT ![p] = Over(change, auth[p])]
  BY DEF BeginSave
<1>3. save' = [save EXCEPT ![p] = [kind |-> kind, updated |-> DOMAIN change,
                                   old |-> auth[p], base |-> file]]
  BY DEF BeginSave
<1>5. \A q \in Proc : save[q] = NoSave
  BY CommandsAssumption DEF BeginSave, SaveInv
<1> HIDE DEF change
<1>4. DOMAIN Over(change, auth[p]) = Managed
  <2>1. DOMAIN Over(change, auth[p]) = (DOMAIN change) \cup (DOMAIN auth[p])
    BY OverDomain
  <2>2. DOMAIN auth[p] = Managed
    BY DEF SaveInv
  <2> HIDE DEF Managed
  <2>3. QED
    BY <1>1, <2>1, <2>2
<1>6. UNCHANGED <<file, latest, removed>> /\ fileLock' = p
  BY DEF BeginSave
<1>7. \A q \in Proc : DOMAIN auth'[q] = Managed
  BY <1>2, <1>4 DEF SaveInv, Shape
<1>8. \A q \in Proc : save'[q] # NoSave =>
        /\ q = p /\ save'[q].base = file /\ save'[q].updated \subseteq Managed
        /\ DOMAIN save'[q].old = Managed
  BY <1>1, <1>3, <1>5 DEF SaveInv, Shape
<1>9. file' = Kept(latest', Managed \ removed') /\ DOMAIN file' \subseteq Managed
  BY <1>6 DEF SaveInv
<1>10. QED
  BY <1>2, <1>3, <1>6, <1>7, <1>8, <1>9 DEF SaveInv, Shape

\* The end of a save: what it writes is what the saves have set so far and what
\* this one sets, without what it takes out.
LEMMA EndInv ==
  ASSUME Shape, SaveInv, NEW p \in Proc, EndSave(p)
  PROVE  DOMAIN auth' = Proc /\ DOMAIN save' = Proc /\ SaveInv'
<1> DEFINE named == Named(p, file, save[p].updated)
           own == Kept(auth[p], named)
           rest == Kept(file, Managed \ Overridden(p))
<1>1. /\ save[p].base = file /\ save[p].updated \subseteq Managed /\ fileLock = p
      /\ file = Kept(latest, Managed \ removed) /\ DOMAIN auth[p] = Managed
  BY DEF EndSave, SaveInv
<1>2. latest' = Over(own, latest) /\ removed' = (removed \ named) \cup Overridden(p)
  BY <1>1 DEF EndSave, Named
<1>3. file' = Over(own, rest)
  <2>1. PathsToWrite(p, file, save[p].updated) = named
    BY DEF PathsToWrite, Named
  <2> QED
    BY <1>1, <2>1 DEF EndSave, Payload
<1>4. named \subseteq Managed \ Overridden(p)
  BY <1>1 DEF Named
<1>5. /\ DOMAIN rest = (DOMAIN latest) \cap (Managed \ removed) \cap (Managed \ Overridden(p))
      /\ \A x \in DOMAIN rest : rest[x] = latest[x]
  BY <1>1 DEF Kept
<1>6. DOMAIN own = named /\ \A x \in named : own[x] = auth[p][x]
  BY <1>1, <1>4 DEF Kept
<1> HIDE DEF named, own, rest
<1>7. file' = [x \in named \cup (DOMAIN rest) |-> IF x \in named THEN auth[p][x] ELSE latest[x]]
  BY <1>3, <1>5, <1>6 DEF Over
<1>8. /\ DOMAIN latest' = named \cup (DOMAIN latest)
      /\ \A x \in DOMAIN latest' : latest'[x] = IF x \in named THEN auth[p][x] ELSE latest[x]
  BY <1>2, <1>6 DEF Over
<1>9. named \cup (DOMAIN rest) = (DOMAIN latest') \cap (Managed \ removed')
  BY <1>2, <1>4, <1>5, <1>8
<1>10. file' = Kept(latest', Managed \ removed')
  BY <1>7, <1>8, <1>9 DEF Kept
<1>11. DOMAIN file' \subseteq Managed
  BY <1>10 DEF Kept
<1>12. \A q \in Proc : save'[q] = NoSave
  BY <1>1 DEF EndSave, SaveInv, Shape
<1>13. UNCHANGED auth /\ DOMAIN save' = Proc
  BY DEF EndSave, Shape
<1>14. QED
  BY <1>10, <1>11, <1>12, <1>13 DEF SaveInv, Shape

LEMMA FailInv ==
  ASSUME Shape, SaveInv, NEW p \in Proc, SaveFails(p)
  PROVE  DOMAIN auth' = Proc /\ DOMAIN save' = Proc /\ SaveInv'
<1>1. fileLock = p /\ DOMAIN save[p].old = Managed
  BY DEF SaveFails, SaveInv
<1>2. \A q \in Proc : save'[q] = NoSave
  BY <1>1 DEF SaveFails, SaveInv, Shape
<1>3. DOMAIN auth' = Proc /\ \A q \in Proc : DOMAIN auth'[q] = Managed
  BY <1>1 DEF SaveFails, SaveInv, Shape
<1>4. QED
  BY <1>2, <1>3 DEF SaveFails, SaveInv, Shape

\* A process that ends or dies.
LEMMA GoneInv ==
  ASSUME Shape, SaveInv, NEW p \in Proc, Gone(p), UNCHANGED <<file, latest, removed>>,
         fileLock # p => fileLock' = fileLock
  PROVE  Shape' /\ SaveInv'
<1>1. DOMAIN AppConfig = Managed
  BY DEF AppConfig, Managed
<1>2. Shape'
  BY DEF Gone, At, Shape
<1>3. \A q \in Proc : save'[q] # NoSave => q # p /\ save'[q] = save[q]
  BY DEF Gone, Shape
<1>4. \A q \in Proc : DOMAIN auth'[q] = Managed
  BY <1>1 DEF Gone, Shape, SaveInv
<1>5. QED
  BY <1>2, <1>3, <1>4 DEF SaveInv

-----------------------------------------------------------------------------
(* The crawl lock *)

\* A step of one process that takes no lock from another.
LEMMA OneInv ==
  ASSUME Shape, LockInv, NEW p \in Proc,
         \A q \in Proc \ {p} : cmd'[q] = cmd[q] /\ pc'[q] = pc[q],
         \/ lock' = lock /\ (Holds(p)' => lock = p)
         \/ lock' = (IF lock = p THEN Nobody ELSE lock) /\ ~Holds(p)'
         \/ lock = Nobody /\ lock' = p
  PROVE  LockInv'
<1>1. \A q \in Proc \ {p} : Holds(q)' => lock = q
  BY DEF LockInv, Holds
<1>2. QED
  BY <1>1, CommandsAssumption DEF LockInv

\* Commands that begin, and that end.
LEMMA StartStep ==
  ASSUME Inv, NEW p \in Proc, NEW command, Start(p, command)
  PROVE  Inv'
<1> USE DEF Inv
<1>1. Shape'
  BY DEF Start, At, Shape, state
<1>2. LockInv'
  <2>1. ~Holds(p)'
    BY DEF Start, At, Shape, Holds
  <2>2. QED
    BY <2>1, OneInv DEF Start, At, Shape, stored
<1>3. SaveInv'
  <2>1. DOMAIN Loaded(p, file) = Managed
    BY LoadedDomain DEF SaveInv
  <2>2. \A q \in Proc : DOMAIN auth'[q] = Managed
    BY <2>1 DEF Start, Shape, SaveInv
  <2>3. QED
    BY <2>2 DEF Start, state, SaveInv
<1>4. QED
  BY <1>1, <1>2, <1>3

LEMMA LeaveStep ==
  ASSUME Inv, NEW p \in Proc, Exit(p) \/ Crash(p)
  PROVE  Inv'
<1> USE DEF Inv
<1>1. Gone(p) /\ UNCHANGED <<file, latest, removed>>
  BY DEF Exit, Crash, state
<1>2. fileLock # p => fileLock' = fileLock
  BY DEF Exit, Crash, state
<1>3. Shape' /\ SaveInv'
  BY <1>1, <1>2, GoneInv
<1>4. LockInv'
  <2>1. ~Holds(p)' /\ \A q \in Proc \ {p} : cmd'[q] = cmd[q] /\ pc'[q] = pc[q]
    BY <1>1 DEF Gone, At, Shape, Holds
  <2>2. \/ lock' = lock /\ (Holds(p)' => lock = p)
        \/ lock' = (IF lock = p THEN Nobody ELSE lock) /\ ~Holds(p)'
    BY <2>1 DEF Exit, Crash, stored
  <2>3. QED
    BY <2>1, <2>2, OneInv
<1>5. QED
  BY <1>3, <1>4

\* A step of a process that saves nothing.
LEMMA QuietStep ==
  ASSUME Inv, NEW p \in Proc,
         UNCHANGED <<cmd, auth, save, file, fileLock, latest, removed>>,
         DOMAIN pc' = Proc,
         \A q \in Proc \ {p} : pc'[q] = pc[q],
         \/ lock' = lock /\ (Holds(p)' => lock = p)
         \/ lock' = (IF lock = p THEN Nobody ELSE lock) /\ ~Holds(p)'
         \/ lock = Nobody /\ lock' = p
  PROVE  Inv'
<1> USE DEF Inv
<1>1. Shape'
  BY DEF Shape
<1>2. LockInv'
  BY OneInv
<1>3. SaveInv'
  BY DEF SaveInv
<1>4. QED
  BY <1>1, <1>2, <1>3

\* A step of a process that begins a save.
LEMMA BeginStep ==
  ASSUME Inv, NEW p \in Proc, NEW kind \in Kinds, NEW cookie,
         BeginSave(p, kind, cookie),
         UNCHANGED cmd, DOMAIN pc' = Proc,
         \A q \in Proc \ {p} : pc'[q] = pc[q],
         \/ lock' = lock /\ (Holds(p)' => lock = p)
         \/ lock' = (IF lock = p THEN Nobody ELSE lock) /\ ~Holds(p)'
  PROVE  Inv'
<1> USE DEF Inv
<1>1. Shape' /\ SaveInv'
  BY BeginInv DEF Shape
<1>2. LockInv'
  BY OneInv
<1>3. QED
  BY <1>1, <1>2

-----------------------------------------------------------------------------
(* Every step *)

LEMMA InitInv == Init => Inv
<1> SUFFICES ASSUME Init PROVE Inv
  OBVIOUS
<1>1. Shape
  BY DEF Init, Shape
<1>2. LockInv
  BY DEF Init, LockInv, Holds
<1>3. SaveInv
  BY DEF Init, SaveInv, Kept, NoFields, AppConfig, Managed
<1>4. QED
  BY <1>1, <1>2, <1>3 DEF Inv

LEMMA TakeStep ==
  ASSUME Inv, NEW p \in Proc, TakeLock(p)
  PROVE  Inv'
BY QuietStep DEF Inv, Shape, TakeLock, At, state, mine, transfer

\* Steps of a command that neither save nor take the lock.
LEMMA PlaceStep ==
  ASSUME Inv, NEW p \in Proc,
         FindLocked(p) \/ Open(p) \/ CloseStore(p) \/ Release(p)
  PROVE  Inv'
<1>1. UNCHANGED <<cmd, auth, save, file, fileLock, latest, removed>>
  BY DEF FindLocked, Open, CloseStore, Release, state, mine
<1>2. DOMAIN pc' = Proc /\ \A q \in Proc \ {p} : pc'[q] = pc[q]
  BY DEF Inv, Shape, FindLocked, Open, CloseStore, Release, At
<1>3. CASE FindLocked(p)
  <2>1. UNCHANGED lock /\ ~Holds(p)'
    BY <1>3 DEF Inv, Shape, FindLocked, At, stored, Holds
  <2> QED
    BY <1>1, <1>2, <2>1, QuietStep
<1>4. CASE Open(p) \/ CloseStore(p)
  <2>1. UNCHANGED lock
    BY <1>4 DEF Open, CloseStore, stored
  <2>2. Holds(p)' => Holds(p)
    BY <1>4 DEF Inv, Shape, Open, CloseStore, At, Holds
  <2> QED
    BY <1>1, <1>2, <2>1, <2>2, QuietStep DEF Inv, LockInv
<1>5. CASE Release(p)
  <2>1. lock' = (IF lock = p THEN Nobody ELSE lock) /\ ~Holds(p)'
    BY <1>5 DEF Inv, Shape, Release, At, Holds
  <2> QED
    BY <1>1, <1>2, <2>1, QuietStep
<1> QED
  BY <1>3, <1>4, <1>5

LEMMA RecordStep ==
  ASSUME Inv, NEW p \in Proc, RecordFailure(p)
  PROVE  Inv'
<1>1. /\ UNCHANGED <<lock, cmd>> /\ DOMAIN pc' = Proc
      /\ ~Holds(p)' /\ \A q \in Proc \ {p} : pc'[q] = pc[q]
  BY DEF Inv, Shape, RecordFailure, At, stored, Holds
<1> QED
  BY <1>1, BeginStep DEF RecordFailure, Kinds

LEMMA FinishStep ==
  ASSUME Inv, NEW p \in Proc, Finish(p)
  PROVE  Inv'
<1>1. /\ UNCHANGED <<lock, cmd>> /\ DOMAIN pc' = Proc
      /\ \A q \in Proc \ {p} : pc'[q] = pc[q]
  BY DEF Inv, Shape, Finish, At, stored
<1>2. Holds(p)' => lock = p
  BY DEF Inv, Shape, LockInv, Finish, At, Holds
<1>3. CASE UNCHANGED <<state, mine>>
  BY <1>1, <1>2, <1>3, QuietStep DEF Inv, Shape, state, mine
<1>4. ASSUME NEW kind \in {"fail", "disable"}, BeginSave(p, kind, session[p])
      PROVE  Inv'
  BY <1>1, <1>2, <1>4, BeginStep DEF Kinds
<1>5. QED
  BY <1>3, <1>4 DEF Finish

\* Saves while the command works or is about to close.
LEMMA SaveStep ==
  ASSUME Inv, NEW p \in Proc, Mark(p) \/ SaveCookie(p) \/ Recover(p)
  PROVE  Inv'
<1>1. UNCHANGED <<lock, cmd, pc>> /\ DOMAIN pc = Proc
  BY DEF Inv, Shape, Mark, SaveCookie, Recover, stored
<1>2. Holds(p)' => lock = p
  BY <1>1 DEF Inv, LockInv, Holds
<1>3. ASSUME NEW kind \in Kinds, NEW cookie, BeginSave(p, kind, cookie)
      PROVE  Inv'
  BY <1>1, <1>2, <1>3, BeginStep
<1>4. KindsOf(cmd[p]) \subseteq Kinds \/ ~Mark(p)
  BY DEF KindsOf, Kinds, Mark
<1>5. QED
  BY <1>3, <1>4 DEF Mark, SaveCookie, Recover, Kinds

LEMMA EndStep ==
  ASSUME Inv, NEW p \in Proc, EndSave(p) \/ SaveFails(p)
  PROVE  Inv'
<1>1. UNCHANGED <<lock, cmd, pc>>
  BY DEF EndSave, SaveFails, stored
<1>2. Shape' /\ SaveInv'
  BY <1>1, EndInv, FailInv DEF Inv, Shape
<1>3. LockInv'
  BY <1>1 DEF Inv, LockInv, Holds
<1>4. QED
  BY <1>2, <1>3 DEF Inv

\* A step of a command that neither saves nor touches the lock.
LEMMA KeepStep ==
  ASSUME Inv, NEW p \in Proc,
         UNCHANGED <<lock, cmd, auth, save, file, fileLock, latest, removed>>,
         pc[p] \notin {"idle", "lock", "failed", "exit"} \/ UNCHANGED pc,
         UNCHANGED pc \/ \E place : At(p, place)
  PROVE  Inv'
<1>1. DOMAIN pc' = Proc /\ \A q \in Proc \ {p} : pc'[q] = pc[q]
  BY DEF Inv, Shape, At
<1>2. Holds(p)' => lock = p
  BY DEF Inv, LockInv, Holds
<1>3. QED
  BY <1>1, <1>2, QuietStep DEF Inv, Shape

LEMMA TransferStep ==
  ASSUME Inv, NEW p \in Proc,
         \/ BeginTransfer(p) \/ ExportTable(p) \/ ExportMeta(p) \/ ImportTable(p)
         \/ ImportCommit(p) \/ ImportReplace(p) \/ TransferFails(p)
  PROVE  Inv'
<1>1. /\ UNCHANGED <<lock, cmd, auth, save, file, fileLock, latest, removed>>
      /\ pc[p] \in {"read", "table", "meta", "commit", "replace"}
      /\ UNCHANGED pc \/ \E place : At(p, place)
  <2>1. CASE BeginTransfer(p)
    BY <2>1 DEF BeginTransfer, stored, state, mine
  <2>2. CASE ExportTable(p)
    BY <2>2 DEF ExportTable, Step, stored, state, mine
  <2>3. CASE ExportMeta(p)
    BY <2>3 DEF ExportMeta, stored, state, mine
  <2>4. CASE ImportTable(p)
    BY <2>4 DEF ImportTable, Step, stored, state, mine
  <2>5. CASE ImportCommit(p)
    BY <2>5 DEF ImportCommit, state, mine
  <2>6. CASE ImportReplace(p)
    BY <2>6 DEF ImportReplace, state, mine
  <2>7. CASE TransferFails(p)
    BY <2>7 DEF TransferFails, stored, state, mine
  <2>8. QED
    BY <2>1, <2>2, <2>3, <2>4, <2>5, <2>6, <2>7
<1>2. QED
  BY <1>1, KeepStep

LEMMA WorkStep ==
  ASSUME Inv, NEW p \in Proc, Rotate(p) \/ Crawl(p)
  PROVE  Inv'
<1>1. UNCHANGED <<lock, cmd, auth, save, file, fileLock, latest, removed, pc>>
  BY DEF Rotate, Crawl, stored, state, mine
<1>2. QED
  BY <1>1, KeepStep

LEMMA SpoilStep ==
  ASSUME Inv, Spoil
  PROVE  Inv'
<1>1. UNCHANGED <<lock, cmd, pc, auth, save>> /\ file' = NoFields /\ latest' = NoFields /\ removed' = {}
  BY DEF Spoil, stored, mine
<1>2. \A q \in Proc : save[q] = NoSave
  BY CommandsAssumption DEF Inv, SaveInv, Spoil
<1>3. DOMAIN NoFields = {} /\ NoFields = Kept(NoFields, Managed)
  BY DEF NoFields, Kept
<1>4. QED
  BY <1>1, <1>2, <1>3 DEF Inv, Shape, LockInv, Holds, SaveInv

LEMMA StepInv == Inv /\ [Next]_vars => Inv'
<1> SUFFICES ASSUME Inv, [Next]_vars PROVE Inv'
  OBVIOUS
<1>1. CASE UNCHANGED vars
  BY <1>1 DEF vars, stored, state, mine, Inv, Shape, LockInv, Holds, SaveInv
<1>2. CASE Spoil
  BY <1>2, SpoilStep
<1>3. ASSUME NEW p \in Proc, ProcessStep(p) PROVE Inv'
  <2>1. ASSUME NEW command, Start(p, command) PROVE Inv'
    BY <2>1, StartStep
  <2>2. CASE TakeLock(p) \/ FindLocked(p) \/ Open(p)
    BY <2>2, TakeStep, PlaceStep
  <2>3. CASE RecordFailure(p) \/ Finish(p) \/ CloseStore(p) \/ Release(p)
    BY <2>3, RecordStep, FinishStep, PlaceStep
  <2>4. CASE Exit(p) \/ Crash(p)
    BY <2>4, LeaveStep
  <2>5. CASE Rotate(p) \/ Crawl(p)
    BY <2>5, WorkStep
  <2>6. CASE Mark(p) \/ SaveCookie(p) \/ Recover(p)
    BY <2>6, SaveStep
  <2>7. CASE EndSave(p) \/ SaveFails(p)
    BY <2>7, EndStep
  <2>8. CASE \/ BeginTransfer(p) \/ ExportTable(p) \/ ExportMeta(p) \/ ImportTable(p)
             \/ ImportCommit(p) \/ ImportReplace(p) \/ TransferFails(p)
    BY <2>8, TransferStep
  <2>9. QED
    BY <1>3, <2>1, <2>2, <2>3, <2>4, <2>5, <2>6, <2>7, <2>8 DEF ProcessStep
<1>4. QED
  BY <1>1, <1>2, <1>3 DEF Next

\* Whoever is past TakeLock and not yet gone has the crawl lock, and a save that
\* has begun has the lock of the state file, which is as the save has read it.
THEOREM Invariance == Spec => []Inv
<1>1. Init => Inv
  BY InitInv
<1>2. Inv /\ [Next]_vars => Inv'
  BY StepInv
<1>3. QED
  BY <1>1, <1>2, PTL DEF Spec

-----------------------------------------------------------------------------
(* The store and the bundle *)

\* The row of the topic has its snapshot.
Whole(r) == r["topics"] > 0 => r["topics"] \in r["topic_snapshots"]

SnapshotsIn(files) ==
  IF "topic_snapshots" \in DOMAIN files THEN files["topic_snapshots"] ELSE {}

TransferShape ==
  /\ DOMAIN copy = Proc /\ DOMAIN next = Proc
  /\ \A p \in Proc : next[p] \in {1, 2, 3}
  /\ \A p \in Proc : DOMAIN copy[p] = {"rows", "fresh"} /\ DOMAIN copy[p].rows = TableNames
  /\ \A p \in Proc : pc[p] = "meta" => cmd[p] = "export"
  /\ \A p \in Proc : pc[p] \in {"commit", "replace"} => cmd[p] = "import"

\* A store that does not exist holds nothing.
RowsInv ==
  /\ DOMAIN rows = TableNames /\ Whole(rows)
  /\ ~exists => rows["topic_snapshots"] = {}

\* The topic of a directory has its snapshot there, or in the store: files of
\* two exports, or of an export and what it was written over, have the topic of
\* the later one, which is of this store.
DirInv ==
  /\ DOMAIN dir = {"meta", "files"} /\ DOMAIN dir.files \subseteq TableNames
  /\ "topics" \in DOMAIN dir.files /\ dir.files["topics"] > 0 =>
       dir.files["topics"] \in SnapshotsIn(dir.files) \cup rows["topic_snapshots"]
  /\ Valid(dir) /\ ~mixed => Whole(dir.files)

\* What an export has read is still in the store, and what it has written is
\* what it has read.
ExportInv(p) ==
  cmd[p] = "export" /\ pc[p] \in {"table", "meta"} =>
    /\ Whole(copy[p].rows)
    /\ copy[p].rows["topic_snapshots"] \subseteq rows["topic_snapshots"]
    /\ next[p] # 1 \/ pc[p] = "meta" =>
         "topics" \in DOMAIN dir.files /\ dir.files["topics"] = copy[p].rows["topics"]
    /\ next[p] = 3 \/ pc[p] = "meta" =>
         /\ "topic_snapshots" \in DOMAIN dir.files
         /\ dir.files["topic_snapshots"] = copy[p].rows["topic_snapshots"]
    /\ pc[p] = "meta" => "plugin_action_logs" \in DOMAIN dir.files

\* An import goes on from what is in the store, which nobody changes meanwhile,
\* and between topics and topic_snapshots the snapshot may still be in the file.
ImportInv(p) ==
  cmd[p] = "import" /\ pc[p] \in {"table", "commit", "replace"} =>
    /\ DOMAIN dir.files = TableNames
    /\ rows["topic_snapshots"] \subseteq copy[p].rows["topic_snapshots"]
    /\ copy[p].fresh => ~exists
    /\ ~copy[p].fresh => exists
    /\ pc[p] = "replace" => copy[p].fresh
    /\ IF pc[p] = "table" /\ next[p] = 2
       THEN copy[p].rows["topics"] > 0 =>
              copy[p].rows["topics"] \in
                copy[p].rows["topic_snapshots"] \cup dir.files["topic_snapshots"]
       ELSE Whole(copy[p].rows)

BundleInv ==
  /\ TransferShape /\ RowsInv /\ DirInv
  /\ \A p \in Proc : ExportInv(p) /\ ImportInv(p)

LEMMA Names == TableNames = {"topics", "topic_snapshots", "plugin_action_logs"}
BY DEF TableNames, Tables

LEMMA InitBundle == Init => BundleInv
<1> SUFFICES ASSUME Init PROVE BundleInv
  OBVIOUS
<1>1. TransferShape
  BY Names DEF Init, TransferShape, NoCopy, NoRows
<1>2. RowsInv
  BY Names DEF Init, RowsInv, NoRows, Whole
<1>3. DirInv
  <2>1. CASE dir = EmptyDir
    <3>1. DOMAIN dir.files = {} /\ ~dir.meta
      BY <2>1 DEF EmptyDir
    <3> QED
      BY <2>1, <3>1 DEF EmptyDir, DirInv, Valid
  <2>2. CASE dir = Brought
    BY <2>2, Names DEF Brought, DirInv, SnapshotsIn, Whole
  <2> QED
    BY <2>1, <2>2 DEF Init
<1> QED
  BY <1>1, <1>2, <1>3 DEF Init, BundleInv, ExportInv, ImportInv

\* Two commands that both have the lock are one.
LEMMA OneHolds ==
  ASSUME Inv, NEW p \in Proc, NEW q \in Proc, Holds(p), Holds(q)
  PROVE  p = q
BY DEF Inv, LockInv

\* A step of a process outside of the transfers, which may create the database.
LEMMA KeepBundle ==
  ASSUME Inv, BundleInv, NEW p \in Proc,
         UNCHANGED <<rows, dir, mixed>>,
         exists => exists', exists' => exists \/ Holds(p),
         TransferShape',
         \A q \in Proc \ {p} : /\ cmd'[q] = cmd[q] /\ pc'[q] = pc[q]
                               /\ copy'[q] = copy[q] /\ next'[q] = next[q],
         \/ pc'[p] \notin {"table", "meta", "commit", "replace"}
         \/ UNCHANGED <<cmd, pc, copy, next, exists>>
  PROVE  BundleInv'
<1> USE DEF BundleInv
<1>1. RowsInv' /\ DirInv'
  BY DEF RowsInv, DirInv, Whole, SnapshotsIn, Valid
<1>2. ASSUME NEW q \in Proc PROVE ExportInv(q)'
  BY DEF ExportInv, Whole
<1>3. ASSUME NEW q \in Proc PROVE ImportInv(q)'
  <2>1. CASE q # p
    <3>1. Holds(q) /\ Holds(p) => p = q
      BY OneHolds
    <3> QED
      BY <2>1, <3>1 DEF ImportInv, Whole, Holds
  <2>2. CASE q = p
    BY <2>2 DEF ImportInv, Whole
  <2> QED
    BY <2>1, <2>2
<1> QED
  BY <1>1, <1>2, <1>3

\* The life of a command but for its transfer.
LEMMA LifeBundle ==
  ASSUME Inv, BundleInv, NEW p \in Proc,
         \/ TakeLock(p) \/ FindLocked(p) \/ Open(p) \/ RecordFailure(p) \/ Finish(p)
         \/ CloseStore(p) \/ Release(p) \/ TransferFails(p)
         \/ \E command : Start(p, command)
  PROVE  BundleInv'
<1> USE DEF stored, transfer
<1>1. UNCHANGED <<rows, dir, mixed, copy, next>>
  BY DEF TakeLock, FindLocked, Open, RecordFailure, Finish, CloseStore, Release,
         TransferFails, Start
<1>2. (exists => exists') /\ (exists' => exists \/ Holds(p))
  <2>1. CASE Open(p)
    <3>1. Serves(p) => Holds(p)
      BY <2>1 DEF Open, Serves, Holds
    <3>2. exists' = (exists \/ Serves(p))
      BY <2>1 DEF Open
    <3> QED
      BY <3>1, <3>2
  <2>2. CASE ~Open(p)
    <3>1. UNCHANGED exists
      BY <2>2 DEF TakeLock, FindLocked, RecordFailure, Finish, CloseStore, Release, TransferFails,
                      Start
    <3> QED
      BY <3>1
  <2> QED
    BY <2>1, <2>2
<1>3. /\ DOMAIN pc' = Proc /\ \A q \in Proc \ {p} : cmd'[q] = cmd[q] /\ pc'[q] = pc[q]
      /\ pc'[p] \notin {"table", "meta", "commit", "replace"}
  BY ZenonT(40) DEF Inv, Shape, TakeLock, FindLocked, Open, RecordFailure, Finish, CloseStore, Release,
         TransferFails, Start, At
<1>4. TransferShape'
  BY <1>1, <1>3 DEF BundleInv, TransferShape
<1> QED
  BY <1>1, <1>2, <1>3, <1>4, KeepBundle

LEMMA LeaveBundle ==
  ASSUME Inv, BundleInv, NEW p \in Proc, Exit(p) \/ Crash(p)
  PROVE  BundleInv'
<1>1. Gone(p) /\ UNCHANGED <<rows, dir, mixed, exists>>
  BY DEF Exit, Crash, stored
<1>2. /\ DOMAIN copy' = Proc /\ DOMAIN next' = Proc
      /\ \A q \in Proc \ {p} : /\ cmd'[q] = cmd[q] /\ pc'[q] = pc[q]
                               /\ copy'[q] = copy[q] /\ next'[q] = next[q]
      /\ pc'[p] = "idle" /\ next'[p] = 1 /\ copy'[p] = NoCopy
  BY <1>1 DEF Gone, At, Inv, Shape, BundleInv, TransferShape
<1>3. TransferShape'
  BY <1>2, Names DEF BundleInv, TransferShape, NoCopy, NoRows
<1> QED
  BY <1>1, <1>2, <1>3, KeepBundle

\* Saves, and what the client does.
LEMMA WorkBundle ==
  ASSUME Inv, BundleInv, NEW p \in Proc,
         Rotate(p) \/ Mark(p) \/ SaveCookie(p) \/ Recover(p) \/ EndSave(p) \/ SaveFails(p)
  PROVE  BundleInv'
<1>1. UNCHANGED <<rows, dir, mixed, exists, cmd, pc, copy, next>>
  BY DEF Rotate, Mark, SaveCookie, Recover, EndSave, SaveFails, stored, transfer
<1>2. TransferShape'
  BY <1>1 DEF BundleInv, TransferShape
<1> QED
  BY <1>1, <1>2, KeepBundle

\* A new version is stored with its snapshot; no import is under way then.
LEMMA CrawlBundle ==
  ASSUME Inv, BundleInv, NEW p \in Proc, Crawl(p)
  PROVE  BundleInv'
<1> USE DEF BundleInv
<1>1. UNCHANGED <<exists, dir, mixed, cmd, pc, copy, next>> /\ exists /\ Writable
  BY DEF Crawl, transfer
<1>2. /\ DOMAIN rows' = TableNames /\ Whole(rows')
      /\ rows["topic_snapshots"] \subseteq rows'["topic_snapshots"]
  BY Names DEF Crawl, RowsInv, Whole
<1>3. TransferShape' /\ RowsInv'
  BY <1>1, <1>2 DEF TransferShape, RowsInv
<1>4. DirInv'
  BY <1>1, <1>2 DEF DirInv, SnapshotsIn, Whole, Valid
<1>5. ASSUME NEW q \in Proc PROVE ExportInv(q)'
  BY <1>1, <1>2 DEF ExportInv, Whole
<1>6. ASSUME NEW q \in Proc PROVE ImportInv(q)'
  BY <1>1 DEF ImportInv, Writable, TransferShape
<1> QED
  BY <1>3, <1>4, <1>5, <1>6

\* The transaction of a transfer begins with what is committed.
LEMMA BeginBundle ==
  ASSUME Inv, BundleInv, NEW p \in Proc, BeginTransfer(p)
  PROVE  BundleInv'
<1> USE DEF BundleInv
<1> DEFINE read == IF exists THEN rows ELSE NoRows
<1>1. /\ pc[p] = "read"
      /\ UNCHANGED <<exists, rows, cmd, dir, mixed>>
      /\ DOMAIN pc' = Proc /\ DOMAIN copy' = Proc /\ DOMAIN next' = Proc
      /\ \A q \in Proc \ {p} : pc'[q] = pc[q] /\ copy'[q] = copy[q] /\ next'[q] = next[q]
      /\ copy'[p] = [rows |-> read, fresh |-> ~exists] /\ next'[p] = 1
      /\ pc'[p] = IF cmd[p] = "import" /\ ~Valid(dir) THEN "release" ELSE "table"
  BY DEF BeginTransfer, At, Inv, Shape, TransferShape, stored
<1>2. /\ DOMAIN read = TableNames /\ Whole(read)
      /\ rows["topic_snapshots"] = read["topic_snapshots"]
  BY Names DEF RowsInv, NoRows, Whole
<1> HIDE DEF read
<1>3. TransferShape'
  BY <1>1, <1>2 DEF TransferShape
<1>4. RowsInv' /\ DirInv'
  BY <1>1 DEF RowsInv, DirInv, Whole, SnapshotsIn, Valid
<1>5. ASSUME NEW q \in Proc PROVE ExportInv(q)' /\ ImportInv(q)'
  <2>1. CASE q = p
    <3>1. ExportInv(p)'
      BY <1>1, <1>2 DEF ExportInv, Whole
    <3>2. ASSUME cmd[p] = "import", Valid(dir) PROVE ImportInv(p)'
      <4>1. pc'[p] = "table" /\ next'[p] = 1
        BY <1>1, <3>2
      <4>2. copy'[p].rows = read
        BY <1>1
      <4>3. (copy'[p].fresh => ~exists') /\ (~copy'[p].fresh => exists')
        <5>1. CASE exists
          <6>1. copy'[p] = [rows |-> read, fresh |-> FALSE]
            BY <1>1, <5>1, Zenon
          <6>2. exists'
            BY <1>1, <5>1
          <6> QED
            BY <6>1, <6>2
        <5>2. CASE ~exists
          <6>1. copy'[p] = [rows |-> read, fresh |-> TRUE]
            BY <1>1, <5>2, Zenon
          <6>2. ~exists'
            BY <1>1, <5>2
          <6> QED
            BY <6>1, <6>2
        <5> QED
          BY <5>1, <5>2
      <4>4. DOMAIN dir'.files = TableNames
        BY <1>1, <3>2 DEF Valid
      <4> QED
        BY <1>1, <1>2, <4>1, <4>2, <4>3, <4>4 DEF ImportInv, Whole
    <3>3. ASSUME ~(cmd[p] = "import" /\ Valid(dir)) PROVE ImportInv(p)'
      BY <1>1, <3>3 DEF ImportInv
    <3> QED
      BY <2>1, <3>1, <3>2, <3>3
  <2>2. CASE q # p
    <3>1. /\ UNCHANGED <<cmd[q], pc[q], copy[q], next[q]>>
          /\ UNCHANGED <<exists, rows, dir>>
      BY <1>1, <2>2
    <3>2. ExportInv(q)'
      BY <3>1 DEF ExportInv, Whole
    <3>3. ImportInv(q)'
      BY <3>1 DEF ImportInv, Whole
    <3> QED
      BY <3>2, <3>3
  <2> QED
    BY <2>1, <2>2
<1> QED
  BY <1>3, <1>4, <1>5

\* Only the command with the lock is in a transfer.
LEMMA OthersOut ==
  ASSUME Inv, BundleInv, NEW p \in Proc,
         cmd[p] \in {"export", "import"},
         pc[p] \in {"table", "meta", "commit", "replace"},
         NEW q \in Proc, q # p,
         cmd'[q] = cmd[q], pc'[q] = pc[q]
  PROVE  ExportInv(q)' /\ ImportInv(q)'
<1>1. Holds(p)
  BY DEF Holds
<1>2. ~Holds(q)
  BY <1>1, OneHolds
<1> QED
  BY <1>2 DEF Holds, ExportInv, ImportInv

\* One more file, over the older one.
LEMMA ExportTableBundle ==
  ASSUME Inv, BundleInv, NEW p \in Proc, ExportTable(p)
  PROVE  BundleInv'
<1> USE DEF BundleInv
<1> DEFINE t == Tables[next[p]]
<1>1. /\ pc[p] = "table" /\ cmd[p] = "export"
      /\ UNCHANGED <<exists, rows, cmd, copy>>
      /\ mixed' = (mixed \/ dir.meta)
      /\ dir' = [dir EXCEPT !.files =
                   [u \in {t} \cup DOMAIN @ |-> IF u = t THEN copy[p].rows[t] ELSE @[u]]]
  BY DEF ExportTable, Table, WithFile, stored
<1>2. /\ DOMAIN pc' = Proc /\ DOMAIN next' = Proc
      /\ \A q \in Proc \ {p} : pc'[q] = pc[q] /\ next'[q] = next[q]
      /\ IF next[p] = 3 THEN pc'[p] = "meta" /\ next'[p] = 3
         ELSE pc'[p] = "table" /\ next'[p] = next[p] + 1
  BY <1>1 DEF ExportTable, Step, Last, Tables, At, Inv, Shape, TransferShape
<1>3. t = IF next[p] = 1 THEN "topics" ELSE IF next[p] = 2 THEN "topic_snapshots"
          ELSE "plugin_action_logs"
  BY DEF Tables, TransferShape
<1> HIDE DEF t
<1>4. /\ DOMAIN dir' = {"meta", "files"} /\ dir'.meta = dir.meta
      /\ DOMAIN dir'.files = {t} \cup DOMAIN dir.files
      /\ dir'.files[t] = copy[p].rows[t]
      /\ \A u \in DOMAIN dir.files : u # t => dir'.files[u] = dir.files[u]
  BY <1>1 DEF DirInv
<1>5. TransferShape'
  BY <1>1, <1>2 DEF TransferShape
<1>6. RowsInv'
  BY <1>1 DEF RowsInv, Whole
<1>7. ExportInv(p) /\ DirInv /\ next[p] \in {1, 2, 3}
  BY DEF TransferShape
<1>8. DirInv'
  <2>1. DOMAIN dir'.files \subseteq TableNames
    BY <1>3, <1>4, <1>7, Names DEF DirInv
  <2>2. "topics" \in DOMAIN dir'.files /\ dir'.files["topics"] > 0 =>
          dir'.files["topics"] \in SnapshotsIn(dir'.files) \cup rows["topic_snapshots"]
    <3>1. CASE next[p] = 1
      BY <1>1, <1>3, <1>4, <1>7, <3>1 DEF ExportInv, Whole
    <3>2. CASE next[p] = 2
      BY <1>1, <1>3, <1>4, <1>7, <3>2 DEF ExportInv, Whole, SnapshotsIn
    <3>3. CASE next[p] = 3
      BY <1>1, <1>3, <1>4, <1>7, <3>3 DEF DirInv, SnapshotsIn
    <3> QED
      BY <1>7, <3>1, <3>2, <3>3
  <2>3. ~(Valid(dir') /\ ~mixed')
    BY <1>1, <1>4 DEF Valid
  <2> QED
    BY <1>1, <1>4, <2>1, <2>2, <2>3 DEF DirInv, Valid
<1>9. ExportInv(p)'
  BY <1>1, <1>2, <1>3, <1>4, <1>7, SMTT(30) DEF ExportInv, Whole
<1>10. ImportInv(p)'
  BY <1>1 DEF ImportInv
<1>11. ASSUME NEW q \in Proc, q # p PROVE ExportInv(q)' /\ ImportInv(q)'
  BY <1>1, <1>2, <1>11, OthersOut
<1> QED
  BY <1>5, <1>6, <1>8, <1>9, <1>10, <1>11

\* The bundle is complete, and of one export.
LEMMA ExportMetaBundle ==
  ASSUME Inv, BundleInv, NEW p \in Proc, ExportMeta(p)
  PROVE  BundleInv'
<1> USE DEF BundleInv
<1>1. /\ pc[p] = "meta" /\ cmd[p] = "export"
      /\ UNCHANGED <<exists, rows, cmd, copy, next>>
      /\ dir' = [dir EXCEPT !.meta = TRUE]
      /\ DOMAIN pc' = Proc /\ pc'[p] = "release"
      /\ \A q \in Proc \ {p} : pc'[q] = pc[q]
  BY DEF ExportMeta, TransferShape, At, Inv, Shape, stored
<1>2. DOMAIN dir' = {"meta", "files"} /\ dir'.files = dir.files
  BY <1>1 DEF DirInv
<1>3. TransferShape'
  BY <1>1 DEF TransferShape
<1>4. RowsInv'
  BY <1>1 DEF RowsInv, Whole
<1>5. Whole(dir.files)
  BY <1>1 DEF ExportInv, Whole
<1>6. DirInv'
  BY <1>1, <1>2, <1>5 DEF DirInv, SnapshotsIn, Whole
<1>7. ExportInv(p)' /\ ImportInv(p)'
  BY <1>1 DEF ExportInv, ImportInv
<1>8. ASSUME NEW q \in Proc, q # p PROVE ExportInv(q)' /\ ImportInv(q)'
  BY <1>1, <1>8, OthersOut
<1> QED
  BY <1>3, <1>4, <1>6, <1>7, <1>8

\* One more table of the import.  The topic comes before its snapshots.
LEMMA ImportTableBundle ==
  ASSUME Inv, BundleInv, NEW p \in Proc, ImportTable(p)
  PROVE  BundleInv'
<1> USE DEF BundleInv
<1> DEFINE t == Tables[next[p]]
           old == copy[p].rows
           new == copy'[p].rows
<1>1. /\ pc[p] = "table" /\ cmd[p] = "import"
      /\ UNCHANGED <<exists, rows, cmd, dir, mixed>>
      /\ copy' = [copy EXCEPT ![p].rows[t] = Imported(t, @, dir.files[t])]
  BY DEF ImportTable, Table, stored
<1>2. /\ DOMAIN pc' = Proc /\ DOMAIN next' = Proc
      /\ \A q \in Proc \ {p} : pc'[q] = pc[q] /\ next'[q] = next[q]
      /\ IF next[p] = 3 THEN pc'[p] = "commit" /\ next'[p] = 3
         ELSE pc'[p] = "table" /\ next'[p] = next[p] + 1
  BY DEF ImportTable, Step, Last, Tables, At, Inv, Shape, TransferShape
<1>3. t = IF next[p] = 1 THEN "topics" ELSE IF next[p] = 2 THEN "topic_snapshots"
          ELSE "plugin_action_logs"
  BY DEF Tables, TransferShape
<1> HIDE DEF t
<1>4. ImportInv(p) /\ DirInv /\ next[p] \in {1, 2, 3} /\ t \in TableNames
  BY <1>3, Names DEF TransferShape
<1>5. /\ DOMAIN copy' = Proc /\ \A q \in Proc \ {p} : copy'[q] = copy[q]
      /\ DOMAIN copy'[p] = {"rows", "fresh"} /\ copy'[p].fresh = copy[p].fresh
      /\ DOMAIN new = TableNames
      /\ new[t] = Imported(t, old[t], dir.files[t])
      /\ \A u \in TableNames : u # t => new[u] = old[u]
  BY <1>1, <1>4 DEF TransferShape
<1> HIDE DEF old, new
<1>6. TransferShape'
  BY <1>1, <1>2, <1>5 DEF TransferShape, new
<1>7. RowsInv' /\ DirInv'
  BY <1>1 DEF RowsInv, DirInv, Whole, SnapshotsIn, Valid
<1>8. ImportInv(p)'
  <2>1. /\ DOMAIN dir.files = TableNames /\ rows["topic_snapshots"] \subseteq old["topic_snapshots"]
        /\ copy[p].fresh => ~exists
        /\ ~copy[p].fresh => exists
    BY <1>1, <1>4 DEF ImportInv, old
  <2>2. CASE next[p] = 1
    <3>1. Whole(old)
      BY <1>1, <1>4, <2>2 DEF ImportInv, old
    <3>2. /\ new["topics"] = Upserted(old["topics"], dir.files["topics"])
          /\ new["topic_snapshots"] = old["topic_snapshots"]
      BY <1>3, <1>5, <2>2, Names DEF Imported
    <3>3. dir.files["topics"] > 0 =>
            dir.files["topics"] \in dir.files["topic_snapshots"] \cup rows["topic_snapshots"]
      BY <1>4, <2>1, Names DEF DirInv, SnapshotsIn
    <3>4. new["topics"] > 0 =>
            new["topics"] \in new["topic_snapshots"] \cup dir.files["topic_snapshots"]
      BY <2>1, <3>1, <3>2, <3>3 DEF Whole, Upserted
    <3>5. pc'[p] = "table" /\ next'[p] = 2
      BY <1>2, <2>2
    <3> QED
      BY <1>1, <1>5, <2>1, <3>2, <3>4, <3>5 DEF ImportInv, new
  <2>3. CASE next[p] = 2
    <3>1. old["topics"] > 0 =>
            old["topics"] \in old["topic_snapshots"] \cup dir.files["topic_snapshots"]
      BY <1>1, <1>4, <2>3 DEF ImportInv, old
    <3>2. /\ new["topics"] = old["topics"]
          /\ new["topic_snapshots"] = Ignored(old["topic_snapshots"], dir.files["topic_snapshots"])
      BY <1>3, <1>5, <2>3, Names DEF Imported
    <3>3. Whole(new) /\ rows["topic_snapshots"] \subseteq new["topic_snapshots"]
      BY <2>1, <3>1, <3>2 DEF Whole, Ignored
    <3>4. pc'[p] = "table" /\ next'[p] = 3
      BY <1>2, <2>3
    <3> QED
      BY <1>1, <1>5, <2>1, <3>3, <3>4 DEF ImportInv, new
  <2>4. CASE next[p] = 3
    <3>1. Whole(old)
      BY <1>1, <1>4, <2>4 DEF ImportInv, old
    <3>2. new["topics"] = old["topics"] /\ new["topic_snapshots"] = old["topic_snapshots"]
      BY <1>3, <1>5, <2>4, Names
    <3>3. Whole(new) /\ rows["topic_snapshots"] \subseteq new["topic_snapshots"]
      BY <2>1, <3>1, <3>2 DEF Whole
    <3>4. pc'[p] = "commit"
      BY <1>2, <2>4
    <3> QED
      BY <1>1, <1>5, <2>1, <3>3, <3>4 DEF ImportInv, new
  <2> QED
    BY <1>4, <2>2, <2>3, <2>4
<1>9. ExportInv(p)'
  BY <1>1 DEF ExportInv
<1>10. ASSUME NEW q \in Proc, q # p PROVE ExportInv(q)' /\ ImportInv(q)'
  BY <1>1, <1>2, <1>10, OthersOut
<1> QED
  BY <1>6, <1>7, <1>8, <1>9, <1>10

\* The rows of the import take the place of those it began with, of which they
\* have every snapshot.
LEMMA ImportEndBundle ==
  ASSUME Inv, BundleInv, NEW p \in Proc, ImportCommit(p) \/ ImportReplace(p)
  PROVE  BundleInv'
<1> USE DEF BundleInv
<1>1. /\ cmd[p] = "import" /\ pc[p] \in {"commit", "replace"}
      /\ UNCHANGED <<cmd, dir, copy, next, mixed>>
      /\ DOMAIN pc' = Proc /\ \A q \in Proc \ {p} : pc'[q] = pc[q]
  BY DEF ImportCommit, ImportReplace, At, Inv, Shape, TransferShape
<1>2. /\ Whole(copy[p].rows) /\ DOMAIN copy[p].rows = TableNames
      /\ rows["topic_snapshots"] \subseteq copy[p].rows["topic_snapshots"]
  BY <1>1 DEF ImportInv, TransferShape
<1>3. \/ /\ pc'[p] = "replace" /\ copy[p].fresh
         /\ UNCHANGED <<exists, rows>>
      \/ /\ pc'[p] \in {"close", "release"}
         /\ rows' = copy[p].rows /\ exists'
  <2>1. CASE ImportReplace(p)
    BY <2>1 DEF ImportReplace, At, Inv, Shape
  <2>2. CASE ImportCommit(p)
    BY <2>2 DEF ImportCommit, At, Inv, Shape, ImportInv, TransferShape
  <2> QED
    BY <2>1, <2>2
<1>4. TransferShape'
  BY <1>1, <1>3 DEF TransferShape
<1>5. /\ DOMAIN rows' = TableNames /\ Whole(rows')
      /\ rows["topic_snapshots"] \subseteq rows'["topic_snapshots"]
  BY <1>2, <1>3 DEF RowsInv
<1>6. RowsInv'
  BY <1>3, <1>5 DEF RowsInv, Whole
<1>7. DirInv'
  BY <1>1, <1>5 DEF DirInv, SnapshotsIn, Whole, Valid
<1>8. ExportInv(p)'
  BY <1>1 DEF ExportInv
<1>9. ImportInv(p)'
  BY <1>1, <1>3 DEF ImportInv, Whole
<1>10. ASSUME NEW q \in Proc, q # p PROVE ExportInv(q)' /\ ImportInv(q)'
  BY <1>1, <1>10, OthersOut
<1> QED
  BY <1>4, <1>6, <1>7, <1>8, <1>9, <1>10

LEMMA StepBundle == Inv /\ BundleInv /\ [Next]_vars => BundleInv'
<1> SUFFICES ASSUME Inv, BundleInv, [Next]_vars PROVE BundleInv'
  OBVIOUS
<1>1. CASE UNCHANGED vars
  BY <1>1 DEF vars, stored, transfer, BundleInv, TransferShape, RowsInv, DirInv, ExportInv,
    ImportInv, Whole, SnapshotsIn, Valid
<1>2. CASE Spoil
  BY <1>2 DEF Spoil, stored, transfer, BundleInv, TransferShape, RowsInv, DirInv, ExportInv,
    ImportInv, Whole, SnapshotsIn, Valid
<1>3. ASSUME NEW p \in Proc, ProcessStep(p) PROVE BundleInv'
  <2>1. CASE \/ TakeLock(p) \/ FindLocked(p) \/ Open(p) \/ RecordFailure(p) \/ Finish(p)
             \/ CloseStore(p) \/ Release(p) \/ TransferFails(p) \/ \E command : Start(p, command)
    BY <2>1, LifeBundle
  <2>2. CASE Exit(p) \/ Crash(p)
    BY <2>2, LeaveBundle
  <2>3. CASE Rotate(p) \/ Mark(p) \/ SaveCookie(p) \/ Recover(p) \/ EndSave(p) \/ SaveFails(p)
    BY <2>3, WorkBundle
  <2>4. CASE Crawl(p) \/ BeginTransfer(p) \/ ExportTable(p) \/ ExportMeta(p)
    BY <2>4, CrawlBundle, BeginBundle, ExportTableBundle, ExportMetaBundle
  <2>5. CASE ImportTable(p) \/ ImportCommit(p) \/ ImportReplace(p)
    BY <2>5, ImportTableBundle, ImportEndBundle
  <2> QED
    BY <1>3, <2>1, <2>2, <2>3, <2>4, <2>5 DEF ProcessStep
<1> QED
  BY <1>1, <1>2, <1>3 DEF Next

-----------------------------------------------------------------------------
(* What follows *)

\* Of all processes that crawl, export or import, one at a time has the store
\* open, and it holds the crawl lock, whatever starts, fails or dies when: the
\* lock goes when the store is closed, at every way out.
THEOREM StoreIsUsedAlone == Spec => []StoreAlone
<1>1. Inv => StoreAlone
  BY DEF Inv, LockInv, Holds, StoreAlone, UsesStore, Serves
<1>2. QED
  BY <1>1, Invariance, PTL

\* The state file holds, path by path, what the last save about the path set,
\* unless a process whose environment sets the path has taken it out since.
THEOREM NoSaveIsLost == Spec => []NoSaveLost
<1>1. Inv => NoSaveLost
  BY DEF Inv, SaveInv, NoSaveLost
<1>2. QED
  BY <1>1, Invariance, PTL

\* The current row of a topic has its snapshot in the store after any crashes,
\* failures, exports and imports, of bundles with files of two exports too; and
\* a bundle that no interrupted export was written into has it as well.
THEOREM SnapshotsStay == Spec => []SnapshotWithTopic
<1>1. BundleInv => SnapshotWithTopic
  BY DEF BundleInv, RowsInv, DirInv, Whole, SnapshotWithTopic
<1>2. QED
  BY <1>1, Invariance, InitBundle, StepBundle, PTL DEF Spec

\* Each import mode is idempotent: importing the same rows again changes
\* nothing.
LEMMA ImportedTwice ==
  ASSUME NEW table \in {"topics", "topic_snapshots", "plugin_action_logs"},
         NEW old, NEW new
  PROVE  Imported(table, Imported(table, old, new), new) = Imported(table, old, new)
<1>1. CASE table = "topics"
  BY <1>1 DEF Imported, Upserted
<1>2. CASE table = "topic_snapshots"
  BY <1>2 DEF Imported, Ignored
<1>3. CASE table = "plugin_action_logs"
  BY <1>3 DEF Imported, Deduped
<1>4. QED
  BY <1>1, <1>2, <1>3

\* Importing a bundle a second time changes nothing, whatever it and the store
\* hold.
THEOREM ImportsConverge == Spec => []ImportConverges
<1>1. ImportConverges
  <2> DEFINE once == Restored(rows, dir.files)
  <2>1. TableNames = {"topics", "topic_snapshots", "plugin_action_logs"}
    BY DEF TableNames, Tables
  <2>2. \A t \in TableNames : once[t] = Imported(t, rows[t], dir.files[t])
    BY DEF Restored
  <2>3. \A t \in TableNames : Imported(t, once[t], dir.files[t]) = once[t]
    BY <2>1, <2>2, ImportedTwice
  <2>4. Restored(once, dir.files) = once
    BY <2>3 DEF Restored
  <2>5. QED
    BY <2>4 DEF ImportConverges
<1>2. QED
  BY <1>1, PTL

-----------------------------------------------------------------------------
(* Types *)

\* Where the processes are.
LifeTyped ==
  /\ lock \in Proc \cup {Nobody}
  /\ exists \in BOOLEAN
  /\ cmd \in [Proc -> CommandNames]
  /\ pc \in [Proc -> Places]
  /\ left \in Allowances

\* What is left of a budget is not negative.
LEMMA SpendTyped ==
  ASSUME left \in Allowances,
         NEW what \in {"starts", "versions", "saves", "cookies", "mishaps"}, Spend(what)
  PROVE  left' \in Allowances
<1>1. PICK n : n = left[what]
  OBVIOUS
<1>2. n \in Nat /\ n > 0 /\ (what = "versions" => n \in 0..MaxVersion)
  BY <1>1, TransferAssumption DEF Allowances, Spend
<1>3. left' = [left EXCEPT ![what] = n - 1]
  BY <1>1 DEF Spend
<1>4. n - 1 \in Nat /\ (what = "versions" => n - 1 \in 0..MaxVersion)
  BY <1>2, TransferAssumption
<1> QED
  BY <1>3, <1>4 DEF Allowances

LEMMA LifeStep == LifeTyped /\ [Next]_vars => LifeTyped'
<1> SUFFICES ASSUME LifeTyped, [Next]_vars PROVE LifeTyped'
  OBVIOUS
<1> USE DEF LifeTyped, At, Places
<1>1. left' \in Allowances
  <2>1. CASE left' = left
    BY <2>1
  <2>2. ASSUME NEW what \in {"starts", "versions", "saves", "cookies", "mishaps"},
               Spend(what)
        PROVE  left' \in Allowances
    BY <2>2, SpendTyped
  <2>3. ASSUME NEW p \in Proc, Recover(p) PROVE left' \in Allowances
    <3>1. left' = [left EXCEPT !.cookies = left.cookies - 1, !.saves = left.saves - 1]
          /\ left.cookies > 0 /\ left.saves > 0
      BY <2>3 DEF Recover
    <3>2. left.cookies - 1 \in Nat /\ left.saves - 1 \in Nat
      BY <3>1 DEF Allowances
    <3> QED
      BY <3>1, <3>2 DEF Allowances
  <2>4. CASE UNCHANGED vars
    BY <2>1, <2>4 DEF vars
  <2>5. CASE Spoil
    BY <2>2, <2>5 DEF Spoil, Mishap
  <2>6. ASSUME NEW p \in Proc, ProcessStep(p), ~Recover(p)
        PROVE  left' = left \/ \E what \in {"starts", "versions", "saves", "cookies",
                                             "mishaps"} : Spend(what)
    <3>1. ASSUME NEW command, Start(p, command) PROVE Spend("starts")
      BY <3>1 DEF Start
    <3>2. CASE \/ TakeLock(p) \/ FindLocked(p) \/ Open(p) \/ RecordFailure(p)
               \/ CloseStore(p) \/ Release(p) \/ Exit(p)
      BY <3>2 DEF TakeLock, FindLocked, Open, RecordFailure, CloseStore, Release, Exit
    <3>3. CASE Finish(p) \/ Mark(p) \/ SaveCookie(p)
      BY <3>3 DEF Finish, Mark, SaveCookie
    <3>4. CASE Crash(p) \/ SaveFails(p) \/ TransferFails(p)
      BY <3>4 DEF Crash, SaveFails, TransferFails, Mishap
    <3>5. CASE Rotate(p) \/ Crawl(p) \/ EndSave(p)
      BY <3>5 DEF Rotate, Crawl, EndSave
    <3>6. CASE \/ BeginTransfer(p) \/ ExportTable(p) \/ ExportMeta(p)
               \/ ImportTable(p) \/ ImportCommit(p) \/ ImportReplace(p)
      BY <3>6 DEF BeginTransfer, ExportTable, ExportMeta, ImportTable, ImportCommit,
                  ImportReplace
    <3> QED
      BY <2>6, <3>1, <3>2, <3>3, <3>4, <3>5, <3>6 DEF ProcessStep
  <2> QED
    BY <2>1, <2>2, <2>3, <2>4, <2>5, <2>6 DEF Next
<1>2. ASSUME NEW p \in Proc, NEW command \in CommandNames, Start(p, command)
      PROVE  LifeTyped'
  <2>1. PICK place \in {"open", "lock", "exit"} : pc' = [pc EXCEPT ![p] = place]
    BY <1>2 DEF Start, CommandNames
  <2>2. cmd' = [cmd EXCEPT ![p] = command] /\ UNCHANGED <<lock, exists>>
    BY <1>2 DEF Start, stored
  <2> QED
    BY <1>1, <2>1, <2>2 DEF Allowances
<1>3. ASSUME NEW p \in Proc, TakeLock(p) PROVE LifeTyped'
  <2>1. PICK place \in {"open", "read"} : pc' = [pc EXCEPT ![p] = place]
    BY <1>3 DEF TakeLock
  <2> QED
    BY <1>1, <1>3, <2>1 DEF TakeLock
<1>4. ASSUME NEW p \in Proc,
             \/ FindLocked(p) \/ Open(p) \/ RecordFailure(p)
             \/ CloseStore(p) \/ Release(p)
      PROVE  LifeTyped'
  <2>1. PICK place \in Places : pc' = [pc EXCEPT ![p] = place]
    BY <1>4 DEF FindLocked, Open, RecordFailure, CloseStore, Release, Places
  <2>2. lock' \in {lock, Nobody} /\ exists' \in BOOLEAN /\ UNCHANGED cmd
    BY <1>4 DEF FindLocked, Open, RecordFailure, CloseStore, Release, stored
  <2> QED
    BY <1>1, <2>1, <2>2 DEF Allowances
<1>5. ASSUME NEW p \in Proc, Finish(p) PROVE LifeTyped'
  BY <1>1, <1>5 DEF Finish, stored, Places
<1>6. ASSUME NEW p \in Proc, Exit(p) \/ Crash(p) PROVE LifeTyped'
  <2>1. Gone(p) /\ lock' \in {lock, Nobody} /\ UNCHANGED exists
    BY <1>6 DEF Exit, Crash, stored
  <2>2. "watch" \in CommandNames
    BY DEF CommandNames
  <2> QED
    BY <1>1, <2>1, <2>2 DEF Gone
<1>7. ASSUME NEW p \in Proc,
             Rotate(p) \/ Crawl(p) \/ Mark(p) \/ SaveCookie(p) \/ Recover(p)
             \/ EndSave(p) \/ SaveFails(p)
      PROVE  LifeTyped'
  <2>1. UNCHANGED <<lock, exists, cmd, pc>>
    BY <1>7 DEF Rotate, Crawl, Mark, SaveCookie, Recover, EndSave, SaveFails, stored
  <2> QED
    BY <1>1, <2>1 DEF Allowances
<1>8. ASSUME NEW p \in Proc,
              \/ BeginTransfer(p) \/ ExportTable(p) \/ ExportMeta(p) \/ ImportTable(p)
              \/ ImportCommit(p) \/ ImportReplace(p) \/ TransferFails(p)
       PROVE  LifeTyped'
  <2>1. UNCHANGED <<lock, cmd>> /\ exists' \in {exists, TRUE}
    BY <1>8 DEF BeginTransfer, ExportTable, ExportMeta, ImportTable, ImportCommit,
                 ImportReplace, TransferFails, stored
  <2>2. \/ UNCHANGED pc
        \/ \E place \in {"table", "meta", "commit", "replace", "close", "release"} :
             pc' = [pc EXCEPT ![p] = place]
    BY <1>8 DEF BeginTransfer, ExportTable, ExportMeta, ImportTable, ImportCommit,
                 ImportReplace, TransferFails, Step
  <2> QED
    BY <1>1, <2>1, <2>2 DEF Allowances
<1>9. CASE Spoil \/ UNCHANGED vars
  BY <1>1, <1>9 DEF Spoil, vars, stored
<1>10. ASSUME NEW p \in Proc, ProcessStep(p) PROVE LifeTyped'
  <2>1. left.commands \subseteq CommandNames
    BY DEF Allowances
  <2> HIDE DEF LifeTyped, At, Places
  <2> QED
    BY <1>2, <1>3, <1>4, <1>5, <1>6, <1>7, <1>8, <1>10, <2>1 DEF ProcessStep
<1> QED
  BY <1>9, <1>10 DEF Next

\* The state file, what the processes have of it in memory, and their saves.
FilesTyped ==
  /\ fileLock \in Proc \cup {Nobody}
  /\ FieldsTyped(file) /\ FieldsTyped(latest) /\ removed \subseteq Managed
  /\ \A p \in Proc : FieldsTyped(auth[p])
  /\ session \in [Proc -> Int]
  /\ \A p \in Proc : save[p] # NoSave =>
       /\ save[p].kind \in Kinds
       /\ FieldsTyped(save[p].old) /\ FieldsTyped(save[p].base)

\* Fields merged, or picked out of others, have their types.
LEMMA OverTyped ==
  ASSUME NEW f, FieldsTyped(f), NEW g, FieldsTyped(g)
  PROVE  FieldsTyped(Over(f, g))
BY DEF FieldsTyped, Over

LEMMA KeptTyped ==
  ASSUME NEW f, FieldsTyped(f), NEW S
  PROVE  FieldsTyped(Kept(f, S))
BY DEF FieldsTyped, Kept

\* What a save changes.
LEMMA ChangeTyped ==
  ASSUME NEW kind \in Kinds, NEW cookie \in Int
  PROVE  FieldsTyped(Change(kind, cookie))
<1> PICK f : f = Change(kind, cookie)
  OBVIOUS
<1>1. DOMAIN f \subseteq Managed
  BY ChangeDomain
<1>2. \/ f = [last_ok |-> TRUE] \/ f = [last_error |-> TRUE]
      \/ f = [last_error |-> TRUE, disabled |-> TRUE]
      \/ f = [disabled |-> FALSE] \/ f = [cookie |-> cookie]
      \/ f = [cookie |-> cookie, disabled |-> FALSE, last_error |-> FALSE]
  BY DEF Kinds, Change
<1>3. "cookie" \in DOMAIN f => f["cookie"] \in Int
  BY <1>2
<1>4. ASSUME NEW x \in DOMAIN f \ {"cookie"} PROVE f[x] \in BOOLEAN
  <2>1. x \in {"disabled", "last_ok", "last_error"}
    BY <1>1 DEF Managed
  <2>2. \A y \in {"disabled", "last_ok", "last_error"} :
          y \in DOMAIN f => f[y] = TRUE \/ f[y] = FALSE
    BY <1>2
  <2> QED
    BY <2>1, <2>2, Zenon
<1> QED
  BY <1>1, <1>3, <1>4 DEF FieldsTyped

LEMMA AppConfigTyped == FieldsTyped(AppConfig)
<1>1. DOMAIN AppConfig = Managed
  BY DEF AppConfig, Managed
<1>2. AppConfig["cookie"] \in Int
  BY DEF AppConfig, AppCookie
<1>3. ASSUME NEW x \in DOMAIN AppConfig \ {"cookie"} PROVE AppConfig[x] \in BOOLEAN
  <2>1. x \in {"disabled", "last_ok", "last_error"}
    BY <1>1 DEF Managed
  <2>2. /\ AppConfig["disabled"] = FALSE /\ AppConfig["last_ok"] = FALSE
        /\ AppConfig["last_error"] = FALSE
    BY DEF AppConfig
  <2> QED
    BY <2>1, <2>2, Zenon
<1> QED
  BY <1>1, <1>2, <1>3 DEF FieldsTyped

\* What a command starts with.
LEMMA LoadedTyped ==
  ASSUME NEW p, NEW f, FieldsTyped(f)
  PROVE  FieldsTyped(Loaded(p, f)) /\ (f = file /\ SaveInv => Loaded(p, f)["cookie"] \in Int)
<1>1. FieldsTyped(AppConfig)
  BY AppConfigTyped
<1>2. FieldsTyped([g \in Overridden(p) |-> EnvironmentCookie])
  BY DEF FieldsTyped, Overridden, Managed, EnvironmentCookie
<1>3. FieldsTyped(Loaded(p, f))
  BY <1>1, <1>2, OverTyped DEF Loaded
<1>4. DOMAIN Loaded(p, f) = Managed
  BY LoadedDomain DEF FieldsTyped
<1> QED
  BY <1>3, <1>4 DEF FieldsTyped, Managed

\* A process has a cookie in memory.
LEMMA CookieTyped ==
  ASSUME SaveInv, FilesTyped, NEW p \in Proc
  PROVE  auth[p]["cookie"] \in Int
BY DEF SaveInv, FilesTyped, FieldsTyped, Managed

LEMMA BeginTyped ==
  ASSUME Inv, FilesTyped, NEW p \in Proc, NEW kind \in Kinds, NEW cookie \in Int,
         BeginSave(p, kind, cookie)
  PROVE  FilesTyped'
<1> DEFINE change == Change(kind, cookie)
<1>1. FieldsTyped(change)
  BY ChangeTyped
<1>2. FieldsTyped(Over(change, auth[p]))
  BY <1>1, OverTyped DEF FilesTyped
<1>3. /\ auth' = [auth EXCEPT ![p] = Over(change, auth[p])]
      /\ save' = [save EXCEPT ![p] = [kind |-> kind, updated |-> DOMAIN change,
                                      old |-> auth[p], base |-> file]]
      /\ fileLock' = p /\ UNCHANGED <<file, latest, removed, session>>
  BY DEF BeginSave
<1> HIDE DEF change
<1>4. \A q \in Proc : FieldsTyped(auth'[q])
  BY <1>2, <1>3 DEF Inv, Shape, FilesTyped
<1>5. ASSUME NEW q \in Proc, save'[q] # NoSave
      PROVE  save'[q].kind \in Kinds /\ FieldsTyped(save'[q].old)
             /\ FieldsTyped(save'[q].base)
  <2>1. CASE q = p
    BY <1>3, <2>1 DEF Inv, Shape, FilesTyped
  <2>2. CASE q # p
    BY <1>3, <1>5, <2>2 DEF Inv, Shape, FilesTyped
  <2> QED
    BY <2>1, <2>2
<1> QED
  BY <1>3, <1>4, <1>5 DEF FilesTyped, FieldsTyped

\* Steps that neither begin nor end a save.
LEMMA SameFiles ==
  ASSUME FilesTyped, UNCHANGED <<state, mine>>
  PROVE  FilesTyped'
BY DEF FilesTyped, FieldsTyped, state, mine

LEMMA EndTyped ==
  ASSUME Inv, FilesTyped, NEW p \in Proc, EndSave(p) \/ SaveFails(p)
  PROVE  FilesTyped'
<1>1. \A q \in Proc : save'[q] # NoSave => q # p /\ save'[q] = save[q]
  BY DEF EndSave, SaveFails, Inv, Shape
<1>2. fileLock' = Nobody
  BY DEF EndSave, SaveFails
<1>3. CASE EndSave(p)
  <2>1. file' = Payload(p, save[p].base, save[p].updated, auth[p]) /\ UNCHANGED auth
    BY <1>3 DEF EndSave
  <2>2. FieldsTyped(auth[p]) /\ FieldsTyped(save[p].base)
    BY <1>3 DEF EndSave, FilesTyped
  <2>3. FieldsTyped(file')
    BY <2>1, <2>2, OverTyped, KeptTyped DEF Payload
  <2>4. session' = session \/ session' = [session EXCEPT ![p] = auth[p]["cookie"]]
    BY <1>3 DEF EndSave
  <2>5. session' \in [Proc -> Int]
    BY <2>4, CookieTyped DEF Inv, FilesTyped
  <2> DEFINE named == Named(p, file, save[p].updated)
  <2>6. /\ latest' = Over(Kept(auth[p], named), latest)
        /\ removed' = (removed \ named) \cup Overridden(p)
    BY <1>3 DEF EndSave, Named
  <2>7. FieldsTyped(latest') /\ removed' \subseteq Managed
    <3>1. FieldsTyped(Kept(auth[p], named))
      BY <2>2, KeptTyped
    <3>2. Overridden(p) \subseteq Managed
      BY DEF Overridden, Managed
    <3> QED
      BY <2>6, <3>1, <3>2, OverTyped DEF FilesTyped
  <2> QED
    BY <1>1, <1>2, <2>1, <2>3, <2>5, <2>7 DEF FilesTyped, FieldsTyped
<1>4. CASE SaveFails(p)
  <2>1. /\ auth' = auth \/ auth' = [auth EXCEPT ![p] = save[p].old]
        /\ save[p] # NoSave /\ UNCHANGED <<file, latest, removed, session>>
    BY <1>4 DEF SaveFails
  <2>2. FieldsTyped(save[p].old)
    BY <2>1 DEF FilesTyped
  <2>3. \A q \in Proc : FieldsTyped(auth'[q])
    BY <2>1, <2>2 DEF Inv, Shape, FilesTyped
  <2> QED
    BY <1>1, <1>2, <2>1, <2>3 DEF FilesTyped, FieldsTyped
<1> QED
  BY <1>3, <1>4

\* A process that ends or dies.
LEMMA GoneTyped ==
  ASSUME Inv, FilesTyped, NEW p \in Proc, Gone(p), UNCHANGED <<file, latest, removed>>,
         fileLock' \in {fileLock, Nobody}
  PROVE  FilesTyped'
<1>1. FieldsTyped(AppConfig)
  BY AppConfigTyped
<1>2. /\ auth' = [auth EXCEPT ![p] = AppConfig]
      /\ session' = [session EXCEPT ![p] = AppCookie]
      /\ save' = [save EXCEPT ![p] = NoSave]
  BY DEF Gone
<1>3. \A q \in Proc : FieldsTyped(auth'[q])
  BY <1>1, <1>2 DEF Inv, Shape, FilesTyped
<1>4. session' \in [Proc -> Int]
  BY <1>2 DEF FilesTyped, AppCookie
<1>5. \A q \in Proc : save'[q] # NoSave => save'[q] = save[q]
  BY <1>2 DEF Inv, Shape
<1> QED
  BY <1>3, <1>4, <1>5 DEF FilesTyped, FieldsTyped

LEMMA FilesStep == Inv /\ LifeTyped /\ FilesTyped /\ [Next]_vars => FilesTyped'
<1> SUFFICES ASSUME Inv, left.cookies \in Nat, FilesTyped, [Next]_vars PROVE FilesTyped'
  BY DEF LifeTyped, Allowances
<1>1. CASE UNCHANGED vars
  BY <1>1, SameFiles DEF vars
<1>2. CASE Spoil
  <2>1. FieldsTyped(NoFields)
    BY DEF NoFields, FieldsTyped
  <2> QED
    BY <1>2, <2>1 DEF Spoil, mine, FilesTyped, FieldsTyped
<1>3. ASSUME NEW p \in Proc, ProcessStep(p) PROVE FilesTyped'
  <2> session[p] \in Int
    BY DEF FilesTyped
  <2>1. ASSUME NEW command, Start(p, command) PROVE FilesTyped'
    <3>1. FieldsTyped(Loaded(p, file)) /\ Loaded(p, file)["cookie"] \in Int
      BY LoadedTyped DEF Inv, FilesTyped
    <3>2. /\ auth' = [auth EXCEPT ![p] = Loaded(p, file)]
          /\ session' = [session EXCEPT ![p] = Loaded(p, file)["cookie"]]
          /\ UNCHANGED <<save, file, fileLock, latest, removed>>
      BY <2>1 DEF Start, state
    <3>3. \A q \in Proc : FieldsTyped(auth'[q])
      BY <3>1, <3>2 DEF Inv, Shape, FilesTyped
    <3>4. session' \in [Proc -> Int]
      BY <3>1, <3>2 DEF FilesTyped
    <3> QED
      BY <3>2, <3>3, <3>4 DEF FilesTyped, FieldsTyped
  <2>2. CASE RecordFailure(p)
    BY <2>2, BeginTyped DEF RecordFailure, Kinds
  <2>3. CASE Finish(p)
    <3>1. ASSUME NEW kind \in {"fail", "disable"}, BeginSave(p, kind, session[p])
          PROVE  FilesTyped'
      BY <3>1, BeginTyped DEF Kinds
    <3> QED
      BY <2>3, <3>1, SameFiles DEF Finish
  <2>4. CASE Exit(p) \/ Crash(p)
    BY <2>4, GoneTyped DEF Exit, Crash, state
  <2>5. CASE Rotate(p)
    <3>1. session' = [session EXCEPT ![p] = left.cookies]
          /\ UNCHANGED <<file, fileLock, latest, removed, auth, save>>
      BY <2>5 DEF Rotate, state
    <3> QED
      BY <3>1 DEF FilesTyped, FieldsTyped
  <2>6. CASE Mark(p)
    <3>1. PICK kind \in KindsOf(cmd[p]) : BeginSave(p, kind, session[p])
      BY <2>6 DEF Mark
    <3>2. kind \in Kinds
      BY <3>1 DEF KindsOf, Kinds
    <3> QED
      BY <3>1, <3>2, BeginTyped
  <2>7. CASE SaveCookie(p) \/ Recover(p)
    BY <2>7, BeginTyped DEF SaveCookie, Recover, Kinds
  <2>8. CASE EndSave(p) \/ SaveFails(p)
    BY <2>8, EndTyped
  <2>9. CASE \/ TakeLock(p) \/ FindLocked(p) \/ Open(p) \/ CloseStore(p) \/ Release(p)
             \/ Crawl(p)
             \/ BeginTransfer(p) \/ ExportTable(p) \/ ExportMeta(p) \/ ImportTable(p)
             \/ ImportCommit(p) \/ ImportReplace(p) \/ TransferFails(p)
    <3>1. UNCHANGED <<state, mine>>
      BY <2>9 DEF TakeLock, FindLocked, Open, CloseStore, Release, Crawl, BeginTransfer, ExportTable, ExportMeta,
                  ImportTable, ImportCommit, ImportReplace, TransferFails
    <3> QED
      BY <3>1, SameFiles
  <2> QED
    BY <1>3, <2>1, <2>2, <2>3, <2>4, <2>5, <2>6, <2>7, <2>8, <2>9 DEF ProcessStep
<1> QED
  BY <1>1, <1>2, <1>3 DEF Next

\* The store, the transactions of exports and imports, and the directory.
RowsTyped ==
  /\ rows \in StoreRows
  /\ copy \in [Proc -> [rows : StoreRows, fresh : BOOLEAN]]
  /\ next \in [Proc -> DOMAIN Tables]

DirTyped ==
  /\ dir.meta \in BOOLEAN
  /\ \A t \in DOMAIN dir.files : dir.files[t] \in RowsOf(t)

LEMMA TablesTyped ==
  /\ DOMAIN Tables = {1, 2, 3} /\ Len(Tables) = 3
  /\ \A i \in DOMAIN Tables : Tables[i] \in TableNames
BY DEF Tables, TableNames

\* The rows of a table have its type, and so have those that an import makes of
\* them.
LEMMA RowTyped ==
  ASSUME NEW r \in StoreRows, NEW t \in TableNames
  PROVE  /\ r[t] \in RowsOf(t)
         /\ \A new \in RowsOf(t) : [r EXCEPT ![t] = new] \in StoreRows
BY Names DEF StoreRows, RowsOf

LEMMA ImportedTyped ==
  ASSUME NEW t \in TableNames, NEW old \in RowsOf(t), NEW new \in RowsOf(t)
  PROVE  Imported(t, old, new) \in RowsOf(t)
BY Names, TransferAssumption DEF RowsOf, Imported, Upserted, Ignored, Deduped

LEMMA NoRowsTyped == NoRows \in StoreRows
BY TransferAssumption DEF NoRows, StoreRows, RowsOf

\* A new version of the topic.
LEMMA CrawlTyped ==
  ASSUME RowsTyped, NEW p \in Proc, Crawl(p), left.versions \in 0..MaxVersion
  PROVE  RowsTyped'
<1>1. rows' \in StoreRows
  <2>1. CASE rows' = [rows EXCEPT !.topics = left.versions,
                                  !.topic_snapshots = @ \cup {left.versions}]
             /\ left.versions > 0
    <3>1. left.versions \in 0..MaxVersion /\ left.versions \in 1..MaxVersion
      BY <2>1, TransferAssumption
    <3>2. rows.topic_snapshots \cup {left.versions} \in SUBSET (1..MaxVersion)
      BY <3>1 DEF RowsTyped, StoreRows, RowsOf
    <3> QED
      BY <2>1, <3>1, <3>2 DEF RowsTyped, StoreRows, RowsOf
  <2>2. CASE rows' = [rows EXCEPT !.plugin_action_logs = @ + 1]
             /\ rows.plugin_action_logs < MaxLogs
    BY <2>2, TransferAssumption DEF RowsTyped, StoreRows, RowsOf
  <2> QED
    BY <2>1, <2>2 DEF Crawl, Spend
<1> QED
  BY <1>1 DEF Crawl, transfer, RowsTyped

LEMMA StepTyped ==
  ASSUME NEW p \in Proc, next \in [Proc -> DOMAIN Tables], NEW after, Step(p, after)
  PROVE  next' \in [Proc -> DOMAIN Tables]
<1>1. CASE Last(p)
  BY <1>1 DEF Step
<1>2. CASE ~Last(p)
  <2>1. next' = [next EXCEPT ![p] = next[p] + 1]
    BY <1>2 DEF Step
  <2>2. next[p] + 1 \in DOMAIN Tables
    BY <1>2, TablesTyped DEF Last
  <2> QED
    BY <2>1, <2>2
<1> QED
  BY <1>1, <1>2

\* The transfers.
LEMMA TransferTyped ==
  ASSUME RowsTyped, DirTyped, BundleInv, exists \in BOOLEAN, NEW p \in Proc,
         \/ BeginTransfer(p) \/ ExportTable(p) \/ ExportMeta(p) \/ ImportTable(p)
         \/ ImportCommit(p) \/ ImportReplace(p) \/ TransferFails(p)
  PROVE  RowsTyped' /\ DirTyped'
<1> DEFINE t == Table(p)
<1>1. t \in TableNames /\ copy[p].rows \in StoreRows
  BY TablesTyped DEF RowsTyped, Table
<1>2. CASE BeginTransfer(p)
  <2>1. PICK r \in StoreRows : r = IF exists THEN rows ELSE NoRows
    BY NoRowsTyped DEF RowsTyped
  <2>2. PICK fresh \in BOOLEAN : fresh = ~exists
    OBVIOUS
  <2>3. copy' = [copy EXCEPT ![p] = [rows |-> r, fresh |-> fresh]]
    BY <1>2, <2>1, <2>2 DEF BeginTransfer
  <2>4. next' = [next EXCEPT ![p] = 1] /\ UNCHANGED <<rows, dir>>
    BY <1>2 DEF BeginTransfer, stored
  <2>5. copy' \in [Proc -> [rows : StoreRows, fresh : BOOLEAN]]
    BY <2>3 DEF RowsTyped
  <2>6. next' \in [Proc -> DOMAIN Tables]
    BY <2>4, TablesTyped DEF RowsTyped
  <2> QED
    BY <2>4, <2>5, <2>6 DEF RowsTyped, DirTyped
<1>3. CASE ExportTable(p)
  <2>1. dir' = WithFile(dir, t, copy[p].rows[t]) /\ UNCHANGED <<rows, copy>>
    BY <1>3 DEF ExportTable, stored
  <2>2. copy[p].rows[t] \in RowsOf(t)
    BY <1>1, RowTyped
  <2> HIDE DEF t
  <2>3. /\ dir'.meta = dir.meta
        /\ dir'.files = [u \in {t} \cup DOMAIN dir.files |->
                          IF u = t THEN copy[p].rows[t] ELSE dir.files[u]]
    BY <2>1 DEF WithFile, BundleInv, DirInv
  <2>4. DirTyped'
    BY <2>2, <2>3 DEF DirTyped
  <2> QED
    BY <1>3, <2>1, <2>4, StepTyped DEF ExportTable, RowsTyped
<1>4. CASE ExportMeta(p)
  <2>1. dir' = [dir EXCEPT !.meta = TRUE] /\ UNCHANGED <<rows, copy, next>>
    BY <1>4 DEF ExportMeta, stored
  <2>2. dir'.meta = TRUE /\ dir'.files = dir.files
    BY <2>1 DEF BundleInv, DirInv
  <2> QED
    BY <2>1, <2>2 DEF RowsTyped, DirTyped
<1>5. CASE ImportTable(p)
  <2>1. DOMAIN dir.files = TableNames
    BY <1>5 DEF ImportTable, BundleInv, ImportInv
  <2>2. dir.files[t] \in RowsOf(t)
    BY <1>1, <2>1 DEF DirTyped
  <2>3. PICK new : new = Imported(t, copy[p].rows[t], dir.files[t])
    OBVIOUS
  <2>4. [copy[p].rows EXCEPT ![t] = new] \in StoreRows
    BY <1>1, <2>2, <2>3, RowTyped, ImportedTyped
  <2>5. copy' = [copy EXCEPT ![p].rows[t] = new] /\ UNCHANGED <<rows, dir>>
    BY <1>5, <2>3 DEF ImportTable, stored
  <2> HIDE DEF t
  <2>6. PICK r \in StoreRows : r = [copy[p].rows EXCEPT ![t] = new]
    BY <2>4
  <2>7. copy' = [copy EXCEPT ![p] = [copy[p] EXCEPT !.rows = r]]
    BY <2>5, <2>6 DEF RowsTyped
  <2>8. copy' \in [Proc -> [rows : StoreRows, fresh : BOOLEAN]]
    BY <2>7 DEF RowsTyped
  <2> QED
    BY <1>5, <2>5, <2>8, StepTyped DEF ImportTable, RowsTyped, DirTyped
<1>6. CASE ImportCommit(p) \/ ImportReplace(p) \/ TransferFails(p)
  <2>1. rows' \in {rows, copy[p].rows} /\ UNCHANGED <<copy, next, dir>>
    BY <1>6 DEF ImportCommit, ImportReplace, TransferFails, stored, transfer
  <2> QED
    BY <1>1, <2>1 DEF RowsTyped, DirTyped
<1> QED
  BY <1>2, <1>3, <1>4, <1>5, <1>6

LEMMA RowsStep ==
  Inv /\ BundleInv /\ LifeTyped /\ RowsTyped /\ DirTyped /\ [Next]_vars
    => RowsTyped' /\ DirTyped'
<1> SUFFICES ASSUME BundleInv, LifeTyped, RowsTyped, DirTyped, [Next]_vars
             PROVE  RowsTyped' /\ DirTyped'
  OBVIOUS
<1>1. CASE UNCHANGED <<rows, copy, next, dir>>
  BY <1>1 DEF RowsTyped, DirTyped
<1>2. ASSUME NEW p \in Proc, Exit(p) \/ Crash(p) PROVE RowsTyped' /\ DirTyped'
  <2>1. Gone(p) /\ UNCHANGED <<rows, dir>>
    BY <1>2 DEF Exit, Crash, stored
  <2>2. NoCopy \in [rows : StoreRows, fresh : BOOLEAN]
    BY NoRowsTyped DEF NoCopy
  <2> QED
    BY <2>1, <2>2, TablesTyped DEF Gone, RowsTyped, DirTyped
<1>3. ASSUME NEW p \in Proc, Crawl(p) PROVE RowsTyped' /\ DirTyped'
  <2>1. left.versions \in 0..MaxVersion
    BY DEF LifeTyped, Allowances
  <2>2. UNCHANGED dir
    BY <1>3 DEF Crawl, transfer
  <2> QED
    BY <1>3, <2>1, <2>2, CrawlTyped DEF DirTyped
<1>4. ASSUME NEW p \in Proc, ProcessStep(p) PROVE RowsTyped' /\ DirTyped'
  <2>1. ASSUME NEW command, Start(p, command) PROVE RowsTyped' /\ DirTyped'
    BY <1>1, <2>1 DEF Start, stored, transfer
  <2>2. CASE \/ TakeLock(p) \/ FindLocked(p) \/ Open(p) \/ RecordFailure(p) \/ Finish(p)
             \/ CloseStore(p) \/ Release(p)
             \/ Rotate(p) \/ Mark(p) \/ SaveCookie(p) \/ Recover(p) \/ EndSave(p)
             \/ SaveFails(p)
    BY <1>1, <2>2 DEF TakeLock, FindLocked, Open, RecordFailure, Finish, CloseStore,
                      Release, Rotate, Mark, SaveCookie,
                      Recover, EndSave, SaveFails, stored, transfer
  <2> QED
    BY <1>2, <1>3, <1>4, <2>1, <2>2, TransferTyped DEF ProcessStep, LifeTyped
<1>5. CASE Spoil \/ UNCHANGED vars
  BY <1>1, <1>5 DEF Spoil, vars, stored, transfer
<1> QED
  BY <1>4, <1>5 DEF Next

LEMMA MixedStep == mixed \in BOOLEAN /\ [Next]_vars => mixed' \in BOOLEAN
<1> SUFFICES ASSUME mixed \in BOOLEAN, [Next]_vars, ~UNCHANGED mixed
             PROVE  mixed' \in BOOLEAN
  OBVIOUS
<1>1. CASE Spoil \/ UNCHANGED vars
  BY <1>1 DEF Spoil, vars, transfer
<1>2. ASSUME NEW p \in Proc, ProcessStep(p) PROVE mixed' \in BOOLEAN
  <2>1. ASSUME NEW command, Start(p, command) PROVE UNCHANGED mixed
    BY <2>1 DEF Start, transfer
  <2>2. CASE \/ TakeLock(p) \/ FindLocked(p) \/ Open(p) \/ RecordFailure(p) \/ Finish(p)
             \/ CloseStore(p) \/ Release(p) \/ Exit(p)
             \/ Crash(p) \/ Rotate(p) \/ Mark(p) \/ SaveCookie(p) \/ Recover(p)
             \/ EndSave(p) \/ SaveFails(p) \/ Crawl(p) \/ TransferFails(p)
    BY <2>2 DEF TakeLock, FindLocked, Open, RecordFailure, Finish, CloseStore, Release,
                Exit, Crash, Rotate, Mark,
                SaveCookie, Recover, EndSave, SaveFails, Crawl, TransferFails, transfer
  <2>3. CASE BeginTransfer(p) \/ ImportTable(p) \/ ImportCommit(p) \/ ImportReplace(p)
    BY <2>3 DEF BeginTransfer, ImportTable, ImportCommit, ImportReplace
  <2>4. CASE ExportTable(p) \/ ExportMeta(p)
    BY <2>4 DEF ExportTable, ExportMeta
  <2> QED
    BY <1>2, <2>1, <2>2, <2>3, <2>4 DEF ProcessStep
<1> QED
  BY <1>1, <1>2 DEF Next

\* The variables have their types: the rows of the store, of a transaction and of
\* a bundle are those of their tables, and the fields of the state file, of a save
\* and of the memory of a process hold a cookie and flags, though a save merges
\* what it read with what it remembers.
THEOREM TypesHold == Spec => []TypeOK
<1> DEFINE Typed == /\ FilesTyped /\ LifeTyped /\ RowsTyped /\ DirTyped
                    /\ mixed \in BOOLEAN
<1>1. Init => Inv /\ BundleInv /\ Typed
  <2> SUFFICES ASSUME Init PROVE Typed
    BY InitInv, InitBundle
  <2>1. FieldsTyped(NoFields)
    BY DEF NoFields, FieldsTyped
  <2>2. FilesTyped
    BY <2>1, AppConfigTyped DEF Init, FilesTyped, AppCookie
  <2>3. LifeTyped
    BY CommandsAssumption DEF Init, LifeTyped, CommandNames, Places
  <2>4. NoCopy \in [rows : StoreRows, fresh : BOOLEAN]
    BY NoRowsTyped DEF NoCopy
  <2>5. RowsTyped
    BY <2>4, NoRowsTyped, TablesTyped DEF Init, RowsTyped
  <2>6. DirTyped
    <3>1. CASE dir = EmptyDir
      <4>1. DOMAIN dir.files = {} /\ dir.meta = FALSE
        BY <3>1 DEF EmptyDir
      <4> QED
        BY <4>1 DEF DirTyped
    <3>2. CASE dir = Brought
      <4>1. dir.meta = TRUE /\ dir.files \in StoreRows
        <5>1. MaxVersion \in 0..MaxVersion /\ {MaxVersion} \in SUBSET (1..MaxVersion)
          BY TransferAssumption
        <5> QED
          BY <3>2, <5>1, TransferAssumption DEF Brought, StoreRows, RowsOf
      <4>2. DOMAIN dir.files = TableNames
        BY <3>2, Names DEF Brought
      <4> QED
        BY <4>1, <4>2, RowTyped DEF DirTyped
    <3> QED
      BY <3>1, <3>2 DEF Init
  <2> QED
    BY <2>2, <2>3, <2>5, <2>6 DEF Init
<1>2. Inv /\ BundleInv /\ Typed /\ [Next]_vars => (Inv /\ BundleInv /\ Typed)'
  BY StepInv, StepBundle, FilesStep, LifeStep, RowsStep, MixedStep
<1>3. Inv /\ BundleInv /\ Typed => TypeOK
  <2> SUFFICES ASSUME Inv, BundleInv, Typed PROVE TypeOK
    OBVIOUS
  <2> QED
    BY DEF Inv, SaveInv, BundleInv, DirInv, FilesTyped, LifeTyped, RowsTyped,
                DirTyped, TypeOK
<1> HIDE DEF Typed
<1> QED
  BY <1>1, <1>2, <1>3, PTL DEF Spec
=============================================================================
