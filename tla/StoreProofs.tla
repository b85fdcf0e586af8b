----------------------------- MODULE StoreProofs -----------------------------
(***************************************************************************)
(* Theorems about the two storage backends, for any threads, calls, topics *)
(* and days.                                                               *)
(*                                                                         *)
(* PostgresStore is extended and SqliteStore instantiated, so that both    *)
(* rest on one set of lemmas about the tables and the statements.  Each    *)
(* theorem is about the behaviours of one of them: the variables that have *)
(* a name in both are those of the one it names.                           *)
(*                                                                         *)
(* PostgresStore: between two calls the tables are whole.  A call can be   *)
(* seen half-way by the others, which share its transaction, so that the   *)
(* invariant says what holds of the view after each statement: Books for   *)
(* the statistics, Shelf for topics and their snapshots.  As long as calls *)
(* do not overlap it implements DoubtfulStore: the open transaction is the *)
(* committed tables and the first statements of a call (Halfway).          *)
(*                                                                         *)
(* SqliteStore: the open transaction is what is settled and the first      *)
(* statements of the one call that has the lock (After); all of them come  *)
(* to what the call is to carry out (Carried), the first ones to what it   *)
(* may leave when it raises (Left).                                        *)
(***************************************************************************)
EXTENDS PostgresStore, SqliteContract, TLAPS

CONSTANTS SqliteCallsOf, OtherWriter, BadData

Sqlite == INSTANCE SqliteStore WITH CallsOf <- SqliteCallsOf

-----------------------------------------------------------------------------
(* What a statement does to a table *)

\* A cell that no cell of a statement names stays.
LEMMA Untouched ==
  ASSUME NEW statement, NEW db, NEW n \in Names, NEW k \in KeysOf(n),
         \A c \in statement : ~(c.table = n /\ c.key = k)
  PROVE  Exec(statement, db)[n][k] = db[n][k]
BY DEF Exec

\* One that a single cell names is written by it.
LEMMA Touched ==
  ASSUME NEW statement, NEW db, NEW n \in Names, NEW k \in KeysOf(n),
         NEW c \in statement, c.table = n, c.key = k,
         \A d \in statement : d.table = n /\ d.key = k => d = c
  PROVE  Exec(statement, db)[n][k] = Written(c, db[n][k])
<1>1. {d \in statement : d.table = n /\ d.key = k} = {c}
  OBVIOUS
<1>2. QED
  BY <1>1 DEF Exec

LEMMA Keys ==
  /\ "topics" \in Names /\ KeysOf("topics") = Topics
  /\ "topic_snapshots" \in Names /\ KeysOf("topic_snapshots") = Topics
  /\ "stats_total" \in Names /\ KeysOf("stats_total") = {1}
  /\ "stats_daily" \in Names /\ KeysOf("stats_daily") = Days
BY DEF Names, KeysOf

\* Statements of one cell and of two.
LEMMA OneCell ==
  ASSUME NEW statement, NEW c \in statement, \A e \in statement : e = c,
         NEW db, NEW n \in Names, NEW k \in KeysOf(n)
  PROVE  Exec(statement, db)[n][k] =
           IF c.table = n /\ c.key = k THEN Written(c, db[n][k]) ELSE db[n][k]
<1>1. CASE c.table = n /\ c.key = k
  BY <1>1, Touched
<1>2. CASE ~(c.table = n /\ c.key = k)
  BY <1>2, Untouched
<1>3. QED
  BY <1>1, <1>2

LEMMA TwoCells ==
  ASSUME NEW statement, NEW c \in statement, NEW d \in statement, c.table # d.table,
         \A e \in statement : e = c \/ e = d,
         NEW db, NEW n \in Names, NEW k \in KeysOf(n)
  PROVE  Exec(statement, db)[n][k] =
           IF c.table = n /\ c.key = k THEN Written(c, db[n][k])
           ELSE IF d.table = n /\ d.key = k THEN Written(d, db[n][k]) ELSE db[n][k]
<1>1. CASE c.table = n /\ c.key = k
  BY <1>1, Touched
<1>2. CASE d.table = n /\ d.key = k
  BY <1>2, Touched
<1>3. CASE ~(c.table = n /\ c.key = k) /\ ~(d.table = n /\ d.key = k)
  BY <1>3, Untouched
<1>4. QED
  BY <1>1, <1>2, <1>3

-----------------------------------------------------------------------------
(* The statements of PostgresStore *)

\* What statements of a call that is not inc_stat leave alone.
StatsKept(db, next) ==
  /\ next["stats_total"][1] = db["stats_total"][1]
  /\ \A d \in Days : next["stats_daily"][d] = db["stats_daily"][d]

\* What the two statements of upsert_topic_detail do.
RowWritten(db, next, c) ==
  \A t \in Topics :
    /\ next["topics"][t] = IF t = c.topic THEN c.version ELSE db["topics"][t]
    /\ next["topic_snapshots"][t] = db["topic_snapshots"][t]
SnapshotAdded(db, next, c) ==
  \A t \in Topics :
    /\ next["topics"][t] = db["topics"][t]
    /\ next["topic_snapshots"][t] = IF t = c.topic THEN c.version
                                    ELSE db["topic_snapshots"][t]

LEMMA UpsertLength ==
  ASSUME NEW c, NEW k, WellFormed(c), c.op = "upsert_topic_detail"
  PROVE  Len(Statements(c, k)) = IF k = c.version THEN 1 ELSE 2
BY TablesAssumption DEF WellFormed, Absent, Statements, UpsertTopicDetail

\* The two statements of upsert_topic_detail.
LEMMA UpsertStatements ==
  ASSUME NEW c, NEW k, WellFormed(c), c.op = "upsert_topic_detail", NEW db, NEW i \in 1..2,
         i = 2 => k # c.version,
         NEW statement, Statements(c, k)[i] = statement,
         NEW next, Exec(statement, db) = next
  PROVE  /\ StatsKept(db, next)
         /\ i = 1 => RowWritten(db, next, c)
         /\ i = 2 => SnapshotAdded(db, next, c)
<1> USE Keys
<1>1. c.version # Absent
  BY TablesAssumption DEF WellFormed, Absent
<1> DEFINE title == Cell("topics", c.topic, "set", c.version)
           read == Cell("last_read", c.topic, "set", c.read)
           snapshot == Cell("topic_snapshots", c.topic, "set", c.version)
           row == {title, read}
           add == {snapshot}
<1>2. Statements(c, k) = IF k = c.version THEN <<row>> ELSE <<row, add>>
  BY <1>1 DEF Statements, UpsertTopicDetail
<1>3. /\ title.table = "topics" /\ title.key = c.topic
      /\ read.table = "last_read" /\ snapshot.table = "topic_snapshots"
      /\ snapshot.key = c.topic
  BY DEF Cell
<1>4. \A old : Written(title, old) = c.version /\ Written(snapshot, old) = c.version
  BY DEF Cell, Written
<1>5. /\ title \in row /\ read \in row /\ \A e \in row : e = title \/ e = read
      /\ snapshot \in add /\ \A e \in add : e = snapshot
  OBVIOUS
<1> HIDE DEF title, read, snapshot, row, add
<1>6. ASSUME NEW t \in Topics
      PROVE  /\ Exec(row, db)["topics"][t] =
                  IF t = c.topic THEN c.version ELSE db["topics"][t]
             /\ Exec(row, db)["topic_snapshots"][t] = db["topic_snapshots"][t]
  BY <1>3, <1>4, <1>5, TwoCells
<1>7. ASSUME NEW t \in Topics
      PROVE  /\ Exec(add, db)["topics"][t] = db["topics"][t]
             /\ Exec(add, db)["topic_snapshots"][t] =
                  IF t = c.topic THEN c.version ELSE db["topic_snapshots"][t]
  BY <1>3, <1>4, <1>5, OneCell
<1>8. ASSUME NEW n \in {"stats_total", "stats_daily"}, NEW x \in KeysOf(n)
      PROVE  Exec(row, db)[n][x] = db[n][x] /\ Exec(add, db)[n][x] = db[n][x]
  BY <1>3, <1>5, Untouched
<1>9. StatsKept(db, Exec(row, db)) /\ StatsKept(db, Exec(add, db))
  BY <1>8 DEF StatsKept
<1>10. CASE i = 1
  BY <1>2, <1>6, <1>9, <1>10 DEF RowWritten
<1>11. CASE i = 2
  BY <1>2, <1>7, <1>9, <1>11 DEF SnapshotAdded
<1>12. QED
  BY <1>10, <1>11

\* A statement of one row of one table, and what it makes of what was there.
Row(n, k, how, value) == {Cell(n, k, how, value)}

Make(old, value) == IF old = Absent THEN value ELSE old
Add(old, value) == IF old = Absent THEN old ELSE old + value
Count(old, value) == IF old = Absent THEN value ELSE old + value
Update(old, value) == IF old = Absent THEN old ELSE value

\* The ways to write a row.
LEMMA RowCells ==
  ASSUME NEW table, NEW row, NEW value, NEW db, NEW n \in Names, NEW k \in KeysOf(n)
  PROVE  /\ Exec(Row(table, row, "set", value), db)[n][k] =
              IF n = table /\ k = row THEN value ELSE db[n][k]
         /\ Exec(Row(table, row, "make", value), db)[n][k] =
              IF n = table /\ k = row THEN Make(db[n][k], value) ELSE db[n][k]
         /\ Exec(Row(table, row, "update", value), db)[n][k] =
              IF n = table /\ k = row THEN Update(db[n][k], value) ELSE db[n][k]
         /\ Exec(Row(table, row, "add", value), db)[n][k] =
              IF n = table /\ k = row THEN Add(db[n][k], value) ELSE db[n][k]
         /\ Exec(Row(table, row, "count", value), db)[n][k] =
              IF n = table /\ k = row THEN Count(db[n][k], value) ELSE db[n][k]
<1>1. ASSUME NEW how
      PROVE  Exec(Row(table, row, how, value), db)[n][k] =
               IF table = n /\ row = k THEN Written(Cell(table, row, how, value), db[n][k])
               ELSE db[n][k]
  <2> DEFINE c == Cell(table, row, how, value)
             statement == Row(table, row, how, value)
  <2>1. c \in statement /\ \A e \in statement : e = c
    BY DEF Row
  <2>2. c.table = table /\ c.key = row
    BY DEF Cell
  <2> HIDE DEF c, statement
  <2>3. Exec(statement, db)[n][k] =
          IF table = n /\ row = k THEN Written(c, db[n][k]) ELSE db[n][k]
    BY <2>1, <2>2, OneCell
  <2>4. QED
    BY <2>3 DEF c, statement
<1>2. \A old :
        /\ Written(Cell(table, row, "set", value), old) = value
        /\ Written(Cell(table, row, "make", value), old) = Make(old, value)
        /\ Written(Cell(table, row, "update", value), old) = Update(old, value)
        /\ Written(Cell(table, row, "add", value), old) = Add(old, value)
        /\ Written(Cell(table, row, "count", value), old) = Count(old, value)
  BY DEF Written, Cell, Make, Add, Count, Update
<1>3. QED
  BY <1>1, <1>2

\* A statement of a call that is not upsert_topic_detail leaves topics and
\* snapshots as they are, but for a blank row.
ShelfKept(db, next) ==
  \A t \in Topics :
    /\ \/ next["topics"][t] = db["topics"][t]
       \/ db["topics"][t] = Absent /\ next["topics"][t] = Blank
    /\ next["topic_snapshots"][t] = db["topic_snapshots"][t]

\* The four statements of inc_stat.
LEMMA StatStatements ==
  ASSUME NEW c, NEW k, c.op = "inc_stat", c.day \in Days, NEW db, NEW i \in 1..4,
         NEW statement, Statements(c, k)[i] = statement,
         NEW next, Exec(statement, db) = next
  PROVE  /\ Len(Statements(c, k)) = 4
         /\ ShelfKept(db, next)
         /\ i = 1 => /\ next["stats_total"][1] = Make(db["stats_total"][1], 0)
                     /\ \A d \in Days : next["stats_daily"][d] = db["stats_daily"][d]
         /\ i = 2 => /\ next["stats_total"][1] = Add(db["stats_total"][1], c.by)
                     /\ \A d \in Days : next["stats_daily"][d] = db["stats_daily"][d]
         /\ i = 3 => /\ next["stats_total"][1] = db["stats_total"][1]
                     /\ \A d \in Days : next["stats_daily"][d] =
                          IF d = c.day THEN Make(db["stats_daily"][d], 0)
                          ELSE db["stats_daily"][d]
         /\ i = 4 => /\ next["stats_total"][1] = db["stats_total"][1]
                     /\ \A d \in Days : next["stats_daily"][d] =
                          IF d = c.day THEN Add(db["stats_daily"][d], c.by)
                          ELSE db["stats_daily"][d]
<1> USE Keys
<1>1. Statements(c, k) =
        <<Row("stats_total", 1, "make", 0), Row("stats_total", 1, "add", c.by),
          Row("stats_daily", c.day, "make", 0), Row("stats_daily", c.day, "add", c.by)>>
  BY DEF Statements, IncStat, Row
<1>2. CASE i = 1
  BY <1>1, RowCells, <1>2 DEF ShelfKept
<1>3. CASE i = 2
  BY <1>1, RowCells, <1>3 DEF ShelfKept
<1>4. CASE i = 3
  BY <1>1, RowCells, <1>4 DEF ShelfKept
<1>5. CASE i = 4
  BY <1>1, RowCells, <1>5 DEF ShelfKept
<1>6. QED
  BY <1>2, <1>3, <1>4, <1>5

Watched == {"topics", "topic_snapshots", "stats_total", "stats_daily"}

\* No other call writes snapshots or statistics, or more than a blank row of a
\* topic.
LEMMA OtherStatements ==
  ASSUME NEW c, NEW k, WellFormed(c), c.op \notin {"upsert_topic_detail", "inc_stat"},
         NEW db, NEW i \in 1..Len(Statements(c, k))
  PROVE  LET next == Exec(Statements(c, k)[i], db)
         IN  ShelfKept(db, next) /\ StatsKept(db, next)
<1> USE Keys
<1> DEFINE statement == Statements(c, k)[i]
<1>1. CASE c.op = "update_last_read_post_number"
  <2> DEFINE read == Cell("last_read", c.topic, "set", c.number)
             title == Cell("topics", c.topic, "make", Blank)
  <2>1. statement = {read, title}
    BY <1>1 DEF Statements, UpdateLastReadPostNumber
  <2>2. /\ read \in statement /\ title \in statement
        /\ \A e \in statement : e = read \/ e = title
    BY <2>1
  <2>3. /\ read.table = "last_read" /\ title.table = "topics"
        /\ \A old : Written(title, old) = IF old = Absent THEN Blank ELSE old
    BY DEF Cell, Written
  <2> HIDE DEF read, title, statement
  <2>4. \A n \in Names : \A x \in KeysOf(n) :
          n # "last_read" =>
            \/ Exec(statement, db)[n][x] = db[n][x]
            \/ n = "topics" /\ Exec(statement, db)[n][x] = Written(title, db[n][x])
    BY <2>2, <2>3, TwoCells
  <2>5. QED
    BY <2>3, <2>4 DEF statement, ShelfKept, StatsKept
<1>2. CASE c.op # "update_last_read_post_number"
  <2>1. \A e \in statement : e.table \notin Watched
    <3>1. CASE c.op = "insert_posts"
      BY <3>1 DEF Statements, InsertPosts, Cell, Watched, WellFormed
    <3>2. CASE c.op = "mark_notifications_sent"
      BY <3>2 DEF Statements, MarkNotificationsSent, Cell, Watched, WellFormed
    <3>3. CASE c.op \notin {"insert_posts", "mark_notifications_sent"}
      BY <1>2, <3>3 DEF Statements, UpsertTopicCrawlState, BeginWatchCycle,
           FinishWatchCycle, IncPluginDailyCount, MarkPluginOnce, SetPluginKv,
           LogPluginAction, Cell, Watched
    <3>4. QED
      BY <3>1, <3>2, <3>3
  <2> HIDE DEF statement
  <2>2. \A n \in Names \cap Watched : \A x \in KeysOf(n) :
          Exec(statement, db)[n][x] = db[n][x]
    BY <2>1, Untouched
  <2>3. QED
    BY <2>2 DEF statement, Watched, ShelfKept, StatsKept
<1>3. QED
  BY <1>1, <1>2

-----------------------------------------------------------------------------
(* The inductive invariant of PostgresStore *)

Shape ==
  /\ pc \in [Threads -> {"idle", "key", "run", "failed"}]
  /\ at \in [Threads -> Nat]
  /\ DOMAIN call = Threads /\ DOMAIN key = Threads
  /\ call = [th \in Threads |-> call[th]] /\ key = [th \in Threads |-> key[th]]
  /\ txn \in {"idle", "open", "aborted", "lost"}
  /\ mixed \in BOOLEAN /\ failed \in BOOLEAN /\ counted \in Nat

\* Where a thread can be, and that a failure which leaves a thread behind is
\* remembered.
FlowInv(th) ==
  /\ pc[th] # "idle" => call[th] \in CallsOf[th]
  /\ pc[th] \in {"idle", "key"} => at[th] = 0
  /\ pc[th] = "run" /\ IsRead(call[th]) => at[th] = 0
  /\ pc[th] = "run" => at[th] <= Len(Body(th))
  /\ pc[th] = "failed" => failed

AloneInv ==
  /\ ~mixed => \A th, o \in Threads : pc[th] # "idle" /\ pc[o] # "idle" => th = o
  /\ txn = "aborted" => failed
  /\ txn = "open" => work = disk \/ \E th \in Threads : pc[th] = "run" /\ at[th] > 0

Amounts(db) == [d \in Days |-> Number(db["stats_daily"][d])]

\* After n statements of inc_stat the total has Added, and Owed is not yet in
\* the days; cnt is what the calls before came to.
Added(n, c) == IF n >= 2 THEN c.by ELSE 0
Owed(n, c) == IF n \in {2, 3} THEN c.by ELSE 0

RowsKept(db, n, c) ==
  LET total == db["stats_total"][1]
      daily(d) == db["stats_daily"][d]
  IN  /\ total \in Nat \cup {Absent} /\ \A d \in Days : daily(d) \in Nat \cup {Absent}
      /\ n >= 1 => total # Absent
      /\ n >= 3 => daily(c.day) # Absent
      /\ total = Absent => \A d \in Days : daily(d) = Absent
      /\ n \notin {1, 2} /\ total # Absent => \E d \in Days : daily(d) # Absent

Balanced(db, owed) ==
  \E sum \in Nat :
    Number(db["stats_total"][1]) = sum + owed /\ AddsUpTo(Amounts(db), sum)

Books(db, n, c, cnt) ==
  /\ RowsKept(db, n, c)
  /\ Balanced(db, Owed(n, c))
  /\ cnt + Added(n, c) <= Number(db["stats_total"][1])

\* After n statements of upsert_topic_detail, which has seen the version k.
Shelf(db, n, c, k) ==
  /\ \A t \in Topics : db["topics"][t] \in Versions =>
       \/ db["topic_snapshots"][t] = db["topics"][t]
       \/ n = 1 /\ k # c.version /\ t = c.topic
  /\ n >= 1 => db["topics"][c.topic] = c.version

Whole(db, cnt) == Books(db, 0, NoCall, cnt) /\ Shelf(db, 0, NoCall, Absent)

\* How many statements of such a call a thread has executed.
Progress(th, op) == IF pc[th] = "run" /\ call[th].op = op THEN at[th] ELSE 0

ViewBooks ==
  /\ \A th \in Threads : Progress(th, "inc_stat") > 0 =>
       Books(View, Progress(th, "inc_stat"), call[th], counted)
  /\ (\A th \in Threads : Progress(th, "inc_stat") = 0) => Books(View, 0, NoCall, counted)

ViewShelf ==
  /\ \A th \in Threads : Progress(th, "upsert_topic_detail") > 0 =>
       Shelf(View, Progress(th, "upsert_topic_detail"), call[th], key[th])
  /\ (\A th \in Threads : Progress(th, "upsert_topic_detail") = 0) =>
       Shelf(View, 0, NoCall, Absent)

\* The version a thread has seen is still there if it is the call's own.
ViewKeys ==
  \A th \in Threads :
    pc[th] = "run" /\ call[th].op = "upsert_topic_detail" /\ key[th] = call[th].version =>
      View["topics"][call[th].topic] = call[th].version

Healthy == ~(mixed /\ failed)

ViewInv == Healthy /\ txn \in {"idle", "open"} => ViewBooks /\ ViewShelf /\ ViewKeys

DiskInv == ~mixed \/ (~failed /\ Quiet) => Whole(disk, counted)

Inv ==
  /\ Shape /\ AbortedIsEnded /\ AloneInv /\ ViewInv /\ DiskInv
  /\ \A th \in Threads : FlowInv(th)

-----------------------------------------------------------------------------
(* Sums and counters *)

\* What adds up depends on the amounts alone.
LEMMA SumStays ==
  ASSUME NEW f, NEW g, \A d \in Days : f[d] = g[d], NEW total, AddsUpTo(f, total)
  PROVE  AddsUpTo(g, total)
BY DEF AddsUpTo

\* An amount that grows takes the total with it.
LEMMA SumGrows ==
  ASSUME NEW f, NEW g, \A d \in Days : f[d] \in Nat, NEW day \in Days, NEW by \in Nat,
         \A d \in Days : g[d] = IF d = day THEN f[d] + by ELSE f[d],
         NEW total \in Nat, AddsUpTo(f, total)
  PROVE  AddsUpTo(g, total + by)
<1> USE TablesAssumption DEF Days
<1>1. PICK sum \in [0..LastDay -> 0..total] :
        /\ sum[0] = 0 /\ sum[LastDay] = total
        /\ \A d \in Days : sum[d] = sum[d - 1] + f[d]
  BY DEF AddsUpTo
<1> DEFINE more == [d \in 0..LastDay |-> IF d < day THEN sum[d] ELSE sum[d] + by]
<1>2. more \in [0..LastDay -> 0..(total + by)]
  OBVIOUS
<1>3. more[0] = 0 /\ more[LastDay] = total + by
  BY <1>1
<1>4. ASSUME NEW d \in Days PROVE more[d] = more[d - 1] + g[d]
  <2>1. d \in 0..LastDay /\ d - 1 \in 0..LastDay
    OBVIOUS
  <2>2. sum[d] = sum[d - 1] + f[d] /\ sum[d - 1] \in Nat /\ f[d] \in Nat
    BY <1>1, <2>1
  <2>3. CASE d < day
    BY <2>1, <2>2, <2>3
  <2>4. CASE d = day
    BY <2>1, <2>2, <2>4
  <2>5. CASE d > day
    BY <2>1, <2>2, <2>5
  <2>6. QED
    BY <2>3, <2>4, <2>5
<1>5. QED
  BY <1>2, <1>3, <1>4 DEF AddsUpTo

\* Books depend on the statistics alone.
LEMMA BooksStay ==
  ASSUME NEW db, NEW next, NEW n, NEW c, n >= 3 => c.day \in Days, NEW cnt,
         Books(db, n, c, cnt), StatsKept(db, next)
  PROVE  Books(next, n, c, cnt)
<1>1. \A sum : AddsUpTo(Amounts(db), sum) => AddsUpTo(Amounts(next), sum)
  BY SumStays DEF Amounts, StatsKept
<1>2. RowsKept(next, n, c)
  BY DEF Books, RowsKept, StatsKept
<1>3. Balanced(next, Owed(n, c))
  BY <1>1 DEF Books, Balanced, StatsKept
<1>4. QED
  BY <1>2, <1>3 DEF Books, StatsKept

\* The call that has not begun, or has just returned.
LEMMA BooksBegin ==
  ASSUME NEW db, NEW c, NEW d, NEW cnt, Books(db, 0, c, cnt)
  PROVE  Books(db, 0, d, cnt)
BY DEF Books, RowsKept, Balanced, Added, Owed

LEMMA BooksEnd ==
  ASSUME NEW db, NEW c, NEW d, c.by \in Nat, NEW cnt \in Nat, Books(db, 4, c, cnt)
  PROVE  Books(db, 0, d, cnt + c.by)
BY DEF Books, RowsKept, Balanced, Added, Owed

\* Each statement of inc_stat takes the books one statement further.
LEMMA BooksNext ==
  ASSUME NEW c, NEW k, WellFormed(c), c.op = "inc_stat", NEW db, NEW n \in 1..4,
         NEW cnt \in Nat, Books(db, n - 1, c, cnt),
         NEW statement, Statements(c, k)[n] = statement,
         NEW next, Exec(statement, db) = next
  PROVE  Books(next, n, c, cnt)
<1> DEFINE old == db["stats_total"][1]
           new == next["stats_total"][1]
           was(d) == db["stats_daily"][d]
           is(d) == next["stats_daily"][d]
<1>1. c.day \in Days /\ c.by \in Nat
  BY DEF WellFormed
<1>2. /\ n = 1 => new = Make(old, 0) /\ \A d \in Days : is(d) = was(d)
      /\ n = 2 => new = Add(old, c.by) /\ \A d \in Days : is(d) = was(d)
      /\ n = 3 => new = old /\ \A d \in Days :
           is(d) = IF d = c.day THEN Make(was(d), 0) ELSE was(d)
      /\ n = 4 => new = old /\ \A d \in Days :
           is(d) = IF d = c.day THEN Add(was(d), c.by) ELSE was(d)
  <2>1. n = 1 => new = Make(old, 0) /\ \A d \in Days : is(d) = was(d)
    BY <1>1, StatStatements
  <2>2. n = 2 => new = Add(old, c.by) /\ \A d \in Days : is(d) = was(d)
    BY <1>1, StatStatements
  <2>3. n = 3 => new = old /\ \A d \in Days :
          is(d) = IF d = c.day THEN Make(was(d), 0) ELSE was(d)
    BY <1>1, StatStatements
  <2>4. n = 4 => new = old /\ \A d \in Days :
          is(d) = IF d = c.day THEN Add(was(d), c.by) ELSE was(d)
    BY <1>1, StatStatements
  <2>5. QED
    BY <2>1, <2>2, <2>3, <2>4
<1>3. PICK sum \in Nat : Number(old) = sum + Owed(n - 1, c) /\ AddsUpTo(Amounts(db), sum)
  BY DEF Books, Balanced
<1>4. /\ old \in Nat \cup {Absent} /\ \A d \in Days : was(d) \in Nat \cup {Absent}
      /\ n > 1 => old # Absent
      /\ n > 3 => was(c.day) # Absent
      /\ old = Absent => \A d \in Days : was(d) = Absent
      /\ n \notin {2, 3} /\ old # Absent => \E d \in Days : was(d) # Absent
      /\ cnt + Added(n - 1, c) <= Number(old)
  BY DEF Books, RowsKept
<1>5. CASE n = 1
  <2>1. new = Number(old)
    BY <1>2, <1>5 DEF Make, Number
  <2>2. \A d \in Days : Amounts(next)[d] = Amounts(db)[d]
    BY <1>2, <1>5 DEF Amounts
  <2>3. AddsUpTo(Amounts(next), sum)
    BY <2>2, <1>3, SumStays
  <2>4. new \in Nat /\ Number(new) = new
    BY <2>1, <1>4 DEF Number, Absent
  <2>5. QED
    BY <2>1, <2>3, <2>4, <1>2, <1>3, <1>4, <1>5
    DEF Books, RowsKept, Balanced, Owed, Added, Absent
<1>6. CASE n = 2
  <2>1. new = old + c.by /\ old \in Nat /\ Number(old) = old
    BY <1>2, <1>4, <1>6 DEF Add, Number
  <2>2. \A d \in Days : Amounts(next)[d] = Amounts(db)[d]
    BY <1>2, <1>6 DEF Amounts
  <2>3. AddsUpTo(Amounts(next), sum)
    BY <2>2, <1>3, SumStays
  <2>4. new \in Nat /\ Number(new) = new
    BY <2>1, <1>1 DEF Number, Absent
  <2>5. QED
    BY <2>1, <2>3, <2>4, <1>1, <1>2, <1>3, <1>4, <1>6
    DEF Books, RowsKept, Balanced, Owed, Added, Absent
<1>7. CASE n = 3
  <2>1. new = old /\ old \in Nat /\ Number(old) = old
    BY <1>2, <1>4, <1>7 DEF Number
  <2>2. \A d \in Days : is(d) \in Nat \cup {Absent} /\ Number(is(d)) = Number(was(d))
    BY <1>2, <1>4, <1>7 DEF Make, Number, Absent
  <2>3. is(c.day) # Absent
    BY <1>1, <1>2, <1>4, <1>7 DEF Make, Absent
  <2>4. AddsUpTo(Amounts(next), sum)
    <3>1. \A d \in Days : Amounts(next)[d] = Amounts(db)[d]
      BY <2>2 DEF Amounts
    <3>2. QED
      BY <3>1, <1>3, SumStays
  <2>5. QED
    BY <2>1, <2>2, <2>3, <2>4, <1>1, <1>3, <1>4, <1>7
    DEF Books, RowsKept, Balanced, Owed, Added, Absent
<1>8. CASE n = 4
  <2>1. new = old /\ old \in Nat /\ Number(old) = old
    BY <1>2, <1>4, <1>8 DEF Number
  <2>2. /\ \A d \in Days : is(d) \in Nat \cup {Absent} /\ Number(was(d)) \in Nat
        /\ \A d \in Days :
             Number(is(d)) = IF d = c.day THEN Number(was(d)) + c.by ELSE Number(was(d))
        /\ is(c.day) # Absent
    BY <1>1, <1>2, <1>4, <1>8 DEF Add, Number, Absent
  <2>3. AddsUpTo(Amounts(next), sum + c.by)
    <3>1. /\ \A d \in Days : Amounts(db)[d] \in Nat
          /\ \A d \in Days : Amounts(next)[d] =
               IF d = c.day THEN Amounts(db)[d] + c.by ELSE Amounts(db)[d]
      BY <2>2 DEF Amounts
    <3>2. QED
      BY <3>1, <1>1, <1>3, SumGrows
  <2>4. sum + c.by \in Nat /\ Number(old) = sum + c.by
    BY <1>1, <1>3, <1>8 DEF Owed
  <2>5. QED
    BY <2>1, <2>2, <2>3, <2>4, <1>1, <1>4, <1>8
    DEF Books, RowsKept, Balanced, Owed, Added, Absent
<1>9. QED
  BY <1>5, <1>6, <1>7, <1>8

-----------------------------------------------------------------------------
(* Topics and their snapshots *)

LEMMA VersionIsNew == \A v \in Versions : v # Absent /\ v # Blank
BY TablesAssumption DEF Absent, Blank

\* A shelf may gain blank rows: a version is none.
LEMMA ShelfStays ==
  ASSUME NEW db, NEW next, ShelfKept(db, next), NEW n \in Nat, NEW c, NEW k,
         n >= 1 => c.topic \in Topics /\ c.version \in Versions, Shelf(db, n, c, k)
  PROVE  Shelf(next, n, c, k)
BY VersionIsNew DEF Shelf, ShelfKept

\* The first statement of upsert_topic_detail leaves the snapshot to the second, unless the
\* row has had the version already.
LEMMA ShelfNext ==
  ASSUME NEW c, NEW k, WellFormed(c), c.op = "upsert_topic_detail", NEW db, NEW n \in 1..2,
         n = 2 => k # c.version, Shelf(db, n - 1, c, k),
         n = 1 /\ k = c.version => db["topics"][c.topic] = c.version,
         NEW statement, Statements(c, k)[n] = statement,
         NEW next, Exec(statement, db) = next
  PROVE  Shelf(next, n, c, k)
<1>1. c.topic \in Topics /\ c.version \in Versions
  BY DEF WellFormed
<1>2. CASE n = 1
  <2>1. RowWritten(db, next, c)
    BY <1>2, UpsertStatements
  <2>2. \A t \in Topics : db["topics"][t] \in Versions =>
          db["topic_snapshots"][t] = db["topics"][t]
    BY <1>2 DEF Shelf
  <2>3. QED
    BY <2>1, <2>2, <1>1, <1>2 DEF Shelf, RowWritten
<1>3. CASE n = 2
  <2>1. SnapshotAdded(db, next, c)
    BY <1>3, UpsertStatements
  <2>2. /\ \A t \in Topics : db["topics"][t] \in Versions =>
             db["topic_snapshots"][t] = db["topics"][t] \/ t = c.topic
        /\ db["topics"][c.topic] = c.version
    BY <1>3 DEF Shelf
  <2>3. QED
    BY <2>1, <2>2, <1>1, <1>3 DEF Shelf, SnapshotAdded
<1>4. QED
  BY <1>2, <1>3

LEMMA ShelfEnd ==
  ASSUME NEW c, NEW k, NEW db, NEW n, Shelf(db, n, c, k), n = 1 => k = c.version,
         NEW d, NEW j
  PROVE  Shelf(db, 0, d, j)
BY DEF Shelf

-----------------------------------------------------------------------------
(* The threads *)

\* Only one thread writes statistics and topics.
LEMMA OneWriter ==
  ASSUME Inv, NEW th \in Threads, NEW o \in Threads, pc[th] # "idle", pc[o] # "idle",
         call[th].op \in {"inc_stat", "upsert_topic_detail"},
         call[o].op \in {"inc_stat", "upsert_topic_detail"}
  PROVE  th = o
<1>1. call[th] \in CallsOf[th] /\ call[o] \in CallsOf[o]
  BY DEF Inv, FlowInv
<1>2. QED
  BY <1>1, PostgresAssumption

LEMMA CallsAreWellFormed ==
  ASSUME Inv, NEW th \in Threads, pc[th] # "idle"
  PROVE  WellFormed(call[th])
BY PostgresAssumption DEF Inv, FlowInv

\* A statement, as the lemmas below need it.
LEMMA StatementStep ==
  ASSUME Inv, NEW th \in Threads, Statement(th), Healthy
  PROVE  /\ pc[th] = "run" /\ call[th] \in CallsOf[th] /\ WellFormed(call[th])
         /\ at[th] \in Nat /\ at[th] < Len(Statements(call[th], key[th]))
         /\ View' = Exec(Statements(call[th], key[th])[at[th] + 1], View)
         /\ UNCHANGED <<pc, call, key, counted>>
         /\ at'[th] = at[th] + 1 /\ \A o \in Threads \ {th} : at'[o] = at[o]
         /\ ViewBooks /\ ViewShelf /\ ViewKeys
<1>1. /\ pc[th] = "run" /\ call[th] \in CallsOf[th] /\ at[th] \in Nat
      /\ WellFormed(call[th]) /\ at[th] < Len(Statements(call[th], key[th]))
  BY CallsAreWellFormed DEF Statement, Writing, Body, Inv, FlowInv, Shape
<1>2. View' = Exec(Statements(call[th], key[th])[at[th] + 1], View)
  BY DEF Statement, View, Body
<1>3. /\ UNCHANGED <<pc, call, key, counted>>
      /\ at'[th] = at[th] + 1 /\ \A o \in Threads \ {th} : at'[o] = at[o]
  BY DEF Statement, Inv, Shape
<1>4. ViewBooks /\ ViewShelf /\ ViewKeys
  BY DEF Inv, ViewInv, Statement
<1>5. QED
  BY <1>1, <1>2, <1>3, <1>4

LEMMA BooksAfterStatement ==
  ASSUME Inv, NEW th \in Threads, Statement(th), Healthy
  PROVE  ViewBooks'
<1> DEFINE c == call[th]
           k == key[th]
           n == at[th] + 1
           statement == Statements(c, k)[n]
<1>1. /\ pc[th] = "run" /\ WellFormed(c) /\ at[th] \in Nat /\ n \in 1..Len(Statements(c, k))
      /\ Exec(statement, View) = View'
      /\ UNCHANGED <<pc, call, key, counted>>
      /\ at'[th] = n /\ \A o \in Threads \ {th} : at'[o] = at[o]
      /\ ViewBooks /\ counted \in Nat
  BY StatementStep DEF Inv, Shape
<1>2. /\ Progress(th, "inc_stat") = IF c.op = "inc_stat" THEN at[th] ELSE 0
      /\ Progress(th, "inc_stat")' = IF c.op = "inc_stat" THEN n ELSE 0
      /\ \A o \in Threads \ {th} : Progress(o, "inc_stat")' = Progress(o, "inc_stat")
  BY <1>1 DEF Progress
<1>3. CASE c.op = "inc_stat"
  <2>1. \A o \in Threads \ {th} : Progress(o, "inc_stat") = 0
    BY <1>1, <1>2, <1>3, OneWriter DEF Progress
  <2>2. Books(View, at[th], c, counted)
    <3>1. CASE at[th] = 0
      <4>1. Books(View, 0, NoCall, counted)
        BY <1>1, <1>2, <2>1, <3>1 DEF ViewBooks
      <4>2. QED
        BY <4>1, <3>1, BooksBegin
    <3>2. CASE at[th] > 0
      BY <1>1, <1>2, <1>3, <3>2 DEF ViewBooks
    <3>3. QED
      BY <1>1, <1>2, <3>1, <3>2
  <2>3. n \in 1..4 /\ at[th] = n - 1
    <3>1. Len(Statements(c, k)) = 4
      BY <1>3 DEF Statements, IncStat
    <3>2. QED
      BY <1>1, <1>2, <3>1
  <2>4. Books(View', n, c, counted)
    <3> DEFINE m == n
               st == statement
    <3>1. m \in 1..4 /\ Books(View, m - 1, c, counted) /\ Statements(c, k)[m] = st
          /\ Exec(st, View) = View'
      BY <1>1, <1>2, <2>2, <2>3
    <3> HIDE DEF m, st
    <3>2. Books(View', m, c, counted)
      BY <1>1, <1>2, <1>3, <3>1, BooksNext
    <3>3. QED
      BY <3>2 DEF m
  <2>5. QED
    BY <1>1, <1>2, <1>3, <2>1, <2>4 DEF ViewBooks
<1>4. CASE c.op # "inc_stat"
  <2>1. StatsKept(View, View')
    <3>1. CASE c.op = "upsert_topic_detail"
      <4>1. Len(Statements(c, k)) = IF k = c.version THEN 1 ELSE 2
        BY <1>1, <1>2, <3>1, UpsertLength
      <4> DEFINE m == n
                 st == statement
      <4>2. m \in 1..2 /\ (m = 2 => k # c.version) /\ Statements(c, k)[m] = st
            /\ Exec(st, View) = View'
        BY <1>1, <1>2, <4>1
      <4> HIDE DEF m, st
      <4>3. QED
        BY <1>1, <1>2, <3>1, <4>2, UpsertStatements
    <3>2. CASE c.op # "upsert_topic_detail"
      BY <1>1, <1>2, <1>4, <3>2, OtherStatements
    <3>3. QED
      BY <3>1, <3>2
  <2>2. \A o \in Threads : Progress(o, "inc_stat")' = Progress(o, "inc_stat")
    BY <1>1, <1>2, <1>4
  <2>3. ASSUME NEW o \in Threads, Progress(o, "inc_stat") > 0
        PROVE  Books(View', Progress(o, "inc_stat"), call[o], counted)
    <3>1. call[o].day \in Days
      BY <2>3, CallsAreWellFormed DEF Progress, WellFormed
    <3>2. Books(View, Progress(o, "inc_stat"), call[o], counted)
      BY <1>1, <1>2, <2>3 DEF ViewBooks
    <3>3. QED
      BY <2>1, <3>1, <3>2, BooksStay
  <2>4. ASSUME \A o \in Threads : Progress(o, "inc_stat") = 0
        PROVE  Books(View', 0, NoCall, counted)
    <3>1. Books(View, 0, NoCall, counted)
      BY <1>1, <1>2, <2>4 DEF ViewBooks
    <3>2. QED
      BY <2>1, <3>1, BooksStay
  <2>5. QED
    BY <1>1, <1>2, <2>2, <2>3, <2>4 DEF ViewBooks
<1>5. QED
  BY <1>3, <1>4

\* The version a thread has seen is its call's own: the row has it already.
LEMMA ShelfAfterStatement ==
  ASSUME Inv, NEW th \in Threads, Statement(th), Healthy
  PROVE  (ViewShelf /\ ViewKeys)'
<1> DEFINE c == call[th]
           k == key[th]
           n == at[th] + 1
           statement == Statements(c, k)[n]
           op == "upsert_topic_detail"
<1>1. /\ pc[th] = "run" /\ WellFormed(c) /\ at[th] \in Nat /\ n \in 1..Len(Statements(c, k))
      /\ Exec(statement, View) = View'
      /\ UNCHANGED <<pc, call, key>>
      /\ at'[th] = n /\ \A o \in Threads \ {th} : at'[o] = at[o]
      /\ ViewShelf /\ ViewKeys
  BY StatementStep
<1>2. /\ Progress(th, op) = IF c.op = op THEN at[th] ELSE 0
      /\ Progress(th, op)' = IF c.op = op THEN n ELSE 0
      /\ \A o \in Threads \ {th} : Progress(o, op)' = Progress(o, op)
  BY <1>1 DEF Progress
<1>3. CASE c.op = op
  <2>1. \A o \in Threads \ {th} : Progress(o, op) = 0
    BY <1>1, <1>2, <1>3, OneWriter DEF Progress
  <2>2. Shelf(View, at[th], c, k)
    <3>1. CASE at[th] = 0
      <4>1. Shelf(View, 0, NoCall, Absent)
        BY <1>1, <1>2, <1>3, <2>1, <3>1 DEF ViewShelf
      <4>2. QED
        BY <4>1, <3>1 DEF Shelf
    <3>2. CASE at[th] > 0
      BY <1>1, <1>2, <1>3, <3>2 DEF ViewShelf
    <3>3. QED
      BY <1>1, <1>2, <3>1, <3>2
  <2>3. n \in 1..2 /\ at[th] = n - 1 /\ (n = 2 => k # c.version)
    <3>1. Len(Statements(c, k)) = IF k = c.version THEN 1 ELSE 2
      BY <1>1, <1>2, <1>3, UpsertLength
    <3>2. QED
      BY <1>1, <1>2, <3>1
  <2>4. k = c.version => View["topics"][c.topic] = c.version
    BY <1>1, <1>2, <1>3 DEF ViewKeys
  <2> DEFINE m == n
             st == statement
  <2>5. m \in 1..2 /\ (m = 2 => k # c.version) /\ Shelf(View, m - 1, c, k)
        /\ Statements(c, k)[m] = st /\ Exec(st, View) = View'
    BY <1>1, <1>2, <2>2, <2>3
  <2> HIDE DEF m, st
  <2>6. Shelf(View', m, c, k)
    BY <1>1, <1>2, <1>3, <2>4, <2>5, ShelfNext
  <2>7. View'["topics"][c.topic] = c.version
    BY <2>5, <2>6 DEF Shelf
  <2>8. ViewShelf'
    BY <1>1, <1>2, <1>3, <2>1, <2>6 DEF ViewShelf, m
  <2>9. ViewKeys'
    BY <1>1, <1>2, <1>3, <2>7, OneWriter DEF ViewKeys
  <2>10. QED
    BY <2>8, <2>9
<1>4. CASE c.op # op
  <2>1. ShelfKept(View, View')
    <3>1. CASE c.op = "inc_stat"
      <4>1. c.day \in Days /\ n \in 1..4
        BY <1>1, <1>2, <3>1 DEF WellFormed, Statements, IncStat
      <4> DEFINE m == n
                 st == statement
      <4>2. m \in 1..4 /\ Statements(c, k)[m] = st /\ Exec(st, View) = View'
        BY <1>1, <1>2, <4>1
      <4> HIDE DEF m, st
      <4>3. QED
        BY <3>1, <4>1, <4>2, StatStatements, ZenonT(40)
    <3>2. CASE c.op # "inc_stat"
      BY <1>1, <1>2, <1>4, <3>2, OtherStatements
    <3>3. QED
      BY <3>1, <3>2
  <2>2. \A o \in Threads : Progress(o, op)' = Progress(o, op)
    BY <1>1, <1>2, <1>4
  <2>3. ASSUME NEW o \in Threads, Progress(o, op) > 0
        PROVE  Shelf(View', Progress(o, op), call[o], key[o])
    <3>1. /\ call[o].topic \in Topics /\ call[o].version \in Versions
          /\ Progress(o, op) \in Nat
      BY <2>3, CallsAreWellFormed DEF Progress, WellFormed, Inv, Shape
    <3>2. Shelf(View, Progress(o, op), call[o], key[o])
      BY <1>1, <1>2, <2>3 DEF ViewShelf
    <3>3. QED
      BY <2>1, <3>1, <3>2, ShelfStays
  <2>4. ASSUME \A o \in Threads : Progress(o, op) = 0
        PROVE  Shelf(View', 0, NoCall, Absent)
    <3>1. Shelf(View, 0, NoCall, Absent)
      BY <1>1, <1>2, <2>4 DEF ViewShelf
    <3>2. QED
      BY <2>1, <3>1, ShelfStays
  <2>5. ViewShelf'
    BY <1>1, <1>2, <2>2, <2>3, <2>4 DEF ViewShelf
  <2>6. ASSUME NEW o \in Threads, pc[o] = "run", call[o].op = op, key[o] = call[o].version
        PROVE  View'["topics"][call[o].topic] = call[o].version
    <3>1. call[o].topic \in Topics /\ call[o].version \in Versions
      BY <2>6, CallsAreWellFormed DEF WellFormed
    <3>2. View["topics"][call[o].topic] = call[o].version
      BY <1>1, <1>2, <2>6 DEF ViewKeys
    <3>3. QED
      BY <2>1, <3>1, <3>2, VersionIsNew DEF ShelfKept
  <2>7. ViewKeys'
    BY <1>1, <1>2, <2>6 DEF ViewKeys
  <2>8. QED
    BY <2>5, <2>7
<1>5. QED
  BY <1>3, <1>4

-----------------------------------------------------------------------------
(* The steps of PostgresStore *)

\* A call has a number of statements.
LEMMA LengthIsNat ==
  ASSUME NEW c, NEW k, WellFormed(c)
  PROVE  Len(Statements(c, k)) \in Nat
<1>1. CASE c.op = "insert_posts"
  <2>1. Len(c.ids) \in Nat
    BY <1>1 DEF WellFormed
  <2>2. InsertPosts(c) \in
          Seq({{Cell("posts", c.ids[i], "set", c.topic)} : i \in 1..Len(c.ids)})
    BY <2>1 DEF InsertPosts
  <2>3. QED
    BY <2>2, <1>1 DEF Statements
<1>2. CASE c.op = "mark_notifications_sent"
  <2>1. Len(c.ids) \in Nat
    BY <1>2 DEF WellFormed
  <2>2. MarkNotificationsSent(c) \in
          Seq({{Cell("notification_dedupe", c.ids[i], "make", 0)} : i \in 1..Len(c.ids)})
    BY <2>1 DEF MarkNotificationsSent
  <2>3. QED
    BY <2>2, <1>2 DEF Statements
<1>3. CASE c.op \notin {"insert_posts", "mark_notifications_sent"}
  BY <1>3 DEF Statements, UpsertTopicDetail, UpsertTopicCrawlState, UpdateLastReadPostNumber,
       BeginWatchCycle, FinishWatchCycle, IncStat, IncPluginDailyCount, MarkPluginOnce,
       SetPluginKv, LogPluginAction
<1>4. QED
  BY <1>1, <1>2, <1>3

\* Threads that make no progress leave the view's books and shelf as they are.
LEMMA ViewKept ==
  ASSUME ViewBooks, ViewShelf, View' = View, counted' = counted,
         \A o \in Threads :
           \/ /\ pc'[o] = pc[o] /\ at'[o] = at[o]
              /\ call'[o] = call[o] /\ key'[o] = key[o]
           \/ at[o] = 0 /\ at'[o] = 0
  PROVE  ViewBooks' /\ ViewShelf'
<1>1. ASSUME NEW o \in Threads, NEW op
      PROVE  /\ Progress(o, op)' = Progress(o, op)
             /\ Progress(o, op) > 0 => call'[o] = call[o] /\ key'[o] = key[o]
  BY DEF Progress
<1>2. ViewBooks'
  BY <1>1 DEF ViewBooks
<1>3. ViewShelf'
  BY <1>1 DEF ViewShelf
<1>4. QED
  BY <1>2, <1>3

LEMMA FlowKept ==
  ASSUME NEW o \in Threads, FlowInv(o), failed => failed',
         pc'[o] = pc[o], at'[o] = at[o], call'[o] = call[o], key'[o] = key[o]
  PROVE  FlowInv(o)'
BY DEF FlowInv, Body

\* Each step keeps the invariant.
LEMMA BeginKeeps ==
  ASSUME Inv, NEW th \in Threads, NEW c \in CallsOf[th], Begin(th, c)
  PROVE  Inv'
<1>1. /\ WellFormed(c) /\ pc[th] = "idle" /\ at[th] = 0
      /\ UNCHANGED <<disk, txn, work, key, at, counted, failed>>
      /\ call'[th] = c /\ \A o \in Threads \ {th} : call'[o] = call[o] /\ pc'[o] = pc[o]
      /\ pc'[th] = IF c.op = "upsert_topic_detail" THEN "key" ELSE "run"
  BY PostgresAssumption DEF Begin, Inv, Shape, FlowInv
<1>2. (mixed => mixed') /\ (Healthy' => Healthy) /\ ~Quiet'
  <2>1. mixed => mixed'
    BY DEF Begin
  <2>2. (failed <=> failed')
    BY <1>1
  <2>3. ~Quiet'
    BY <1>1 DEF Quiet
  <2>4. QED
    BY <2>1, <2>2, <2>3 DEF Healthy
<1>3. Shape'
  BY DEF Begin, Inv, Shape
<1>4. \A o \in Threads : FlowInv(o)'
  <2>1. FlowInv(th)'
    BY <1>1, LengthIsNat DEF FlowInv, Body
  <2>2. ASSUME NEW o \in Threads \ {th} PROVE FlowInv(o)'
    BY <1>1, FlowKept DEF Inv
  <2>3. QED
    BY <2>1, <2>2
<1>5. AbortedIsEnded'
  BY <1>1 DEF Inv, AbortedIsEnded
<1>6. AloneInv'
  <2>1. ~mixed' => \A o \in Threads : pc[o] = "idle"
    BY DEF Begin
  <2>2. ~mixed' => \A o, p \in Threads : pc'[o] # "idle" /\ pc'[p] # "idle" => o = p
    BY <1>1, <2>1
  <2>3. QED
    BY <1>1, <2>2 DEF Inv, AloneInv
<1>7. ViewInv'
  <2>1. SUFFICES ASSUME Healthy', txn' \in {"idle", "open"}
                 PROVE  (ViewBooks /\ ViewShelf /\ ViewKeys)'
    BY DEF ViewInv
  <2>2. ViewBooks /\ ViewShelf /\ ViewKeys
    BY <1>1, <1>2, <2>1 DEF Inv, ViewInv
  <2>3. View' = View
    BY <1>1 DEF View
  <2>4. ViewBooks' /\ ViewShelf'
    BY <1>1, <2>2, <2>3, ViewKept
  <2>5. ViewKeys'
    BY <1>1, <2>2, <2>3 DEF ViewKeys
  <2>6. QED
    BY <2>4, <2>5
<1>8. DiskInv'
  BY <1>1, <1>2 DEF Inv, DiskInv
<1>9. QED
  BY <1>3, <1>4, <1>5, <1>6, <1>7, <1>8 DEF Inv

LEMMA ReadKeyKeeps ==
  ASSUME Inv, NEW th \in Threads, ReadKey(th)
  PROVE  Inv'
<1>1. /\ pc[th] = "key" /\ at[th] = 0 /\ WellFormed(call[th]) /\ call[th] \in CallsOf[th]
      /\ UNCHANGED <<disk, call, at, counted, mixed, failed>>
      /\ txn \in {"idle", "open"} /\ txn' = "open" /\ work' = View
      /\ pc'[th] = "run" /\ \A o \in Threads \ {th} : key'[o] = key[o] /\ pc'[o] = pc[o]
      /\ key'[th] = View["topics"][call[th].topic]
  BY CallsAreWellFormed DEF ReadKey, Opened, Inv, Shape, FlowInv
<1>2. Shape'
  BY DEF ReadKey, Opened, Inv, Shape
<1>3. \A o \in Threads : FlowInv(o)'
  <2>1. FlowInv(th)'
    BY <1>1, LengthIsNat DEF FlowInv, Body
  <2>2. ASSUME NEW o \in Threads \ {th} PROVE FlowInv(o)'
    BY <1>1, FlowKept DEF Inv
  <2>3. QED
    BY <2>1, <2>2
<1>4. AbortedIsEnded'
  BY <1>1 DEF AbortedIsEnded
<1>5. AloneInv'
  <2>1. work' = disk' \/ \E o \in Threads : pc'[o] = "run" /\ at'[o] > 0
    BY <1>1 DEF Inv, AloneInv, View
  <2>2. QED
    BY <1>1, <2>1 DEF Inv, AloneInv
<1>6. ViewInv'
  <2>1. SUFFICES ASSUME Healthy'
                 PROVE  (ViewBooks /\ ViewShelf /\ ViewKeys)'
    BY DEF ViewInv
  <2>2. ViewBooks /\ ViewShelf /\ ViewKeys
    BY <1>1, <2>1 DEF Inv, ViewInv, Healthy
  <2>3. View' = View
    BY <1>1 DEF View
  <2>4. ViewBooks' /\ ViewShelf'
    BY <1>1, <2>2, <2>3, ViewKept
  <2>5. ViewKeys'
    BY <1>1, <2>2, <2>3 DEF ViewKeys
  <2>6. QED
    BY <2>4, <2>5
<1>7. DiskInv'
  BY <1>1 DEF Inv, DiskInv, Quiet
<1>8. QED
  BY <1>2, <1>3, <1>4, <1>5, <1>6, <1>7 DEF Inv

\* Where no thread is under way, or only one that is about to return, what the
\* invariant says of the view is that the tables are whole.
LEMMA QuietView ==
  ASSUME ViewBooks, ViewShelf, \A o \in Threads : pc[o] = "run" => at[o] = 0
  PROVE  Whole(View, counted)
<1>1. \A o \in Threads : \A op : Progress(o, op) = 0
  BY DEF Progress
<1>2. QED
  BY <1>1 DEF ViewBooks, ViewShelf, Whole

LEMMA WholeView ==
  ASSUME Whole(View, counted), \A o \in Threads : pc[o] = "run" => at[o] = 0
  PROVE  ViewBooks /\ ViewShelf
<1>1. \A o \in Threads : \A op : Progress(o, op) = 0
  BY DEF Progress
<1>2. QED
  BY <1>1 DEF ViewBooks, ViewShelf, Whole

LEMMA QueryKeeps ==
  ASSUME Inv, NEW th \in Threads, Query(th)
  PROVE  Inv'
<1>1. /\ pc[th] = "run" /\ IsRead(call[th]) /\ at[th] = 0
      /\ UNCHANGED <<disk, counted, mixed, failed>>
      /\ txn \in {"idle", "open"} /\ txn' = "open" /\ work' = View
      /\ pc'[th] = "idle" /\ at'[th] = 0
      /\ \A o \in Threads \ {th} : /\ key'[o] = key[o] /\ pc'[o] = pc[o]
                                   /\ call'[o] = call[o] /\ at'[o] = at[o]
  BY DEF Query, Opened, Return, Inv, Shape, FlowInv
<1>2. Shape'
  BY DEF Query, Opened, Return, Inv, Shape
<1>3. \A o \in Threads : FlowInv(o)'
  <2>1. FlowInv(th)'
    BY <1>1 DEF FlowInv
  <2>2. ASSUME NEW o \in Threads \ {th} PROVE FlowInv(o)'
    BY <1>1, FlowKept DEF Inv
  <2>3. QED
    BY <2>1, <2>2
<1>4. AbortedIsEnded'
  BY <1>1 DEF AbortedIsEnded
<1>5. AloneInv'
  <2>1. work' = disk' \/ \E o \in Threads : pc'[o] = "run" /\ at'[o] > 0
    BY <1>1 DEF Inv, AloneInv, View
  <2>2. QED
    BY <1>1, <2>1 DEF Inv, AloneInv
<1>6. Healthy' => (ViewBooks /\ ViewShelf /\ ViewKeys)'
  <2>1. SUFFICES ASSUME Healthy'
                 PROVE  (ViewBooks /\ ViewShelf /\ ViewKeys)'
    OBVIOUS
  <2>2. ViewBooks /\ ViewShelf /\ ViewKeys
    BY <1>1, <2>1 DEF Inv, ViewInv, Healthy
  <2>3. View' = View
    BY <1>1 DEF View
  <2>4. ViewBooks' /\ ViewShelf'
    BY <1>1, <2>2, <2>3, ViewKept
  <2>5. ViewKeys'
    BY <1>1, <2>2, <2>3 DEF ViewKeys
  <2>6. QED
    BY <2>4, <2>5
<1>7. DiskInv'
  <2>1. CASE ~mixed
    BY <1>1, <2>1 DEF Inv, DiskInv
  <2>2. CASE ~failed /\ Quiet'
    <3>1. \A o \in Threads : pc[o] = "run" => at[o] = 0
      BY <1>1, <2>2 DEF Quiet
    <3>2. View = disk
      BY <1>1, <3>1 DEF View, Inv, AloneInv
    <3>3. Whole(disk, counted)
      BY <1>1, <2>2, <3>1, <3>2, QuietView DEF Inv, ViewInv, Healthy
    <3>4. QED
      BY <1>1, <3>3 DEF DiskInv
  <2>3. QED
    BY <1>1, <2>1, <2>2 DEF DiskInv
<1>8. QED
  BY <1>2, <1>3, <1>4, <1>5, <1>6, <1>7 DEF Inv, ViewInv

LEMMA StatementKeeps ==
  ASSUME Inv, NEW th \in Threads, Statement(th)
  PROVE  Inv'
<1>1. /\ pc[th] = "run" /\ ~IsRead(call[th]) /\ call[th] \in CallsOf[th]
      /\ at[th] \in Nat /\ at[th] < Len(Body(th)) /\ at'[th] = at[th] + 1
      /\ UNCHANGED <<disk, pc, call, key, counted, mixed, failed>>
      /\ txn' = "open" /\ \A o \in Threads \ {th} : at'[o] = at[o]
  BY DEF Statement, Durable, Writing, Inv, Shape, FlowInv
<1>2. Shape'
  BY DEF Statement, Inv, Shape
<1>3. \A o \in Threads : FlowInv(o)'
  <2>1. FlowInv(th)'
    <3>1. WellFormed(call[th])
      BY <1>1, CallsAreWellFormed
    <3>2. at[th] + 1 <= Len(Body(th))
      BY <1>1, <3>1, LengthIsNat DEF Body
    <3>3. QED
      BY <1>1, <3>2 DEF FlowInv, Body
  <2>2. ASSUME NEW o \in Threads \ {th} PROVE FlowInv(o)'
    BY <1>1, FlowKept DEF Inv
  <2>3. QED
    BY <2>1, <2>2
<1>4. AbortedIsEnded'
  BY <1>1 DEF AbortedIsEnded
<1>5. AloneInv'
  BY <1>1 DEF Inv, AloneInv
<1>6. ViewInv'
  <2>1. Healthy' => Healthy
    BY <1>1 DEF Healthy
  <2>2. QED
    BY <2>1, BooksAfterStatement, ShelfAfterStatement DEF ViewInv
<1>7. DiskInv'
  BY <1>1 DEF Inv, DiskInv, Quiet
<1>8. QED
  BY <1>2, <1>3, <1>4, <1>5, <1>6, <1>7 DEF Inv

\* A command or a commit that fails.
LEMMA FailureKeeps ==
  ASSUME Inv, NEW th \in Threads, CommandFails(th) \/ CommitFails(th)
  PROVE  Inv'
<1>1. /\ pc[th] # "idle" /\ pc'[th] = "failed" /\ failed' = TRUE
      /\ UNCHANGED <<disk, work, call, key, at, counted, mixed>>
      /\ \A o \in Threads \ {th} : pc'[o] = pc[o]
      /\ txn' \in {"aborted", "lost"}
  BY DEF CommandFails, CommitFails, Writing, Inv, Shape
<1>2. Shape'
  BY <1>1 DEF CommandFails, CommitFails, Inv, Shape
<1>3. \A o \in Threads : FlowInv(o)'
  <2>1. FlowInv(th)'
    BY <1>1 DEF Inv, FlowInv
  <2>2. ASSUME NEW o \in Threads \ {th} PROVE FlowInv(o)'
    BY <1>1, FlowKept DEF Inv
  <2>3. QED
    BY <2>1, <2>2
<1>4. AbortedIsEnded'
  BY <1>1 DEF AbortedIsEnded
<1>5. AloneInv'
  <2>1. ~mixed' => \A o, p \in Threads : pc'[o] # "idle" /\ pc'[p] # "idle" => o = p
    BY <1>1 DEF Inv, AloneInv
  <2>2. QED
    BY <1>1, <2>1 DEF AloneInv
<1>6. ViewInv'
  BY <1>1 DEF ViewInv
<1>7. DiskInv'
  BY <1>1 DEF Inv, DiskInv
<1>8. QED
  BY <1>2, <1>3, <1>4, <1>5, <1>6, <1>7 DEF Inv

\* With its last statement a call is whole, on the view it is about to commit.
LEMMA WholeCall ==
  ASSUME Inv, NEW th \in Threads, Writing(th), at[th] = Len(Body(th)), Healthy,
         txn \in {"idle", "open"}
  PROVE  /\ call[th].op = "inc_stat" =>
              /\ Books(View, 0, NoCall, counted + call[th].by)
              /\ Books(View, 0, NoCall, counted)
         /\ call[th].op = "upsert_topic_detail" => Shelf(View, 0, NoCall, Absent)
<1>1. /\ pc[th] = "run" /\ WellFormed(call[th]) /\ ViewBooks /\ ViewShelf
      /\ counted \in Nat
  BY CallsAreWellFormed DEF Writing, Inv, ViewInv, Shape
<1>2. CASE call[th].op = "inc_stat"
  <2>1. at[th] = 4 /\ call[th].by \in Nat
    BY <1>1, <1>2 DEF Body, Statements, IncStat, WellFormed
  <2>2. Books(View, 4, call[th], counted)
    BY <1>1, <1>2, <2>1 DEF ViewBooks, Progress
  <2>3. Books(View, 0, NoCall, counted + call[th].by)
    BY <1>1, <2>1, <2>2, BooksEnd
  <2>4. Books(View, 0, NoCall, counted)
    BY <1>1, <2>1, <2>2 DEF Books, RowsKept, Balanced, Added, Owed
  <2>5. QED
    BY <1>2, <2>3, <2>4
<1>3. CASE call[th].op = "upsert_topic_detail"
  <2>1. at[th] = IF key[th] = call[th].version THEN 1 ELSE 2
    BY <1>1, <1>3, UpsertLength DEF Body
  <2>2. Shelf(View, at[th], call[th], key[th])
    BY <1>1, <1>3, <2>1 DEF ViewShelf, Progress
  <2>3. QED
    BY <1>3, <2>1, <2>2, ShelfEnd
<1>4. QED
  BY <1>2, <1>3

LEMMA CommitKeeps ==
  ASSUME Inv, NEW th \in Threads, Commit(th)
  PROVE  Inv'
<1>1. /\ Writing(th) /\ pc[th] = "run" /\ at[th] = Len(Body(th)) /\ WellFormed(call[th])
      /\ UNCHANGED <<mixed, failed>> /\ txn # "lost"
      /\ txn' = "idle" /\ pc'[th] = "idle" /\ at'[th] = 0
      /\ \A o \in Threads \ {th} : /\ key'[o] = key[o] /\ pc'[o] = pc[o]
                                   /\ call'[o] = call[o] /\ at'[o] = at[o]
      /\ counted \in Nat
      /\ counted' = IF call[th].op = "inc_stat" THEN counted + call[th].by ELSE counted
      /\ disk' = IF txn = "open" THEN work ELSE disk
  BY CallsAreWellFormed DEF Commit, Return, Writing, Inv, Shape
<1>2. Shape'
  <2>1. counted' \in Nat
    BY <1>1 DEF WellFormed
  <2>2. QED
    BY <1>1, <2>1 DEF Commit, Return, Inv, Shape
<1>3. \A o \in Threads : FlowInv(o)'
  <2>1. FlowInv(th)'
    BY <1>1 DEF FlowInv
  <2>2. ASSUME NEW o \in Threads \ {th} PROVE FlowInv(o)'
    BY <1>1, FlowKept DEF Inv
  <2>3. QED
    BY <2>1, <2>2
<1>4. AbortedIsEnded'
  BY <1>1 DEF AbortedIsEnded
<1>5. AloneInv'
  BY <1>1 DEF Inv, AloneInv
<1>6. ASSUME Healthy
      PROVE  View' = View /\ disk' = View /\ txn \in {"idle", "open"}
  <2>1. txn # "aborted"
    BY <1>1, <1>6 DEF Inv, AloneInv, AbortedIsEnded, Healthy
  <2>2. txn \in {"idle", "open"}
    BY <1>1, <2>1 DEF Inv, Shape
  <2>3. QED
    BY <1>1, <2>2 DEF View
<1>7. ASSUME Healthy
      PROVE  (ViewBooks /\ ViewShelf /\ ViewKeys)'
  <2>1. ViewBooks /\ ViewShelf /\ ViewKeys
    BY <1>6, <1>7 DEF Inv, ViewInv
  <2>2. /\ call[th].op = "inc_stat" => Books(View, 0, NoCall, counted')
        /\ call[th].op = "upsert_topic_detail" => Shelf(View, 0, NoCall, Absent)
    BY <1>1, <1>6, <1>7, WholeCall
  <2>3. \A o \in Threads : \A op :
          /\ Progress(o, op)' = IF o = th THEN 0 ELSE Progress(o, op)
          /\ o # th => call'[o] = call[o] /\ key'[o] = key[o]
    BY <1>1 DEF Progress
  <2>4. ViewBooks'
    <3>1. CASE call[th].op = "inc_stat"
      <4>1. \A o \in Threads : Progress(o, "inc_stat")' = 0
        BY <1>1, <2>3, <3>1, OneWriter DEF Progress
      <4>2. QED
        BY <1>6, <1>7, <2>2, <3>1, <4>1 DEF ViewBooks
    <3>2. CASE call[th].op # "inc_stat"
      <4>1. Progress(th, "inc_stat") = 0 /\ counted' = counted
        BY <1>1, <3>2 DEF Progress
      <4>2. QED
        BY <1>6, <1>7, <2>1, <2>3, <4>1 DEF ViewBooks
    <3>3. QED
      BY <3>1, <3>2
  <2>5. ViewShelf'
    <3>1. CASE call[th].op = "upsert_topic_detail"
      <4>1. \A o \in Threads : Progress(o, "upsert_topic_detail")' = 0
        BY <1>1, <2>3, <3>1, OneWriter DEF Progress
      <4>2. QED
        BY <1>6, <1>7, <2>2, <3>1, <4>1 DEF ViewShelf
    <3>2. CASE call[th].op # "upsert_topic_detail"
      <4>1. Progress(th, "upsert_topic_detail") = 0
        BY <1>1, <3>2 DEF Progress
      <4>2. QED
        BY <1>6, <1>7, <2>1, <2>3, <4>1 DEF ViewShelf
    <3>3. QED
      BY <3>1, <3>2
  <2>6. ViewKeys'
    BY <1>1, <1>6, <1>7, <2>1 DEF ViewKeys
  <2>7. QED
    BY <2>4, <2>5, <2>6
<1>8. ViewInv'
  <2>1. Healthy' => Healthy
    BY <1>1 DEF Healthy
  <2>2. QED
    BY <1>7, <2>1 DEF ViewInv
<1>9. DiskInv'
  <2>1. SUFFICES ASSUME ~mixed' \/ (~failed' /\ Quiet') PROVE Whole(disk', counted')
    BY DEF DiskInv
  <2>2. Healthy /\ \A o \in Threads : pc'[o] # "run"
    BY <1>1, <2>1 DEF Healthy, Quiet, Inv, AloneInv
  <2>3. \A o \in Threads : \A op : Progress(o, op)' = 0
    BY <2>2 DEF Progress
  <2>4. Whole(View', counted')
    BY <1>7, <2>2, <2>3 DEF ViewBooks, ViewShelf, Whole
  <2>5. QED
    BY <1>6, <2>2, <2>4
<1>10. QED
  BY <1>2, <1>3, <1>4, <1>5, <1>8, <1>9 DEF Inv

\* Back to the committed tables, with no thread at a statement.
LEMMA BackToDisk ==
  ASSUME Whole(disk, counted), UNCHANGED <<disk, counted>>, txn' # "open",
         \A o \in Threads : pc'[o] # "run"
  PROVE  (ViewBooks /\ ViewShelf /\ ViewKeys)'
<1>1. View' = disk
  BY DEF View
<1>2. \A o \in Threads : \A op : Progress(o, op)' = 0
  BY DEF Progress
<1>3. QED
  BY <1>1, <1>2 DEF ViewBooks, ViewShelf, ViewKeys, Whole

LEMMA RaiseKeeps ==
  ASSUME Inv, NEW th \in Threads, RaiseToCaller(th)
  PROVE  Inv'
<1>1. /\ pc[th] = "failed" /\ failed
      /\ UNCHANGED <<disk, counted, mixed, failed>>
      /\ txn' \in {"idle", "lost"} /\ pc'[th] = "idle" /\ at'[th] = 0
      /\ \A o \in Threads \ {th} : /\ key'[o] = key[o] /\ pc'[o] = pc[o]
                                   /\ call'[o] = call[o] /\ at'[o] = at[o]
  BY DEF RaiseToCaller, Rollback, Return, Inv, Shape, FlowInv
<1>2. Shape'
  BY <1>1 DEF RaiseToCaller, Return, Inv, Shape
<1>3. \A o \in Threads : FlowInv(o)'
  <2>1. FlowInv(th)'
    BY <1>1 DEF FlowInv
  <2>2. ASSUME NEW o \in Threads \ {th} PROVE FlowInv(o)'
    BY <1>1, FlowKept DEF Inv
  <2>3. QED
    BY <2>1, <2>2
<1>4. AbortedIsEnded'
  BY <1>1 DEF AbortedIsEnded
<1>5. AloneInv'
  BY <1>1 DEF Inv, AloneInv
<1>6. ViewInv'
  <2>1. SUFFICES ASSUME Healthy' PROVE (ViewBooks /\ ViewShelf /\ ViewKeys)'
    BY DEF ViewInv
  <2>2. ~mixed
    BY <1>1, <2>1 DEF Healthy
  <2>3. Whole(disk, counted) /\ \A o \in Threads : pc'[o] # "run"
    BY <1>1, <2>2 DEF Inv, DiskInv, AloneInv
  <2>4. QED
    BY <1>1, <2>3, BackToDisk
<1>7. DiskInv'
  BY <1>1 DEF Inv, DiskInv
<1>8. QED
  BY <1>2, <1>3, <1>4, <1>5, <1>6, <1>7 DEF Inv

LEMMA DisconnectKeeps ==
  ASSUME Inv, Disconnect
  PROVE  Inv'
<1>1. UNCHANGED <<pc, call, key, at, counted, mixed, failed>> /\ txn' = "lost"
  BY DEF Disconnect
<1>2. Shape'
  BY <1>1 DEF Inv, Shape
<1>3. \A o \in Threads : FlowInv(o)'
  BY <1>1, FlowKept DEF Inv
<1>4. AbortedIsEnded' /\ AloneInv' /\ ViewInv'
  BY <1>1 DEF AbortedIsEnded, Inv, AloneInv, ViewInv
<1>5. DiskInv'
  <2>1. CASE disk' = disk
    BY <1>1, <2>1 DEF Inv, DiskInv, Quiet
  <2>2. CASE disk' # disk
    <3>1. PICK th \in Threads : /\ txn = "open" /\ Writing(th) /\ at[th] = Len(Body(th))
                                /\ disk' = work
      BY <2>2 DEF Disconnect
    <3>2. pc[th] = "run" /\ ~Quiet' /\ View = work
      BY <1>1, <3>1 DEF Writing, Quiet, View
    <3>3. ASSUME ~mixed
          PROVE  Whole(work, counted)
      <4>1. ViewBooks /\ ViewShelf
        BY <3>1, <3>3 DEF Inv, ViewInv, Healthy
      <4>2. /\ call[th].op = "inc_stat" => Books(work, 0, NoCall, counted)
            /\ call[th].op = "upsert_topic_detail" => Shelf(work, 0, NoCall, Absent)
        BY <3>1, <3>2, <3>3, WholeCall DEF Healthy
      <4>3. \A o \in Threads : \A op : o # th \/ call[th].op # op => Progress(o, op) = 0
        BY <3>2, <3>3 DEF Inv, AloneInv, Progress
      <4>4. Books(work, 0, NoCall, counted)
        BY <3>2, <4>1, <4>2, <4>3 DEF ViewBooks
      <4>5. Shelf(work, 0, NoCall, Absent)
        BY <3>2, <4>1, <4>2, <4>3 DEF ViewShelf
      <4>6. QED
        BY <4>4, <4>5 DEF Whole
    <3>4. QED
      BY <1>1, <3>1, <3>2, <3>3 DEF DiskInv
  <2>3. QED
    BY <2>1, <2>2
<1>6. QED
  BY <1>2, <1>3, <1>4, <1>5 DEF Inv

LEMMA RestartKeeps ==
  ASSUME Inv, Restart
  PROVE  Inv'
<1>1. /\ UNCHANGED <<disk, counted, mixed>> /\ txn' = "idle"
      /\ \A o \in Threads : pc'[o] = "idle" /\ at'[o] = 0
      /\ failed => failed'
      /\ ~failed' => ~failed /\ Quiet
  BY DEF Restart, Quiet
<1>2. Shape'
  BY <1>1 DEF Restart, Inv, Shape
<1>3. \A o \in Threads : FlowInv(o)'
  BY <1>1 DEF FlowInv
<1>4. AbortedIsEnded' /\ AloneInv'
  BY <1>1 DEF AbortedIsEnded, AloneInv
<1>5. Healthy' => Whole(disk, counted)
  BY <1>1 DEF Healthy, Inv, DiskInv
<1>6. ViewInv'
  BY <1>1, <1>5, BackToDisk DEF ViewInv
<1>7. DiskInv'
  BY <1>1, <1>5 DEF DiskInv, Healthy
<1>8. QED
  BY <1>2, <1>3, <1>4, <1>6, <1>7 DEF Inv

LEMMA WholeAtFirst == Whole(Initialized, 0)
<1>1. /\ \A t \in Topics : Initialized["topics"][t] = Absent
      /\ Initialized["stats_total"][1] = Absent
      /\ \A d \in Days : Initialized["stats_daily"][d] = Absent
  BY DEF Initialized, Empty, Names, KeysOf
<1>2. AddsUpTo(Amounts(Initialized), 0)
  <2> DEFINE none == [d \in 0..LastDay |-> 0]
  <2>1. /\ none \in [0..LastDay -> 0..0] /\ none[0] = 0 /\ none[LastDay] = 0
        /\ \A d \in Days : none[d] = 0 /\ none[d - 1] = 0
    BY TablesAssumption DEF Days
  <2>2. \A d \in Days : Amounts(Initialized)[d] = 0
    BY <1>1 DEF Amounts, Number
  <2> HIDE DEF none
  <2>3. \A d \in Days : none[d] = none[d - 1] + Amounts(Initialized)[d]
    BY <2>1, <2>2
  <2> DEFINE amount == Amounts(Initialized)
  <2> HIDE DEF amount
  <2>4. \A d \in Days : none[d] = none[d - 1] + amount[d]
    BY <2>3 DEF amount
  <2>5. AddsUpTo(amount, 0)
    BY <2>1, <2>4 DEF AddsUpTo
  <2>6. QED
    BY <2>5 DEF amount
<1>3. Books(Initialized, 0, NoCall, 0)
  BY <1>1, <1>2 DEF Books, RowsKept, Balanced, Added, Owed, Number, Absent
<1>4. Shelf(Initialized, 0, NoCall, Absent)
  BY <1>1, VersionIsNew DEF Shelf
<1>5. QED
  BY <1>3, <1>4 DEF Whole

LEMMA InvAtFirst == Init => Inv
<1> SUFFICES ASSUME Init PROVE Inv
  OBVIOUS
<1>1. Shape /\ AbortedIsEnded /\ AloneInv /\ \A th \in Threads : FlowInv(th)
  BY DEF Init, Shape, AbortedIsEnded, AloneInv, FlowInv
<1>2. Whole(disk, counted) /\ View = disk
  BY WholeAtFirst DEF Init, View
<1>3. ViewBooks /\ ViewShelf
  BY <1>2, WholeView DEF Init
<1>4. ViewKeys
  BY DEF ViewKeys, Init
<1>5. QED
  BY <1>1, <1>2, <1>3, <1>4 DEF Inv, ViewInv, DiskInv

LEMMA InvStays == Inv /\ [Next]_vars => Inv'
<1> SUFFICES ASSUME Inv, [Next]_vars PROVE Inv'
  OBVIOUS
<1>1. ASSUME NEW th \in Threads, ThreadStep(th) PROVE Inv'
  BY <1>1, ReadKeyKeeps, QueryKeeps, StatementKeeps, FailureKeeps, CommitKeeps, RaiseKeeps
     DEF ThreadStep
<1>2. ASSUME NEW th \in Threads, NEW c \in CallsOf[th], Begin(th, c) PROVE Inv'
  BY <1>2, BeginKeeps
<1>3. CASE Disconnect
  BY <1>3, DisconnectKeeps
<1>4. CASE Restart
  BY <1>4, RestartKeeps
<1>5. CASE UNCHANGED vars
  BY <1>5 DEF vars, Inv, Shape, AbortedIsEnded, AloneInv, ViewInv, ViewBooks, ViewShelf,
       ViewKeys, DiskInv, Whole, FlowInv, Body, View, Progress, Healthy, Quiet
<1>6. QED
  BY <1>1, <1>2, <1>3, <1>4, <1>5 DEF Next

\* Whole tables are as the property wants them.
LEMMA WholeIsWhole ==
  ASSUME NEW db, NEW cnt \in Nat, Whole(db, cnt)
  PROVE  /\ SnapshotsAgree(db) /\ StatsAgree(db)
         /\ cnt > 0 => cnt <= db["stats_total"][1]
<1> DEFINE total == db["stats_total"][1]
<1>1. SnapshotsAgree(db)
  BY DEF Whole, Shelf, SnapshotsAgree
<1>2. PICK sum \in Nat : Number(total) = sum + 0 /\ AddsUpTo(Amounts(db), sum)
  BY DEF Whole, Books, Balanced, Owed
<1>3. AddsUpTo(Amounts(db), Number(total))
  BY <1>2
<1>4. /\ total \in Nat \cup {Absent}
      /\ total = Absent <=> \A d \in Days : db["stats_daily"][d] = Absent
      /\ cnt <= Number(total)
  BY DEF Whole, Books, RowsKept, Added
<1>5. StatsAgree(db)
  BY <1>3, <1>4 DEF StatsAgree, Amounts
<1>6. cnt > 0 => cnt <= total
  BY <1>4 DEF Number
<1>7. QED
  BY <1>1, <1>5, <1>6

\* Once all PostgreSQL calls have ended, each topic's row has its snapshot, the
\* total is the sum of the days and every inc_stat that returned is in it,
\* unless two calls have been under way at once and one has failed
\* (PostgresStore.with_postgres_retry and its _commit: the connection and its
\* transaction are shared by the threads).
THEOREM WholeTables == Spec => []WholeUnlessMixedAndFailed
<1>1. Inv => WholeUnlessMixedAndFailed
  BY WholeIsWhole DEF Inv, DiskInv, WholeUnlessMixedAndFailed, Shape
<1>2. QED
  BY <1>1, InvAtFirst, InvStays, PTL DEF Spec

\* A transaction that the server has aborted always has a thread that will end
\* it: no failure leaves the shared connection unusable, whoever fails while
\* others are at work (the rollback of every except clause).
THEOREM AbortedTransactionsEnd == Spec => []AbortedIsEnded
<1>1. Inv => AbortedIsEnded
  BY DEF Inv
<1>2. QED
  BY <1>1, InvAtFirst, InvStays, PTL DEF Spec

-----------------------------------------------------------------------------
(* Types of PostgresStore *)

\* The rows of topics hold what has been written to them.
Typed(db) ==
  /\ DOMAIN db = Names
  /\ \A t \in Topics : db["topics"][t] \in Versions \cup {Absent, Blank}

LEMMA InitializedTyped == Typed(Initialized)
BY DEF Typed, Initialized, Empty, Names, KeysOf

LEMMA ExecTyped ==
  ASSUME NEW c, NEW k, WellFormed(c), NEW db, Typed(db),
         NEW i \in 1..Len(Statements(c, k))
  PROVE  Typed(Exec(Statements(c, k)[i], db))
<1> DEFINE statement == Statements(c, k)[i]
           next == Exec(statement, db)
<1>1. DOMAIN next = Names
  BY DEF Exec
<1>2. CASE c.op = "upsert_topic_detail"
  <2>1. i \in 1..2 /\ (i = 2 => k # c.version)
    <3>1. Len(Statements(c, k)) = IF k = c.version THEN 1 ELSE 2
      BY <1>2, UpsertLength
    <3> DEFINE last == Len(Statements(c, k))
    <3>2. i \in 1..last
      OBVIOUS
    <3> HIDE DEF last
    <3>3. last = 1 \/ (last = 2 /\ k # c.version)
      BY <3>1 DEF last
    <3>4. QED
      BY <3>2, <3>3
  <2>2. (i = 1 => RowWritten(db, next, c)) /\ (i = 2 => SnapshotAdded(db, next, c))
    <3> HIDE DEF next, statement
    <3>1. statement = Statements(c, k)[i] /\ next = Exec(statement, db)
      BY DEF next, statement
    <3>2. QED
      BY <1>2, <2>1, <3>1, UpsertStatements
  <2>3. c.version \in Versions
    BY <1>2 DEF WellFormed
  <2> HIDE DEF next
  <2>4. Typed(next)
    BY <1>1, <2>1, <2>2, <2>3 DEF Typed, RowWritten, SnapshotAdded
  <2>5. QED
    BY <2>4 DEF next
<1>3. CASE c.op # "upsert_topic_detail"
  <2>1. ShelfKept(db, next)
    <3>1. CASE c.op = "inc_stat"
      <4>1. c.day \in Days /\ Len(Statements(c, k)) = 4
        BY <3>1 DEF WellFormed, Statements, IncStat
      <4>2. i \in 1..4
        BY <4>1
      <4> HIDE DEF next, statement
      <4>3. statement = Statements(c, k)[i] /\ next = Exec(statement, db)
        BY DEF next, statement
      <4>4. QED
        BY <3>1, <4>1, <4>2, <4>3, StatStatements
    <3>2. CASE c.op # "inc_stat"
      BY <1>3, <3>2, OtherStatements
    <3>3. QED
      BY <3>1, <3>2
  <2> HIDE DEF next
  <2>2. Typed(next)
    BY <1>1, <2>1 DEF Typed, ShelfKept
  <2>3. QED
    BY <2>2 DEF next
<1>4. QED
  BY <1>2, <1>3

\* Only upsert_topic_detail looks at its topic first.
KeyReaders == \A th \in Threads : pc[th] = "key" => call[th].op = "upsert_topic_detail"

Types == TypeOK /\ Typed(disk) /\ Typed(work) /\ KeyReaders

\* The call of a thread that ends.
LEMMA ReturnTyped ==
  ASSUME TypeOK, NEW th \in Threads, Return(th), Shape, Shape'
  PROVE  /\ \A o \in Threads : call'[o] \in CallsOf[o] \cup {NoCall}
         /\ key' \in [Threads -> Versions \cup {Absent, Blank}]
BY DEF TypeOK, Return, Shape

LEMMA TypesStay == Inv /\ Inv' /\ Types /\ [Next]_vars => Types'
<1> SUFFICES ASSUME Inv, Inv', Types, [Next]_vars PROVE Types'
  OBVIOUS
<1>1. /\ pc' \in [Threads -> {"idle", "key", "run", "failed"}] /\ at' \in [Threads -> Nat]
      /\ txn' \in {"idle", "open", "aborted", "lost"}
      /\ {mixed', failed'} \subseteq BOOLEAN /\ counted' \in Nat
  BY DEF Inv, Shape
<1>2. ASSUME Typed(disk'), Typed(work'), calls' \in 0..MaxCalls,
             \A o \in Threads : call'[o] \in CallsOf[o] \cup {NoCall},
             key' \in [Threads -> Versions \cup {Absent, Blank}], KeyReaders'
      PROVE  Types'
  BY <1>1, <1>2 DEF Types, TypeOK, Typed
<1>3. /\ Typed(disk) /\ Typed(work) /\ calls \in 0..MaxCalls /\ MaxCalls \in Nat
      /\ \A o \in Threads : call[o] \in CallsOf[o] \cup {NoCall}
      /\ key \in [Threads -> Versions \cup {Absent, Blank}] /\ KeyReaders
  BY PostgresAssumption DEF Types, TypeOK
<1>4. Typed(View)
  BY <1>3 DEF View
<1>5. ASSUME NEW th \in Threads, Return(th)
      PROVE  /\ \A o \in Threads : call'[o] \in CallsOf[o] \cup {NoCall}
             /\ key' \in [Threads -> Versions \cup {Absent, Blank}] /\ KeyReaders'
  BY <1>3, <1>5, ReturnTyped DEF Inv, Types, KeyReaders, Return, Shape
<1>6. ASSUME NEW th \in Threads, NEW c \in CallsOf[th], Begin(th, c) PROVE Types'
  <2>1. \A o \in Threads : call'[o] \in CallsOf[o] \cup {NoCall}
    BY <1>3, <1>6 DEF Begin, Inv, Shape
  <2>2. calls' \in 0..MaxCalls /\ UNCHANGED <<disk, work, key>>
    BY <1>3, <1>6 DEF Begin
  <2>3. KeyReaders'
    BY <1>3, <1>6 DEF Begin, KeyReaders, Inv, Shape
  <2>4. QED
    BY <1>2, <1>3, <2>1, <2>2, <2>3
<1>7. ASSUME NEW th \in Threads, ReadKey(th) PROVE Types'
  <2>1. call[th] \in CallsOf[th] /\ call[th].op = "upsert_topic_detail"
    BY <1>3, <1>7 DEF ReadKey, Inv, FlowInv, KeyReaders
  <2>2. call[th].topic \in Topics
    BY <2>1, PostgresAssumption DEF WellFormed
  <2>3. key' \in [Threads -> Versions \cup {Absent, Blank}]
    BY <1>3, <1>4, <1>7, <2>2 DEF ReadKey, Typed
  <2>4. Typed(work') /\ UNCHANGED <<disk, call, calls>>
    BY <1>4, <1>7 DEF ReadKey, Opened
  <2>5. KeyReaders'
    BY <1>3, <1>7 DEF ReadKey, KeyReaders, Inv, Shape
  <2>6. QED
    BY <1>2, <1>3, <2>3, <2>4, <2>5
<1>8. ASSUME NEW th \in Threads, Query(th) PROVE Types'
  <2>1. Typed(work') /\ UNCHANGED <<disk, calls>> /\ Return(th)
    BY <1>4, <1>8 DEF Query, Opened
  <2>2. QED
    BY <1>2, <1>3, <1>5, <2>1
<1>9. ASSUME NEW th \in Threads, Statement(th) PROVE Types'
  <2>1. /\ WellFormed(call[th]) /\ at[th] + 1 \in 1..Len(Statements(call[th], key[th]))
    <3>1. pc[th] = "run" /\ at[th] \in Nat /\ at[th] < Len(Statements(call[th], key[th]))
      BY <1>9 DEF Statement, Writing, Body, Inv, Shape
    <3>2. WellFormed(call[th])
      BY <3>1, CallsAreWellFormed
    <3>3. Len(Statements(call[th], key[th])) \in Nat
      BY <3>2, LengthIsNat
    <3>4. QED
      BY <3>1, <3>2, <3>3
  <2>2. Typed(work')
    BY <1>4, <1>9, <2>1, ExecTyped DEF Statement, Body
  <2>3. UNCHANGED <<disk, call, key, calls>> /\ KeyReaders'
    BY <1>3, <1>9 DEF Statement, Durable, KeyReaders
  <2>4. QED
    BY <1>2, <1>3, <2>2, <2>3
<1>10. ASSUME NEW th \in Threads, CommandFails(th) \/ CommitFails(th) PROVE Types'
  <2>1. UNCHANGED <<disk, work, call, key, calls>> /\ KeyReaders'
    BY <1>3, <1>10 DEF CommandFails, CommitFails, KeyReaders, Inv, Shape
  <2>2. QED
    BY <1>2, <1>3, <2>1
<1>11. ASSUME NEW th \in Threads, Commit(th) \/ RaiseToCaller(th) PROVE Types'
  <2>1. Typed(disk') /\ Typed(work') /\ calls' = calls /\ Return(th)
    BY <1>3, <1>11, InitializedTyped DEF Commit, RaiseToCaller, Rollback
  <2>2. QED
    BY <1>2, <1>3, <1>5, <2>1
<1>12. CASE Disconnect
  <2>1. Typed(disk') /\ Typed(work') /\ UNCHANGED <<call, key, calls>> /\ KeyReaders'
    BY <1>3, <1>12, InitializedTyped DEF Disconnect, KeyReaders
  <2>2. QED
    BY <1>2, <1>3, <2>1
<1>13. CASE Restart
  <2>1. /\ Typed(work') /\ UNCHANGED <<disk, calls>>
        /\ call' = [th \in Threads |-> NoCall] /\ key' = [th \in Threads |-> Absent]
        /\ KeyReaders'
    BY <1>3, <1>13, InitializedTyped DEF Restart, KeyReaders
  <2>2. QED
    BY <1>2, <1>3, <2>1
<1>14. CASE UNCHANGED vars
  BY <1>2, <1>3, <1>14 DEF vars, KeyReaders
<1>15. QED
  BY <1>6, <1>7, <1>8, <1>9, <1>10, <1>11, <1>12, <1>13, <1>14 DEF Next, ThreadStep

\* The variables of the PostgreSQL store keep their types; in particular a
\* thread only holds calls of its own, and what it has seen of a topic is a
\* version, a blank row or none.
THEOREM PostgresTypes == Spec => []TypeOK
<1>1. Init => Types
  <2> SUFFICES ASSUME Init PROVE Types
    OBVIOUS
  <2>1. Shape /\ Typed(disk) /\ Typed(work) /\ KeyReaders
    BY InvAtFirst, InitializedTyped DEF Init, Inv, KeyReaders
  <2>2. /\ \A th \in Threads : call[th] \in CallsOf[th] \cup {NoCall}
        /\ key \in [Threads -> Versions \cup {Absent, Blank}] /\ calls \in 0..MaxCalls
    BY PostgresAssumption DEF Init
  <2>3. QED
    BY <2>1, <2>2 DEF Types, TypeOK, Typed, Shape
<1>2. Types => TypeOK
  BY DEF Types
<1>3. QED
  BY <1>1, <1>2, InvAtFirst, InvStays, TypesStay, PTL DEF Spec

-----------------------------------------------------------------------------
(* SqliteStore *)

\* The tables are the same in every instance.
LEMMA SameTables ==
  /\ \A c, db : Sqlite!Effect(c, db) = Effect(c, db)
  /\ \A c, db : Store!Effect(c, db) = Effect(c, db)
  /\ \A db, t, k, b : Store!Raise(db, t, k, b) = Raise(db, t, k, b)
  /\ \A st, db : Sqlite!Exec(st, db) = Exec(st, db)
  /\ \A c, db : Store!Reply(c, db) = Reply(c, db)
  /\ \A c : Sqlite!WellFormed(c) <=> WellFormed(c)
  /\ \A c : Store!WellFormed(c) <=> WellFormed(c)
  /\ \A t, k, h, v : Sqlite!Cell(t, k, h, v) = Cell(t, k, h, v)
  /\ Sqlite!Initialized = Initialized
  /\ Store!Initialized = Initialized
<1>1. \A db, t, k, b : Sqlite!Raise(db, t, k, b) = Raise(db, t, k, b)
  BY DEF Sqlite!Raise, Raise, Sqlite!Absent, Absent
<1>2. \A db, t, k, b : Store!Raise(db, t, k, b) = Raise(db, t, k, b)
  BY DEF Store!Raise, Raise, Store!Absent, Absent
<1>3. \A c, db : Sqlite!Effect(c, db) = Effect(c, db)
  BY <1>1 DEF Effect, Absent, Blank, Open, Sqlite!Effect, Sqlite!Absent, Sqlite!Blank,
       Sqlite!Open
<1>4. \A c, db : Store!Effect(c, db) = Effect(c, db)
  BY <1>2 DEF Effect, Absent, Blank, Open, Store!Effect, Store!Absent,
       Store!Blank, Store!Open
<1>5. \A st, db : Sqlite!Exec(st, db) = Exec(st, db)
  BY DEF Exec, Names, KeysOf, Written, Absent, Days, Sqlite!Exec, Sqlite!Names,
     Sqlite!KeysOf, Sqlite!Written, Sqlite!Absent, Sqlite!Days
<1>6. Sqlite!Initialized = Initialized /\ Store!Initialized = Initialized
  BY DEF Initialized, Empty, Names, KeysOf, Absent, Days,
     Sqlite!Initialized, Sqlite!Empty, Sqlite!Names, Sqlite!KeysOf, Sqlite!Absent, Sqlite!Days,
     Store!Initialized, Store!Empty, Store!Names, Store!KeysOf,
     Store!Absent, Store!Days
<1>7. \A c : Sqlite!WellFormed(c) <=> WellFormed(c)
  BY DEF Sqlite!WellFormed, WellFormed, Sqlite!Operations, Operations, Sqlite!Days, Days
<1>8. \A c : Store!WellFormed(c) <=> WellFormed(c)
  BY DEF Store!WellFormed, WellFormed, Store!Operations, Operations, Store!Days, Days
<1>9. \A c, db : Store!Reply(c, db) = Reply(c, db)
  BY DEF Store!Reply, Reply, Store!Number, Number, Store!Absent, Absent, Store!Range, Range
<1>10. \A t, k, h, v : Sqlite!Cell(t, k, h, v) = Cell(t, k, h, v)
  BY DEF Sqlite!Cell, Cell
<1>11. QED
  BY <1>2, <1>3, <1>4, <1>5, <1>6, <1>7, <1>8, <1>9, <1>10

\* What i statements of a call make of the cell of the key x in the table n,
\* which has held old.
After(c, i, db, n, x) ==
  LET old == db[n][x]
  IN  CASE c.op = "upsert_topic_detail" ->
             IF i >= 1 /\ n = "topics" /\ x = c.topic THEN c.version
             ELSE IF i >= 1 /\ n = "last_read" /\ x = c.topic THEN c.read
             ELSE IF i >= 2 /\ n = "topic_snapshots" /\ x = c.topic THEN c.version
             ELSE old
        [] c.op = "insert_posts" ->
             IF n = "posts" /\ \E j \in 1..i : c.ids[j] = x THEN c.topic ELSE old
        [] c.op = "mark_notifications_sent" ->
             IF n = "notification_dedupe" /\ \E j \in 1..i : c.ids[j] = x
             THEN Make(old, 0) ELSE old
        [] c.op = "inc_stat" ->
             IF \/ n = "stats_total" /\ i = 1
                \/ n = "stats_daily" /\ x = c.day /\ i = 3
             THEN Make(old, 0)
             ELSE IF \/ n = "stats_total" /\ i >= 2
                     \/ n = "stats_daily" /\ x = c.day /\ i = 4
             THEN Make(old, 0) + c.by
             ELSE old
        [] OTHER -> IF i = 0 THEN old ELSE Exec(Sqlite!Statements(c, Absent)[1], db)[n][x]

LEMMA AfterNone ==
  ASSUME NEW c, NEW db, NEW n, NEW x
  PROVE  After(c, 0, db, n, x) = db[n][x]
BY DEF After

\* The other calls are one statement, which does not depend on a row read before.
SeveralStatements ==
  {"upsert_topic_detail", "insert_posts", "mark_notifications_sent", "inc_stat"}

LEMMA SingleStatement ==
  ASSUME NEW c, NEW k, WellFormed(c), ~Sqlite!IsRead(c),
         c.op \notin SeveralStatements
  PROVE  /\ Sqlite!Statements(c, k) = Sqlite!Statements(c, Absent)
         /\ Len(Sqlite!Statements(c, k)) = 1
BY DEF SeveralStatements, Sqlite!Statements, WellFormed, Operations, Sqlite!IsRead, Sqlite!Reads,
   Sqlite!UpsertTopicCrawlState, Sqlite!UpdateLastReadPostNumber, Sqlite!BeginWatchCycle,
   Sqlite!FinishWatchCycle, Sqlite!IncPluginDailyCount, Sqlite!MarkPluginOnce,
   Sqlite!SetPluginKv, Sqlite!LogPluginAction

LEMMA SqliteLength ==
  ASSUME NEW c, NEW k, WellFormed(c), ~Sqlite!IsRead(c)
  PROVE  /\ Len(Sqlite!Statements(c, k)) \in Nat \ {0}
         /\ c.op = "upsert_topic_detail" =>
              Len(Sqlite!Statements(c, k)) = IF k = c.version THEN 1 ELSE 2
         /\ c.op \in {"insert_posts", "mark_notifications_sent"} =>
              Len(Sqlite!Statements(c, k)) = Len(c.ids)
         /\ c.op = "inc_stat" => Len(Sqlite!Statements(c, k)) = 4
<1> USE DEF SeveralStatements
<1>1. CASE c.op = "insert_posts"
  <2>1. Len(c.ids) \in Nat \ {0}
    BY <1>1 DEF WellFormed
  <2>2. Sqlite!InsertPosts(c) \in
          Seq({{Sqlite!Cell("posts", c.ids[i], "set", c.topic)} : i \in 1..Len(c.ids)})
        /\ Len(Sqlite!InsertPosts(c)) = Len(c.ids)
    BY <2>1 DEF Sqlite!InsertPosts
  <2>3. QED
    BY <2>1, <2>2, <1>1 DEF Sqlite!Statements
<1>2. CASE c.op = "mark_notifications_sent"
  <2>1. Len(c.ids) \in Nat \ {0}
    BY <1>2 DEF WellFormed
  <2>2. Sqlite!MarkNotificationsSent(c) \in
          Seq({{Sqlite!Cell("notification_dedupe", c.ids[i], "make", 0)} :
                 i \in 1..Len(c.ids)})
        /\ Len(Sqlite!MarkNotificationsSent(c)) = Len(c.ids)
    BY <2>1 DEF Sqlite!MarkNotificationsSent
  <2>3. QED
    BY <2>1, <2>2, <1>2 DEF Sqlite!Statements
<1>3. CASE c.op \in {"upsert_topic_detail", "inc_stat"}
  BY <1>3 DEF Sqlite!Statements, Sqlite!UpsertTopicDetail, Sqlite!IncStat
<1>4. CASE c.op \notin SeveralStatements
  BY <1>4, SingleStatement
<1>5. QED
  BY <1>1, <1>2, <1>3, <1>4

\* Each statement takes every cell from what i - 1 statements made of it to
\* what i make of it.
LEMMA UpsertNext ==
  ASSUME NEW c, NEW k, WellFormed(c), c.op = "upsert_topic_detail", NEW db, NEW now,
         NEW i \in 1..Len(Sqlite!Statements(c, k)),
         NEW n \in Names, NEW x \in KeysOf(n), now[n][x] = After(c, i - 1, db, n, x),
         NEW statement, Sqlite!Statements(c, k)[i] = statement
  PROVE  Exec(statement, now)[n][x] = After(c, i, db, n, x)
<1> DEFINE title == Cell("topics", c.topic, "set", c.version)
           read == Cell("last_read", c.topic, "set", c.read)
           snapshot == Cell("topic_snapshots", c.topic, "set", c.version)
           row == {title, read}
           add == {snapshot}
<1>1. Sqlite!Statements(c, k) = IF k = c.version THEN <<row>> ELSE <<row, add>>
  BY SameTables DEF Sqlite!Statements, Sqlite!UpsertTopicDetail
<1>2. /\ title.table = "topics" /\ title.key = c.topic
      /\ read.table = "last_read" /\ read.key = c.topic
      /\ snapshot.table = "topic_snapshots" /\ snapshot.key = c.topic
  BY DEF Cell
<1>3. \A old : /\ Written(title, old) = c.version /\ Written(snapshot, old) = c.version
               /\ Written(read, old) = c.read
  BY DEF Cell, Written
<1>4. /\ title \in row /\ read \in row /\ \A e \in row : e = title \/ e = read
      /\ snapshot \in add /\ \A e \in add : e = snapshot
  OBVIOUS
<1> HIDE DEF title, read, snapshot, row, add
<1>5. Exec(row, now)[n][x] = IF n = "topics" /\ x = c.topic THEN c.version
                             ELSE IF n = "last_read" /\ x = c.topic THEN c.read ELSE now[n][x]
  BY <1>2, <1>3, <1>4, TwoCells
<1>6. Exec(add, now)[n][x] =
        IF n = "topic_snapshots" /\ x = c.topic THEN c.version ELSE now[n][x]
  BY <1>2, <1>3, <1>4, OneCell
<1>7. CASE i = 1
  BY <1>1, <1>5, <1>7 DEF After
<1>8. CASE i = 2
  <2>1. k # c.version
    BY <1>1, <1>8
  <2>2. QED
    BY <1>1, <1>6, <1>8, <2>1 DEF After
<1>9. i \in 1..2
  BY <1>1
<1>10. QED
  BY <1>7, <1>8, <1>9

LEMMA ListNext ==
  ASSUME NEW c, NEW k, WellFormed(c), c.op \in {"insert_posts", "mark_notifications_sent"},
         NEW db, NEW now, NEW i \in 1..Len(Sqlite!Statements(c, k)),
         NEW n \in Names, NEW x \in KeysOf(n), now[n][x] = After(c, i - 1, db, n, x),
         NEW statement, Sqlite!Statements(c, k)[i] = statement
  PROVE  Exec(statement, now)[n][x] = After(c, i, db, n, x)
<1>1. i \in Nat \ {0}
  BY SqliteLength
<1>2. (\E j \in 1..i : c.ids[j] = x) <=> (c.ids[i] = x \/ \E j \in 1..(i - 1) : c.ids[j] = x)
  BY <1>1
<1>3. CASE c.op = "insert_posts"
  <2>1. statement = Row("posts", c.ids[i], "set", c.topic)
    BY <1>3, SameTables DEF Sqlite!Statements, Sqlite!InsertPosts, WellFormed, Row
  <2>2. Exec(statement, now)[n][x] =
          IF n = "posts" /\ x = c.ids[i] THEN c.topic ELSE now[n][x]
    BY <2>1, RowCells
  <2>3. QED
    BY <1>2, <1>3, <2>2 DEF After
<1>4. CASE c.op = "mark_notifications_sent"
  <2>1. statement = Row("notification_dedupe", c.ids[i], "make", 0)
    BY <1>4, SameTables DEF Sqlite!Statements, Sqlite!MarkNotificationsSent, WellFormed, Row
  <2>2. Exec(statement, now)[n][x] =
          IF n = "notification_dedupe" /\ x = c.ids[i] THEN Make(now[n][x], 0) ELSE now[n][x]
    BY <2>1, RowCells
  <2>3. \A old : Make(Make(old, 0), 0) = Make(old, 0)
    BY DEF Make
  <2>4. QED
    BY <1>2, <1>4, <2>2, <2>3 DEF After
<1>5. QED
  BY <1>3, <1>4

LEMMA StatNext ==
  ASSUME NEW c, NEW k, WellFormed(c), c.op = "inc_stat",
         NEW db, NEW now, NEW i \in 1..Len(Sqlite!Statements(c, k)),
         NEW n \in Names, NEW x \in KeysOf(n), now[n][x] = After(c, i - 1, db, n, x),
         NEW statement, Sqlite!Statements(c, k)[i] = statement
  PROVE  Exec(statement, now)[n][x] = After(c, i, db, n, x)
<1>1. Sqlite!Statements(c, k) =
        <<Row("stats_total", 1, "make", 0), Row("stats_total", 1, "add", c.by),
          Row("stats_daily", c.day, "make", 0), Row("stats_daily", c.day, "add", c.by)>>
  BY SameTables DEF Sqlite!Statements, Sqlite!IncStat, Row
<1>2. \A old : Add(Make(old, 0), c.by) = Make(old, 0) + c.by
  BY DEF Add, Make, Absent
<1>3. n = "stats_total" => x = 1
  BY Keys
<1>4. CASE i = 1
  BY <1>1, <1>3, <1>4, RowCells DEF After
<1>5. CASE i = 2
  BY <1>1, <1>2, <1>3, <1>5, RowCells DEF After
<1>6. CASE i = 3
  BY <1>1, <1>6, RowCells DEF After
<1>7. CASE i = 4
  BY <1>1, <1>2, <1>7, RowCells DEF After
<1>8. i \in 1..4
  BY <1>1
<1>9. QED
  BY <1>4, <1>5, <1>6, <1>7, <1>8

LEMMA AfterNext ==
  ASSUME NEW c, NEW k, WellFormed(c), ~Sqlite!IsRead(c), NEW db, NEW now,
         NEW i \in 1..Len(Sqlite!Statements(c, k)), i = 1 => now = db,
         NEW n \in Names, NEW x \in KeysOf(n), now[n][x] = After(c, i - 1, db, n, x),
         NEW statement, Sqlite!Statements(c, k)[i] = statement
  PROVE  Exec(statement, now)[n][x] = After(c, i, db, n, x)
<1> USE DEF SeveralStatements
<1>1. CASE c.op = "upsert_topic_detail"
  BY <1>1, UpsertNext
<1>2. CASE c.op \in {"insert_posts", "mark_notifications_sent"}
  BY <1>2, ListNext
<1>3. CASE c.op = "inc_stat"
  BY <1>3, StatNext
<1>4. CASE c.op \notin SeveralStatements
  <2>1. i = 1 /\ statement = Sqlite!Statements(c, Absent)[1] /\ now = db
    BY <1>4, SingleStatement
  <2>2. QED
    BY <1>4, <2>1 DEF After
<1>5. QED
  BY <1>1, <1>2, <1>3, <1>4

-----------------------------------------------------------------------------
(* Tables cell by cell *)

Shaped(db) == db = [n \in Names |-> [k \in KeysOf(n) |-> db[n][k]]]

\* Tables with the same cells are the same.
LEMMA Extensional ==
  ASSUME NEW f, NEW g, Shaped(f), Shaped(g),
         \A n \in Names : \A k \in KeysOf(n) : f[n][k] = g[n][k]
  PROVE  f = g
<1>1. [n \in Names |-> [k \in KeysOf(n) |-> f[n][k]]] =
        [n \in Names |-> [k \in KeysOf(n) |-> g[n][k]]]
  OBVIOUS
<1>2. QED
  BY <1>1 DEF Shaped

LEMMA ExecShaped ==
  ASSUME NEW statement, NEW db
  PROVE  Shaped(Exec(statement, db))
BY DEF Shaped, Exec

Put(db, n, k, v) == [db EXCEPT ![n][k] = v]

\* What writing one cell leaves of the others.
LEMMA PutCells ==
  ASSUME NEW db, Shaped(db), NEW n \in Names, NEW k \in KeysOf(n), NEW v
  PROVE  /\ Shaped(Put(db, n, k, v))
         /\ \A m \in Names : \A y \in KeysOf(m) :
              Put(db, n, k, v)[m][y] = IF m = n /\ y = k THEN v ELSE db[m][y]
<1>1. /\ DOMAIN db = Names /\ db = [m \in Names |-> db[m]]
      /\ \A m \in Names : DOMAIN db[m] = KeysOf(m) /\ db[m] = [y \in KeysOf(m) |-> db[m][y]]
  BY DEF Shaped
<1>2. Put(db, n, k, v) = [m \in Names |->
        IF m = n THEN [y \in KeysOf(m) |-> IF y = k THEN v ELSE db[m][y]] ELSE db[m]]
  BY <1>1 DEF Put
<1>3. \A m \in Names : \A y \in KeysOf(m) :
        Put(db, n, k, v)[m][y] = IF m = n /\ y = k THEN v ELSE db[m][y]
  BY <1>2
<1>4. \A m \in Names : Put(db, n, k, v)[m] = [y \in KeysOf(m) |-> Put(db, n, k, v)[m][y]]
  BY <1>1, <1>2
<1>5. Shaped(Put(db, n, k, v))
  BY <1>2, <1>4 DEF Shaped
<1>6. QED
  BY <1>3, <1>5

-----------------------------------------------------------------------------
(* What a call comes to *)

\* What each call asks for is what its statements come to, cell by cell.
LEMMA SingleEffect ==
  ASSUME NEW c, WellFormed(c), NEW db, Shaped(db),
         c.op \in {"upsert_topic_crawl_state", "begin_watch_cycle", "finish_watch_cycle",
                   "inc_plugin_daily_count", "mark_plugin_once", "set_plugin_kv",
                   "log_plugin_action"},
         db["plugin_once_marks"][1] \in {Absent, 0},
         NEW statement, Sqlite!Statements(c, Absent)[1] = statement
  PROVE  /\ Shaped(Effect(c, db))
         /\ \A n \in Names : \A x \in KeysOf(n) :
              Effect(c, db)[n][x] = Exec(statement, db)[n][x]
<1>1. CASE c.op = "upsert_topic_crawl_state"
  <2>1. statement = Row("topic_crawl_state", c.topic, "set", c.number)
    BY <1>1, SameTables DEF Sqlite!Statements, Sqlite!UpsertTopicCrawlState, Row
  <2>2. Effect(c, db) = Put(db, "topic_crawl_state", c.topic, c.number)
    BY <1>1 DEF Effect, Put
  <2>3. "topic_crawl_state" \in Names /\ c.topic \in KeysOf("topic_crawl_state")
    BY <1>1 DEF Names, KeysOf, WellFormed
  <2>4. QED
    BY <2>1, <2>2, <2>3, PutCells, RowCells
<1>2. CASE c.op = "begin_watch_cycle"
  <2>1. statement = Row("watch_cycles", c.id, "set", Open)
    BY <1>2, SameTables DEF Sqlite!Statements, Sqlite!BeginWatchCycle, Sqlite!Open, Open, Row
  <2>2. Effect(c, db) = Put(db, "watch_cycles", c.id, Open)
    BY <1>2 DEF Effect, Put
  <2>3. "watch_cycles" \in Names /\ c.id \in KeysOf("watch_cycles")
    BY <1>2 DEF Names, KeysOf, WellFormed
  <2>4. QED
    BY <2>1, <2>2, <2>3, PutCells, RowCells
<1>3. CASE c.op = "finish_watch_cycle"
  <2> DEFINE old == db["watch_cycles"][c.id]
  <2>1. statement = Row("watch_cycles", c.id, "update", c.outcome)
    BY <1>3, SameTables DEF Sqlite!Statements, Sqlite!FinishWatchCycle, Row
  <2>2. Effect(c, db) = Put(db, "watch_cycles", c.id, Update(old, c.outcome))
    BY <1>3 DEF Effect, Put, Update
  <2>3. "watch_cycles" \in Names /\ c.id \in KeysOf("watch_cycles")
    BY <1>3 DEF Names, KeysOf, WellFormed
  <2>4. QED
    BY <2>1, <2>2, <2>3, PutCells, RowCells
<1>4. CASE c.op = "inc_plugin_daily_count"
  <2> DEFINE old == db["plugin_daily_counters"][c.day]
  <2>1. statement = Row("plugin_daily_counters", c.day, "count", c.by)
    BY <1>4, SameTables DEF Sqlite!Statements, Sqlite!IncPluginDailyCount, Row
  <2>2. Effect(c, db) = Put(db, "plugin_daily_counters", c.day, Count(old, c.by))
    BY <1>4 DEF Effect, Put, Raise, Count
  <2>3. "plugin_daily_counters" \in Names /\ c.day \in KeysOf("plugin_daily_counters")
    BY <1>4 DEF Names, KeysOf, WellFormed
  <2>4. QED
    BY <2>1, <2>2, <2>3, PutCells, RowCells
<1>5. CASE c.op = "mark_plugin_once"
  <2>1. statement = Row("plugin_once_marks", 1, "make", 0)
    BY <1>5, SameTables DEF Sqlite!Statements, Sqlite!MarkPluginOnce, Row
  <2>2. Effect(c, db) = Put(db, "plugin_once_marks", 1, 0)
    BY <1>5 DEF Effect, Put
  <2>3. "plugin_once_marks" \in Names /\ 1 \in KeysOf("plugin_once_marks")
    BY <1>5 DEF Names, KeysOf, WellFormed
  <2>4. QED
    BY <2>1, <2>2, <2>3, PutCells, RowCells DEF Absent, Make
<1>6. CASE c.op = "set_plugin_kv"
  <2>1. statement = Row("plugin_kv", 1, "set", c.value)
    BY <1>6, SameTables DEF Sqlite!Statements, Sqlite!SetPluginKv, Row
  <2>2. Effect(c, db) = Put(db, "plugin_kv", 1, c.value)
    BY <1>6 DEF Effect, Put
  <2>3. "plugin_kv" \in Names /\ 1 \in KeysOf("plugin_kv")
    BY <1>6 DEF Names, KeysOf, WellFormed
  <2>4. QED
    BY <2>1, <2>2, <2>3, PutCells, RowCells
<1>7. CASE c.op = "log_plugin_action"
  <2> DEFINE old == db["plugin_action_logs"][1]
  <2>1. statement = Row("plugin_action_logs", 1, "count", 1)
    BY <1>7, SameTables DEF Sqlite!Statements, Sqlite!LogPluginAction, Row
  <2>2. Effect(c, db) = Put(db, "plugin_action_logs", 1, Count(old, 1))
    BY <1>7 DEF Effect, Put, Raise, Count
  <2>3. "plugin_action_logs" \in Names /\ 1 \in KeysOf("plugin_action_logs")
    BY <1>7 DEF Names, KeysOf, WellFormed
  <2>4. QED
    BY <2>1, <2>2, <2>3, PutCells, RowCells
<1>8. QED
  BY <1>1, <1>2, <1>3, <1>4, <1>5, <1>6, <1>7

\* What the tables hold of marks and snapshots, which makes a statement that
\* keeps a row as good as the promise to write it.
Marked(db) ==
  /\ db["plugin_once_marks"][1] \in {Absent, 0}
  /\ \A k \in NoteIds : db["notification_dedupe"][k] \in {Absent, 0}

LEMMA LastReadEffect ==
  ASSUME NEW c, WellFormed(c), NEW db, Shaped(db), c.op = "update_last_read_post_number",
         NEW statement, Sqlite!Statements(c, Absent)[1] = statement
  PROVE  /\ Shaped(Effect(c, db))
         /\ \A n \in Names : \A x \in KeysOf(n) :
              Effect(c, db)[n][x] = Exec(statement, db)[n][x]
<1> DEFINE read == Cell("last_read", c.topic, "set", c.number)
           title == Cell("topics", c.topic, "make", Blank)
           old == db["topics"][c.topic]
           once == Put(db, "last_read", c.topic, c.number)
<1>1. /\ "last_read" \in Names /\ c.topic \in KeysOf("last_read")
      /\ "topics" \in Names /\ c.topic \in KeysOf("topics")
  BY DEF Names, KeysOf, WellFormed
<1>2. Shaped(once) /\ once["topics"][c.topic] = old
  BY <1>1, PutCells
<1>3. Effect(c, db) = Put(once, "topics", c.topic, Make(old, Blank))
  BY <1>2 DEF Effect, Put, Make
<1>4. \A n \in Names : \A x \in KeysOf(n) :
        Effect(c, db)[n][x] = IF n = "topics" /\ x = c.topic THEN Make(old, Blank)
                              ELSE IF n = "last_read" /\ x = c.topic THEN c.number
                              ELSE db[n][x]
  <2>1. \A n \in Names : \A x \in KeysOf(n) :
          Effect(c, db)[n][x] = IF n = "topics" /\ x = c.topic THEN Make(old, Blank)
                                ELSE once[n][x]
    BY <1>1, <1>2, <1>3, PutCells
  <2>2. \A n \in Names : \A x \in KeysOf(n) :
          once[n][x] = IF n = "last_read" /\ x = c.topic THEN c.number ELSE db[n][x]
    BY <1>1, PutCells
  <2>3. QED
    BY <2>1, <2>2
<1>5. statement = {title, read} /\ Sqlite!Blank = Blank
  BY SameTables DEF Sqlite!Statements, Sqlite!UpdateLastReadPostNumber, Sqlite!Blank, Blank
<1>6. /\ read.table = "last_read" /\ read.key = c.topic
      /\ title.table = "topics" /\ title.key = c.topic
      /\ \A was : Written(title, was) = Make(was, Blank) /\ Written(read, was) = c.number
  BY DEF Cell, Written, Make
<1>7. /\ title \in statement /\ read \in statement
      /\ \A e \in statement : e = title \/ e = read
  BY <1>5
<1> HIDE DEF read, title
<1>8. \A n \in Names : \A x \in KeysOf(n) :
        Exec(statement, db)[n][x] = IF n = "topics" /\ x = c.topic THEN Make(old, Blank)
                                    ELSE IF n = "last_read" /\ x = c.topic THEN c.number
                                    ELSE db[n][x]
  BY <1>6, <1>7, TwoCells
<1>9. Shaped(Effect(c, db))
  BY <1>1, <1>2, <1>3, PutCells
<1>10. QED
  BY <1>4, <1>8, <1>9

LEMMA UpsertEffect ==
  ASSUME NEW c, WellFormed(c), NEW db, Shaped(db), c.op = "upsert_topic_detail"
  PROVE  /\ Shaped(Effect(c, db))
         /\ \A n \in Names : \A x \in KeysOf(n) : Effect(c, db)[n][x] = After(c, 2, db, n, x)
<1> DEFINE one == Put(db, "topics", c.topic, c.version)
           two == Put(one, "last_read", c.topic, c.read)
<1>1. /\ "last_read" \in Names /\ c.topic \in KeysOf("last_read")
      /\ "topics" \in Names /\ c.topic \in KeysOf("topics")
      /\ "topic_snapshots" \in Names /\ c.topic \in KeysOf("topic_snapshots")
      /\ c.topic \in Topics /\ c.version \in Versions
  BY DEF Names, KeysOf, WellFormed
<1>2. /\ Shaped(one)
      /\ \A n \in Names : \A x \in KeysOf(n) :
           one[n][x] = IF n = "topics" /\ x = c.topic THEN c.version ELSE db[n][x]
  BY <1>1, PutCells
<1>3. /\ Shaped(two)
      /\ \A n \in Names : \A x \in KeysOf(n) :
           two[n][x] = IF n = "last_read" /\ x = c.topic THEN c.read ELSE one[n][x]
  BY <1>1, <1>2, PutCells
<1>4. Effect(c, db) = Put(two, "topic_snapshots", c.topic, c.version)
  BY DEF Effect, Put
<1> HIDE DEF one, two
<1>5. /\ Shaped(Effect(c, db))
      /\ \A n \in Names : \A x \in KeysOf(n) :
           Effect(c, db)[n][x] =
             IF n = "topic_snapshots" /\ x = c.topic THEN c.version ELSE two[n][x]
  BY <1>1, <1>3, <1>4, PutCells
<1>6. \A n \in Names : \A x \in KeysOf(n) : Effect(c, db)[n][x] = After(c, 2, db, n, x)
  BY <1>2, <1>3, <1>5 DEF After
<1>7. QED
  BY <1>5, <1>6

\* A topic whose row has the version has its snapshot.
LEMMA UpsertSeen ==
  ASSUME NEW c, WellFormed(c), NEW db, c.op = "upsert_topic_detail", SnapshotsAgree(db),
         db["topics"][c.topic] = c.version, NEW n, NEW x
  PROVE  After(c, 2, db, n, x) = After(c, 1, db, n, x)
<1>1. db["topic_snapshots"][c.topic] = c.version
  BY DEF SnapshotsAgree, WellFormed
<1>2. QED
  BY <1>1 DEF After

LEMMA StatEffect ==
  ASSUME NEW c, WellFormed(c), NEW db, Shaped(db), c.op = "inc_stat"
  PROVE  /\ Shaped(Effect(c, db))
         /\ \A n \in Names : \A x \in KeysOf(n) :
              Effect(c, db)[n][x] = After(c, 4, db, n, x)
<1> DEFINE one == Put(db, "stats_total", 1, Make(db["stats_total"][1], 0) + c.by)
<1>1. /\ "stats_total" \in Names /\ 1 \in KeysOf("stats_total") /\ KeysOf("stats_total") = {1}
      /\ "stats_daily" \in Names /\ c.day \in KeysOf("stats_daily") /\ c.by \in Nat
  BY DEF Names, KeysOf, WellFormed
<1>2. \A old : (IF old = Absent THEN c.by ELSE old + c.by) = Make(old, 0) + c.by
  BY <1>1 DEF Make
<1>3. /\ Shaped(one)
      /\ \A n \in Names : \A x \in KeysOf(n) :
           one[n][x] = IF n = "stats_total" THEN Make(db[n][x], 0) + c.by ELSE db[n][x]
  BY <1>1, PutCells
<1>4. Raise(db, "stats_total", 1, c.by) = one
  BY <1>2 DEF Raise, Put
<1>5. Effect(c, db) = Put(one, "stats_daily", c.day, Make(one["stats_daily"][c.day], 0) + c.by)
  <2>1. Effect(c, db) = Raise(one, "stats_daily", c.day, c.by)
    BY <1>4 DEF Effect
  <2>2. QED
    BY <1>2, <2>1 DEF Raise, Put
<1> HIDE DEF one
<1>6. /\ Shaped(Effect(c, db))
      /\ \A n \in Names : \A x \in KeysOf(n) :
           Effect(c, db)[n][x] = IF n = "stats_daily" /\ x = c.day
                                 THEN Make(one["stats_daily"][c.day], 0) + c.by ELSE one[n][x]
  BY <1>1, <1>3, <1>5, PutCells
<1>7. QED
  BY <1>1, <1>3, <1>6 DEF After

LEMMA ListEffect ==
  ASSUME NEW c, WellFormed(c), NEW db, Shaped(db), Marked(db),
         c.op \in {"insert_posts", "mark_notifications_sent"}
  PROVE  /\ Shaped(Effect(c, db))
         /\ \A n \in Names : \A x \in KeysOf(n) :
              Effect(c, db)[n][x] = After(c, Len(c.ids), db, n, x)
<1>1. /\ "posts" \in Names /\ KeysOf("posts") = PostIds
      /\ "notification_dedupe" \in Names /\ KeysOf("notification_dedupe") = NoteIds
  BY DEF Names, KeysOf
<1>2. \A x : x \in Range(c.ids) <=> \E j \in 1..Len(c.ids) : c.ids[j] = x
  BY DEF Range, WellFormed
<1>3. CASE c.op = "insert_posts"
  <2>1. Effect(c, db) = [n \in Names |-> IF n = "posts"
           THEN [x \in KeysOf(n) |-> IF x \in Range(c.ids) THEN c.topic ELSE db[n][x]]
           ELSE [x \in KeysOf(n) |-> db[n][x]]]
    BY <1>1, <1>3 DEF Effect, Shaped
  <2>2. Shaped(Effect(c, db))
    BY <2>1 DEF Shaped
  <2>3. QED
    BY <1>2, <1>3, <2>1, <2>2 DEF After
<1>4. CASE c.op = "mark_notifications_sent"
  <2>1. Effect(c, db) = [n \in Names |-> IF n = "notification_dedupe"
           THEN [x \in KeysOf(n) |-> IF x \in Range(c.ids) THEN 0 ELSE db[n][x]]
           ELSE [x \in KeysOf(n) |-> db[n][x]]]
    BY <1>1, <1>4 DEF Effect, Shaped
  <2>2. Shaped(Effect(c, db))
    BY <2>1 DEF Shaped
  <2>3. \A x \in NoteIds : Make(db["notification_dedupe"][x], 0) = 0
    BY DEF Make, Marked
  <2>4. QED
    BY <1>1, <1>2, <1>4, <2>1, <2>2, <2>3 DEF After
<1>5. QED
  BY <1>3, <1>4

LEMMA EffectIsAfter ==
  ASSUME NEW c, NEW k, WellFormed(c), ~Sqlite!IsRead(c), NEW db, Shaped(db), Marked(db),
         c.op # "upsert_topic_detail", NEW last, Len(Sqlite!Statements(c, k)) = last
  PROVE  /\ Shaped(Effect(c, db))
         /\ \A n \in Names : \A x \in KeysOf(n) :
              Effect(c, db)[n][x] = After(c, last, db, n, x)
<1> USE DEF SeveralStatements
<1>1. CASE c.op = "inc_stat"
  <2>1. last = 4
    BY <1>1, SqliteLength
  <2>2. QED
    BY <1>1, <2>1, StatEffect
<1>2. CASE c.op \in {"insert_posts", "mark_notifications_sent"}
  <2>1. last = Len(c.ids)
    BY <1>2, SqliteLength
  <2>2. QED
    BY <1>2, <2>1, ListEffect
<1>3. CASE c.op \notin SeveralStatements
  <2> DEFINE statement == Sqlite!Statements(c, Absent)[1]
  <2>1. last = 1
    BY <1>3, SingleStatement
  <2>2. \A n \in Names : \A x \in KeysOf(n) : After(c, 1, db, n, x) = Exec(statement, db)[n][x]
    BY <1>3 DEF After
  <2>3. CASE c.op = "update_last_read_post_number"
    BY <2>1, <2>2, <2>3, LastReadEffect
  <2>4. CASE c.op # "update_last_read_post_number"
    <3>1. c.op \in {"upsert_topic_crawl_state", "begin_watch_cycle", "finish_watch_cycle",
                    "inc_plugin_daily_count", "mark_plugin_once", "set_plugin_kv",
                    "log_plugin_action"}
      BY <1>3, <2>4 DEF WellFormed, Operations, Sqlite!IsRead, Sqlite!Reads
    <3>2. QED
      BY <2>1, <2>2, <3>1, SingleEffect DEF Marked
  <2>5. QED
    BY <2>3, <2>4
<1>4. QED
  BY <1>1, <1>2, <1>3

\* The tables that a call leaves alone.
LEMMA OtherTables ==
  ASSUME NEW c, WellFormed(c), ~Sqlite!IsRead(c), c.op # "upsert_topic_detail",
         NEW db, Shaped(db)
  PROVE  /\ c.op # "update_last_read_post_number" =>
              /\ Effect(c, db)["topics"] = db["topics"]
              /\ Effect(c, db)["topic_snapshots"] = db["topic_snapshots"]
         /\ c.op \notin {"mark_notifications_sent", "mark_plugin_once"} =>
              /\ Effect(c, db)["notification_dedupe"] = db["notification_dedupe"]
              /\ Effect(c, db)["plugin_once_marks"] = db["plugin_once_marks"]
<1>1. CASE c.op = "insert_posts"
  BY <1>1 DEF Effect, Raise, Shaped, Names
<1>2. CASE c.op = "upsert_topic_crawl_state"
  BY <1>2 DEF Effect, Raise, Shaped, Names
<1>3. CASE c.op = "update_last_read_post_number"
  BY <1>3 DEF Effect, Raise, Shaped, Names
<1>4. CASE c.op = "begin_watch_cycle"
  BY <1>4 DEF Effect, Raise, Shaped, Names
<1>5. CASE c.op = "finish_watch_cycle"
  BY <1>5 DEF Effect, Raise, Shaped, Names
<1>6. CASE c.op = "mark_notifications_sent"
  BY <1>6 DEF Effect, Raise, Shaped, Names
<1>7. CASE c.op = "inc_stat"
  BY <1>7 DEF Effect, Raise, Shaped, Names
<1>8. CASE c.op = "inc_plugin_daily_count"
  BY <1>8 DEF Effect, Raise, Shaped, Names
<1>9. CASE c.op = "mark_plugin_once"
  BY <1>9 DEF Effect, Raise, Shaped, Names
<1>10. CASE c.op = "set_plugin_kv"
  BY <1>10 DEF Effect, Raise, Shaped, Names
<1>11. CASE c.op = "log_plugin_action"
  BY <1>11 DEF Effect, Raise, Shaped, Names
<1>12. QED
  BY <1>1, <1>2, <1>3, <1>4, <1>5, <1>6, <1>7, <1>8, <1>9, <1>10, <1>11
  DEF WellFormed, Operations, Sqlite!IsRead, Sqlite!Reads

\* No other call changes the version of a topic, or makes one.
LEMMA EffectOnTopics ==
  ASSUME NEW c, WellFormed(c), ~Sqlite!IsRead(c), c.op # "upsert_topic_detail",
         NEW db, Shaped(db), NEW t \in Topics
  PROVE  /\ \/ Effect(c, db)["topics"][t] = db["topics"][t]
            \/ db["topics"][t] = Absent /\ Effect(c, db)["topics"][t] = Blank
         /\ Effect(c, db)["topic_snapshots"][t] = db["topic_snapshots"][t]
<1>1. CASE c.op = "update_last_read_post_number"
  <2>1. \A n \in Names : \A x \in KeysOf(n) :
          n # "last_read" => Effect(c, db)[n][x] = db[n][x]
            \/ (n = "topics" /\ db[n][x] = Absent /\ Effect(c, db)[n][x] = Blank)
    BY <1>1 DEF Effect, Shaped
  <2>2. QED
    BY <2>1, Keys
<1>2. CASE c.op # "update_last_read_post_number"
  BY <1>2, OtherTables
<1>3. QED
  BY <1>1, <1>2

\* What a call asks for leaves a mark a mark.
LEMMA EffectKeeps ==
  ASSUME NEW c, WellFormed(c), ~Sqlite!IsRead(c), NEW db, Shaped(db), Marked(db)
  PROVE  Marked(Effect(c, db))
<1>1. CASE c.op = "upsert_topic_detail"
  <2>1. \A n \in Names : \A x \in KeysOf(n) : Effect(c, db)[n][x] = After(c, 2, db, n, x)
    BY <1>1, UpsertEffect
  <2>2. QED
    BY <1>1, <2>1 DEF After, Marked, Names, KeysOf
<1>2. CASE c.op = "mark_notifications_sent"
  <2>1. /\ Effect(c, db)["plugin_once_marks"] = db["plugin_once_marks"]
        /\ \A n \in NoteIds : Effect(c, db)["notification_dedupe"][n] \in
             {0, db["notification_dedupe"][n]}
    BY <1>2 DEF Effect, Shaped, Names, KeysOf
  <2>2. QED
    BY <2>1 DEF Marked
<1>3. CASE c.op = "mark_plugin_once"
  <2>1. /\ Effect(c, db)["notification_dedupe"] = db["notification_dedupe"]
        /\ Effect(c, db)["plugin_once_marks"][1] = 0
    BY <1>3 DEF Effect, Shaped, Names, KeysOf
  <2>2. QED
    BY <2>1 DEF Marked
<1>4. CASE c.op \notin {"upsert_topic_detail", "mark_notifications_sent", "mark_plugin_once"}
  BY <1>4, OtherTables DEF Marked
<1>5. QED
  BY <1>1, <1>2, <1>3, <1>4

-----------------------------------------------------------------------------
(* What a call that has been cut short comes to *)

\* The first statement of upsert_topic_detail.
LEMMA RowOnlyCells ==
  ASSUME NEW c, WellFormed(c), NEW db, Shaped(db), c.op = "upsert_topic_detail"
  PROVE  /\ Shaped(Store!RowOnly(c, db))
         /\ \A n \in Names : \A x \in KeysOf(n) :
              Store!RowOnly(c, db)[n][x] = After(c, 1, db, n, x)
<1> DEFINE whole == Effect(c, db)
           row == Store!RowOnly(c, db)
<1>1. /\ Shaped(whole)
      /\ \A n \in Names : \A x \in KeysOf(n) : whole[n][x] = After(c, 2, db, n, x)
  BY UpsertEffect
<1>2. row = [whole EXCEPT !["topic_snapshots"] = db["topic_snapshots"]]
  BY SameTables DEF Store!RowOnly
<1> HIDE DEF whole, row
<1>3. /\ row = [n \in Names |-> IF n = "topic_snapshots" THEN db[n] ELSE whole[n]]
      /\ \A n \in Names : db[n] = [x \in KeysOf(n) |-> db[n][x]]
      /\ \A n \in Names : whole[n] = [x \in KeysOf(n) |-> whole[n][x]]
  BY <1>1, <1>2 DEF Shaped
<1>4. \A n \in Names : row[n] = [x \in KeysOf(n) |-> row[n][x]]
  BY <1>3
<1>5. Shaped(row)
  BY <1>3, <1>4 DEF Shaped
<1>6. \A n \in Names : \A x \in KeysOf(n) : row[n][x] = After(c, 1, db, n, x)
  BY <1>1, <1>3 DEF After
<1>7. QED
  BY <1>5, <1>6 DEF row

\* All statements of a call come to what is to be carried out, when the version it
\* has seen of the topic tells whether the row has its own.
LEMMA CarriedIsAfter ==
  ASSUME NEW c, NEW k, WellFormed(c), ~Sqlite!IsRead(c), NEW db, Shaped(db), Marked(db),
         c.op = "upsert_topic_detail" =>
           (k = c.version <=> db["topics"][c.topic] = c.version),
         NEW last, Len(Sqlite!Statements(c, k)) = last
  PROVE  /\ Shaped(Store!Carried(c, db))
         /\ \A n \in Names : \A x \in KeysOf(n) :
              Store!Carried(c, db)[n][x] = After(c, last, db, n, x)
<1>1. CASE c.op # "upsert_topic_detail"
  <2>1. Store!Carried(c, db) = Effect(c, db)
    BY <1>1, SameTables DEF Store!Carried
  <2>2. QED
    BY <1>1, <2>1, EffectIsAfter
<1>2. CASE c.op = "upsert_topic_detail" /\ k = c.version
  <2>1. last = 1 /\ Store!Carried(c, db) = Store!RowOnly(c, db)
    BY <1>2, SqliteLength DEF Store!Carried
  <2>2. QED
    BY <1>2, <2>1, RowOnlyCells
<1>3. CASE c.op = "upsert_topic_detail" /\ k # c.version
  <2>1. last = 2 /\ Store!Carried(c, db) = Effect(c, db)
    BY <1>3, SqliteLength, SameTables DEF Store!Carried
  <2>2. QED
    BY <1>3, <2>1, UpsertEffect
<1>4. QED
  BY <1>1, <1>2, <1>3

\* The first rows of a list are a list.
LEMMA FirstRows ==
  ASSUME NEW c, WellFormed(c), c.op \in {"insert_posts", "mark_notifications_sent"},
         NEW i \in 1..(Len(c.ids) - 1), NEW db, Shaped(db), Marked(db),
         NEW d, WellFormed(d), d.op = c.op, d.ids = SubSeq(c.ids, 1, i),
         c.op = "insert_posts" => d.topic = c.topic,
         NEW now, Shaped(now),
         \A n \in Names : \A x \in KeysOf(n) : now[n][x] = After(c, i, db, n, x)
  PROVE  now = Effect(d, db)
<1>1. c.ids \in Seq(PostIds) \/ c.ids \in Seq(NoteIds)
  BY DEF WellFormed
<1>2. i \in Nat /\ Len(d.ids) = i /\ \A j \in 1..i : d.ids[j] = c.ids[j]
  BY <1>1
<1>3. /\ Shaped(Effect(d, db))
      /\ \A n \in Names : \A x \in KeysOf(n) : Effect(d, db)[n][x] = After(d, i, db, n, x)
  BY <1>2, ListEffect
<1>4. \A n, x : After(d, i, db, n, x) = After(c, i, db, n, x)
  BY <1>2 DEF After
<1>5. QED
  BY <1>3, <1>4, Extensional

\* The statements before the last of inc_stat.
LEMMA StatLeft ==
  ASSUME NEW c, WellFormed(c), c.op = "inc_stat", NEW i \in 1..3, NEW db, Shaped(db),
         NEW now, Shaped(now),
         \A n \in Names : \A x \in KeysOf(n) : now[n][x] = After(c, i, db, n, x)
  PROVE  now \in Store!Left(c, db)
<1> DEFINE old == db["stats_total"][1]
           made == Put(db, "stats_total", 1, Make(old, 0))
           total == Put(db, "stats_total", 1, Make(old, 0) + c.by)
           daily == Put(total, "stats_daily", c.day, Make(total["stats_daily"][c.day], 0))
<1>1. /\ "stats_total" \in Names /\ 1 \in KeysOf("stats_total") /\ KeysOf("stats_total") = {1}
      /\ "stats_daily" \in Names /\ c.day \in KeysOf("stats_daily") /\ c.by \in Nat
  BY DEF Names, KeysOf, WellFormed
<1>2. \A was : /\ (IF was = Absent THEN c.by ELSE was + c.by) = Make(was, 0) + c.by
               /\ Store!Number(was) = Make(was, 0)
  BY <1>1 DEF Make, Store!Number, Store!Absent, Absent
<1>3. Raise(db, "stats_total", 1, c.by) = total
  BY <1>2 DEF Raise, Put
<1>4. \A tables, t, x : Store!Made(tables, t, x) = Put(tables, t, x, Make(tables[t][x], 0))
  BY <1>2 DEF Store!Made, Put
<1>5. Store!Left(c, db) = {made, total, daily}
  <2>1. Store!Left(c, db) = {Store!Made(db, "stats_total", 1), total,
                             Store!Made(total, "stats_daily", c.day)}
    BY <1>3, SameTables DEF Store!Left
  <2>2. QED
    BY <1>4, <2>1
<1>6. /\ Shaped(made)
      /\ \A n \in Names : \A x \in KeysOf(n) :
           made[n][x] = IF n = "stats_total" THEN Make(db[n][x], 0) ELSE db[n][x]
  BY <1>1, PutCells
<1>7. /\ Shaped(total)
      /\ \A n \in Names : \A x \in KeysOf(n) :
           total[n][x] = IF n = "stats_total" THEN Make(db[n][x], 0) + c.by ELSE db[n][x]
  BY <1>1, PutCells
<1> HIDE DEF made, total
<1>8. /\ Shaped(daily)
      /\ \A n \in Names : \A x \in KeysOf(n) :
           daily[n][x] = IF n = "stats_daily" /\ x = c.day
                         THEN Make(total["stats_daily"][c.day], 0) ELSE total[n][x]
  BY <1>1, <1>7, PutCells
<1> HIDE DEF daily
<1>9. CASE i = 1
  <2>1. \A n \in Names : \A x \in KeysOf(n) : now[n][x] = made[n][x]
    BY <1>1, <1>6, <1>9 DEF After
  <2>2. now = made
    BY <1>6, <2>1, Extensional
  <2>3. QED
    BY <1>5, <2>2
<1>10. CASE i = 2
  <2>1. \A n \in Names : \A x \in KeysOf(n) : now[n][x] = total[n][x]
    BY <1>1, <1>7, <1>10 DEF After
  <2>2. now = total
    BY <1>7, <2>1, Extensional
  <2>3. QED
    BY <1>5, <2>2
<1>11. CASE i = 3
  <2>1. \A n \in Names : \A x \in KeysOf(n) : now[n][x] = daily[n][x]
    BY <1>1, <1>7, <1>8, <1>11 DEF After
  <2>2. now = daily
    BY <1>8, <2>1, Extensional
  <2>3. QED
    BY <1>5, <2>2
<1>12. QED
  BY <1>9, <1>10, <1>11

\* What the statements before the last come to may be left of a call.
LEMMA LeftIsAfter ==
  ASSUME NEW c, NEW k, WellFormed(c), ~Sqlite!IsRead(c), NEW db, Shaped(db), Marked(db),
         c.op = "upsert_topic_detail" =>
           (k = c.version <=> db["topics"][c.topic] = c.version),
         NEW i \in 1..(Len(Sqlite!Statements(c, k)) - 1), NEW now, Shaped(now),
         \A n \in Names : \A x \in KeysOf(n) : now[n][x] = After(c, i, db, n, x)
  PROVE  now \in Store!Left(c, db) /\ Marked(now)
<1> DEFINE last == Len(Sqlite!Statements(c, k))
<1>1. /\ i \in 1..(last - 1)
      /\ c.op = "upsert_topic_detail" => last = IF k = c.version THEN 1 ELSE 2
      /\ c.op \in {"insert_posts", "mark_notifications_sent"} => last = Len(c.ids)
      /\ c.op = "inc_stat" => last = 4
  BY SqliteLength
<1>2. c.op \notin SeveralStatements => last = 1
  BY SingleStatement
<1> HIDE DEF last
<1>3. CASE c.op = "upsert_topic_detail"
  <2>1. k # c.version /\ i = 1
    BY <1>3, <1>1
  <2>2. now = Store!RowOnly(c, db)
    BY <1>3, <2>1, RowOnlyCells, Extensional
  <2>3. now \in Store!Left(c, db)
    BY <1>3, <2>1, <2>2 DEF Store!Left
  <2>4. Marked(now)
    BY <1>3 DEF After, Marked, Names, KeysOf
  <2>5. QED
    BY <2>3, <2>4
<1>4. CASE c.op = "insert_posts"
  <2> DEFINE d == [op |-> c.op, topic |-> c.topic, ids |-> SubSeq(c.ids, 1, i)]
  <2>1. i \in 1..(Len(c.ids) - 1) /\ c.ids \in Seq(PostIds) /\ c.topic \in Topics
    BY <1>4, <1>1 DEF WellFormed
  <2>2. SubSeq(c.ids, 1, i) \in Seq(PostIds) \ {<<>>}
    BY <2>1
  <2>3. /\ WellFormed(d) /\ d.op = c.op /\ d.ids = SubSeq(c.ids, 1, i) /\ d.topic = c.topic
    BY <1>4, <2>1, <2>2 DEF WellFormed, Operations
  <2> HIDE DEF d
  <2>4. now = Effect(d, db)
    BY <1>4, <2>1, <2>3, FirstRows
  <2>5. now \in Store!Left(c, db)
    BY <1>4, <2>1, <2>4, SameTables DEF Store!Left, d
  <2>6. Marked(now)
    BY <1>4 DEF After, Marked, Names, KeysOf
  <2>7. QED
    BY <2>5, <2>6
<1>5. CASE c.op = "mark_notifications_sent"
  <2> DEFINE d == [op |-> c.op, ids |-> SubSeq(c.ids, 1, i)]
  <2>1. i \in 1..(Len(c.ids) - 1) /\ c.ids \in Seq(NoteIds)
    BY <1>5, <1>1 DEF WellFormed
  <2>2. SubSeq(c.ids, 1, i) \in Seq(NoteIds) \ {<<>>}
    BY <2>1
  <2>3. /\ WellFormed(d) /\ d.op = c.op /\ d.ids = SubSeq(c.ids, 1, i)
    BY <1>5, <2>1, <2>2 DEF WellFormed, Operations
  <2> HIDE DEF d
  <2>4. now = Effect(d, db)
    BY <1>5, <2>1, <2>3, FirstRows
  <2>5. now \in Store!Left(c, db)
    BY <1>5, <2>1, <2>4, SameTables DEF Store!Left, d
  <2>6. ~Sqlite!IsRead(d)
    BY <2>3 DEF Sqlite!IsRead
  <2>7. QED
    BY <2>3, <2>4, <2>5, <2>6, EffectKeeps
<1>6. CASE c.op = "inc_stat"
  <2>1. i \in 1..3
    BY <1>6, <1>1
  <2>2. Marked(now)
    BY <1>6 DEF After, Marked, Names, KeysOf
  <2>3. QED
    BY <1>6, <2>1, <2>2, StatLeft
<1>7. CASE c.op \notin SeveralStatements
  BY <1>7, <1>1, <1>2
<1>8. QED
  BY <1>3, <1>4, <1>5, <1>6, <1>7 DEF SeveralStatements

-----------------------------------------------------------------------------
(* The inductive invariant of SqliteStore *)

SqliteShape ==
  /\ pc \in [Threads -> {"idle", "key", "lock", "run"}]
  /\ at \in [Threads -> Nat]
  /\ call = [th \in Threads |-> call[th]] /\ key = [th \in Threads |-> key[th]]
  /\ txn \in {"none", "begun", "read", "write"}
  /\ stale \in BOOLEAN /\ other \in BOOLEAN /\ raised \in BOOLEAN

\* Where a thread is; and that it has seen its own version of the topic when the
\* row it will find has that version, and not otherwise.
SeesRow(th) ==
  key[th] = call[th].version <=> settled["topics"][call[th].topic] = call[th].version

SqliteFlow(th) ==
  /\ pc[th] = "idle" => call[th] = NoCall
  /\ pc[th] # "idle" => call[th] \in SqliteCallsOf[th]
  /\ pc[th] = "run" <=> lock = th
  /\ at[th] > 0 => pc[th] = "run" /\ ~Sqlite!IsRead(call[th]) /\ txn = "write"
  /\ pc[th] = "run" /\ ~Sqlite!IsRead(call[th]) =>
       at[th] <= Len(Sqlite!Statements(call[th], key[th]))
  /\ pc[th] \in {"lock", "run"} /\ call[th].op = "upsert_topic_detail" => SeesRow(th)

\* A transaction that is open although nobody executes a statement holds what
\* calls that raised have left.
SqliteTxn ==
  /\ txn = "write" => ~stale /\ ~other
  /\ txn = "write" /\ (\A th \in Threads : at[th] = 0) => work = settled
  /\ txn # "write" => settled = disk
  /\ ~raised /\ txn # "none" => \E th \in Threads : lock = th /\ ~Sqlite!IsRead(call[th])
  /\ txn = "read" => work = disk
  /\ stale => txn = "read"

\* The open transaction sees what is settled and the statements executed.
SqliteWork ==
  \A th \in Threads : at[th] > 0 =>
    /\ Shaped(work)
    /\ \A n \in Names : \A x \in KeysOf(n) :
         work[n][x] = After(call[th], at[th], settled, n, x)

SqliteDisk == /\ Shaped(disk) /\ Marked(disk)
              /\ Shaped(settled) /\ Marked(settled)

SqliteInv ==
  /\ SqliteShape /\ SqliteTxn /\ SqliteWork /\ SqliteDisk
  /\ \A th \in Threads : SqliteFlow(th)

\* What is assumed of the threads and their calls.
LEMMA SqliteCalls ==
  ASSUME Sqlite!SqliteAssumption
  PROVE  /\ "free" \notin Threads
         /\ \A th \in Threads : \A c \in SqliteCallsOf[th] : WellFormed(c) /\ c # NoCall
         /\ \A th, o \in Threads : \A c \in SqliteCallsOf[th], d \in SqliteCallsOf[o] :
              c.op = "upsert_topic_detail" /\ d.op = "upsert_topic_detail" => th = o
<1>1. /\ "free" \notin Threads
      /\ \A th \in Threads : \A c \in SqliteCallsOf[th] : WellFormed(c)
      /\ \A th, o \in Threads : \A c \in SqliteCallsOf[th], d \in SqliteCallsOf[o] :
              c.op = "upsert_topic_detail" /\ d.op = "upsert_topic_detail" => th = o
  BY SameTables DEF Sqlite!SqliteAssumption
<1>2. \A c : WellFormed(c) => c # NoCall
  BY DEF WellFormed, Operations, NoCall
<1>3. QED
  BY <1>1, <1>2

\* Nor do its statements, when it is half-way.
LEMMA AfterOnTopics ==
  ASSUME NEW c, NEW k, WellFormed(c), ~Sqlite!IsRead(c), c.op # "upsert_topic_detail",
         NEW db, Shaped(db), Marked(db),
         NEW i \in 1..Len(Sqlite!Statements(c, k)), NEW t \in Topics
  PROVE  \/ After(c, i, db, "topics", t) = db["topics"][t]
         \/ db["topics"][t] = Absent /\ After(c, i, db, "topics", t) = Blank
<1> USE DEF SeveralStatements
<1>1. CASE c.op \in {"insert_posts", "mark_notifications_sent", "inc_stat"}
  BY <1>1 DEF After
<1>2. CASE c.op \notin {"insert_posts", "mark_notifications_sent", "inc_stat"}
  <2>1. c.op \notin SeveralStatements
    BY <1>2
  <2> DEFINE last == Len(Sqlite!Statements(c, k))
  <2>2. last = 1
    BY <2>1, SingleStatement
  <2>3. i = 1
    BY <2>2
  <2>4. \A n \in Names : \A x \in KeysOf(n) : Effect(c, db)[n][x] = After(c, last, db, n, x)
    BY EffectIsAfter
  <2>5. "topics" \in Names /\ t \in KeysOf("topics")
    BY Keys
  <2> DEFINE now == After(c, 1, db, "topics", t)
  <2> HIDE DEF now
  <2>6. Effect(c, db)["topics"][t] = now
    BY <2>2, <2>4, <2>5 DEF now
  <2>7. now = db["topics"][t] \/ (db["topics"][t] = Absent /\ now = Blank)
    BY <2>6, EffectOnTopics
  <2>8. QED
    BY <2>3, <2>7 DEF now
<1>3. QED
  BY <1>1, <1>2

\* The thread that holds the lock and has executed nothing finds what is settled.
LEMMA CleanView ==
  ASSUME SqliteInv, NEW th \in Threads, pc[th] = "run", at[th] = 0
  PROVE  Sqlite!View = settled /\ \A o \in Threads : at[o] = 0
<1>1. \A o \in Threads : at[o] = 0
  BY DEF SqliteInv, SqliteFlow, SqliteShape
<1>2. Sqlite!View = settled
  BY <1>1 DEF Sqlite!View, SqliteInv, SqliteTxn, SqliteShape
<1>3. QED
  BY <1>1, <1>2

\* What a thread that has executed a statement has under way.
LEMMA UnderWay ==
  ASSUME Sqlite!SqliteAssumption, SqliteInv, NEW o \in Threads, at[o] > 0
  PROVE  /\ pc[o] = "run" /\ txn = "write" /\ ~Sqlite!IsRead(call[o])
         /\ call[o] \in SqliteCallsOf[o] /\ WellFormed(call[o])
         /\ at[o] \in 1..Len(Sqlite!Statements(call[o], key[o]))
         /\ Len(Sqlite!Statements(call[o], key[o])) \in Nat
<1>1. /\ pc[o] = "run" /\ ~Sqlite!IsRead(call[o]) /\ call[o] \in SqliteCallsOf[o]
      /\ at[o] \in Nat /\ at[o] <= Len(Sqlite!Statements(call[o], key[o])) /\ txn = "write"
  BY DEF SqliteInv, SqliteFlow, SqliteShape
<1>2. WellFormed(call[o])
  BY <1>1, SqliteCalls
<1>3. Len(Sqlite!Statements(call[o], key[o])) \in Nat
  BY <1>1, <1>2, SqliteLength
<1>4. QED
  BY <1>1, <1>2, <1>3

\* What the statements under way leave of the versions of topics, when they are
\* not those of the thread that writes versions.
LEMMA WorkOnTopics ==
  ASSUME Sqlite!SqliteAssumption, SqliteInv, NEW o \in Threads, at[o] > 0,
         call[o].op # "upsert_topic_detail", NEW t \in Topics, NEW v \in Versions
  PROVE  work["topics"][t] = v <=> settled["topics"][t] = v
<1>1. work["topics"][t] = After(call[o], at[o], settled, "topics", t)
  BY Keys DEF SqliteInv, SqliteWork
<1>2. \/ work["topics"][t] = settled["topics"][t]
      \/ settled["topics"][t] = Absent /\ work["topics"][t] = Blank
  BY <1>1, UnderWay, AfterOnTopics DEF SqliteInv, SqliteDisk
<1>3. QED
  BY <1>2, VersionIsNew

\* What a thread sees before it takes the lock: what is settled, or another
\* thread's statements, which leave the versions of topics alone.
LEMMA SeenVersion ==
  ASSUME Sqlite!SqliteAssumption, SqliteInv, NEW th \in Threads, pc[th] = "key",
         call[th].op = "upsert_topic_detail"
  PROVE  Sqlite!View["topics"][call[th].topic] = call[th].version
           <=> settled["topics"][call[th].topic] = call[th].version
<1>1. /\ call[th] \in SqliteCallsOf[th] /\ WellFormed(call[th])
      /\ call[th].topic \in Topics /\ call[th].version \in Versions
  BY SqliteCalls DEF SqliteInv, SqliteFlow, WellFormed
<1>2. CASE \A o \in Threads : at[o] = 0
  BY <1>2 DEF Sqlite!View, SqliteInv, SqliteTxn, SqliteShape
<1>3. ASSUME NEW o \in Threads, at[o] # 0
      PROVE  Sqlite!View["topics"][call[th].topic] = call[th].version
               <=> settled["topics"][call[th].topic] = call[th].version
  <2>1. at[o] > 0
    BY <1>3 DEF SqliteInv, SqliteShape
  <2>2. pc[o] = "run" /\ txn = "write" /\ call[o] \in SqliteCallsOf[o]
    BY <2>1, UnderWay
  <2>3. call[o].op # "upsert_topic_detail"
    BY <1>1, <2>2, SqliteCalls
  <2>4. Sqlite!View = work
    BY <2>2 DEF Sqlite!View
  <2>5. QED
    BY <1>1, <2>1, <2>3, <2>4, WorkOnTopics
<1>4. QED
  BY <1>2, <1>3

\* Another thread is where it was.
LEMMA SqliteFlowKept ==
  ASSUME NEW o \in Threads, SqliteFlow(o),
         pc'[o] = pc[o], at'[o] = at[o], call'[o] = call[o], key'[o] = key[o],
         settled' = settled, (lock' = o) <=> (lock = o), at[o] > 0 => txn' = txn
  PROVE  SqliteFlow(o)'
BY DEF SqliteFlow, SeesRow

LEMMA SqliteBeginKeeps ==
  ASSUME Sqlite!SqliteAssumption, SqliteInv,
         NEW th \in Threads, NEW c \in SqliteCallsOf[th],
         Sqlite!Begin(th, c)
  PROVE  SqliteInv'
<1>1. /\ pc[th] = "idle" /\ at[th] = 0 /\ lock # th
      /\ UNCHANGED <<disk, txn, stale, work, other, lock, key, at, raised, settled>>
      /\ call'[th] = c /\ \A o \in Threads \ {th} : call'[o] = call[o] /\ pc'[o] = pc[o]
      /\ pc'[th] \in {"key", "lock"}
      /\ pc'[th] = "lock" => c.op # "upsert_topic_detail"
  BY DEF Sqlite!Begin, Sqlite!conn, SqliteInv, SqliteShape, SqliteFlow
<1>2. SqliteShape'
  BY <1>1 DEF Sqlite!Begin, SqliteInv, SqliteShape
<1>3. SqliteTxn' /\ SqliteDisk'
  BY <1>1 DEF SqliteInv, SqliteTxn, SqliteDisk
<1>4. SqliteWork'
  BY <1>1 DEF SqliteInv, SqliteWork
<1>5. \A o \in Threads : SqliteFlow(o)'
  <2>1. SqliteFlow(th)'
    BY <1>1 DEF SqliteFlow
  <2>2. ASSUME NEW o \in Threads \ {th} PROVE SqliteFlow(o)'
    BY <1>1, SqliteFlowKept DEF SqliteInv
  <2>3. QED
    BY <2>1, <2>2
<1>6. QED
  BY <1>2, <1>3, <1>4, <1>5 DEF SqliteInv

LEMMA SqliteReadKeyKeeps ==
  ASSUME Sqlite!SqliteAssumption, SqliteInv, NEW th \in Threads, Sqlite!ReadKey(th)
  PROVE  SqliteInv'
<1>1. /\ pc[th] = "key" /\ at[th] = 0 /\ lock # th
      /\ UNCHANGED <<disk, stale, other, lock, call, at, raised, settled>>
      /\ pc'[th] = "lock" /\ \A o \in Threads \ {th} : key'[o] = key[o] /\ pc'[o] = pc[o]
      /\ key'[th] = Sqlite!View["topics"][call[th].topic]
      /\ \/ txn = "begun" /\ txn' = "read" /\ work' = disk
         \/ UNCHANGED <<txn, work>>
  BY DEF Sqlite!ReadKey, Sqlite!AfterRead, Sqlite!conn, SqliteInv, SqliteShape, SqliteFlow
<1>2. SqliteShape'
  BY <1>1 DEF Sqlite!ReadKey, SqliteInv, SqliteShape
<1>3. \A o \in Threads : at[o] > 0 => UNCHANGED <<txn, work>>
  BY <1>1 DEF SqliteInv, SqliteFlow
<1>4. SqliteTxn' /\ SqliteDisk'
  BY <1>1 DEF SqliteInv, SqliteTxn, SqliteDisk
<1>5. SqliteWork'
  BY <1>1, <1>3 DEF SqliteInv, SqliteWork
<1>6. \A o \in Threads : SqliteFlow(o)'
  <2>1. call[th] \in SqliteCallsOf[th] /\ call[th] # NoCall
    BY <1>1, SqliteCalls DEF SqliteInv, SqliteFlow
  <2>2. SqliteFlow(th)'
    BY <1>1, <2>1, SeenVersion DEF SqliteFlow, SeesRow
  <2>3. ASSUME NEW o \in Threads \ {th} PROVE SqliteFlow(o)'
    BY <1>1, <1>3, SqliteFlowKept DEF SqliteInv
  <2>4. QED
    BY <2>2, <2>3
<1>7. QED
  BY <1>2, <1>4, <1>5, <1>6 DEF SqliteInv

LEMMA SqliteAcquireKeeps ==
  ASSUME Sqlite!SqliteAssumption, SqliteInv, NEW th \in Threads, Sqlite!Acquire(th)
  PROVE  SqliteInv'
<1>1. /\ pc[th] = "lock" /\ at[th] = 0 /\ lock = "free" /\ lock' = th
      /\ \A o \in Threads : pc[o] # "run" /\ o # "free"
      /\ UNCHANGED <<disk, txn, stale, work, other, call, key, at, raised, settled>>
      /\ pc'[th] = "run" /\ \A o \in Threads \ {th} : pc'[o] = pc[o]
  BY SqliteCalls DEF Sqlite!Acquire, Sqlite!conn, SqliteInv, SqliteShape, SqliteFlow
<1>2. SqliteShape'
  BY <1>1 DEF Sqlite!Acquire, SqliteInv, SqliteShape
<1>3. SqliteTxn' /\ SqliteDisk'
  BY <1>1 DEF SqliteInv, SqliteTxn, SqliteDisk
<1>4. SqliteWork'
  BY <1>1 DEF SqliteInv, SqliteWork
<1>5. \A o \in Threads : SqliteFlow(o)'
  <2>1. SqliteFlow(th)'
    <3>1. call[th] \in SqliteCallsOf[th] /\ WellFormed(call[th])
      BY <1>1, SqliteCalls DEF SqliteInv, SqliteFlow
    <3>2. ~Sqlite!IsRead(call[th]) => Len(Sqlite!Statements(call[th], key[th])) \in Nat
      BY <3>1, SqliteLength
    <3>3. QED
      BY <1>1, <3>1, <3>2 DEF SqliteFlow, SeesRow, SqliteInv
  <2>2. ASSUME NEW o \in Threads \ {th} PROVE SqliteFlow(o)'
    BY <1>1, SqliteFlowKept DEF SqliteInv
  <2>3. QED
    BY <2>1, <2>2
<1>6. QED
  BY <1>2, <1>3, <1>4, <1>5 DEF SqliteInv

\* A call that ends leaves the transaction closed, or settled, and has not changed
\* whether a topic that another thread has read is at that thread's version.
LEMMA SqliteEndKeeps ==
  ASSUME Sqlite!SqliteAssumption, SqliteInv, NEW th \in Threads, pc[th] = "run",
         NEW how, Sqlite!End(th, how), SqliteDisk',
         txn' \in {"none", "begun", "read", "write"}, stale' \in BOOLEAN,
         raised' \in BOOLEAN, ~raised' => txn' = "none",
         txn' = "read" => work' = disk', stale' => txn' = "read",
         txn' = "write" => ~other /\ work' = settled',
         txn' # "write" => settled' = disk',
         \A o \in Threads \ {th} :
           pc[o] = "lock" /\ call[o].op = "upsert_topic_detail" =>
             (key[o] = call[o].version <=> settled'["topics"][call[o].topic] = call[o].version)
  PROVE  SqliteInv'
<1>1. /\ lock = th /\ lock' = "free" /\ pc'[th] = "idle" /\ call'[th] = NoCall /\ at'[th] = 0
      /\ \A o \in Threads \ {th} :
           /\ pc'[o] = pc[o] /\ call'[o] = call[o] /\ key'[o] = key[o] /\ at'[o] = at[o]
           /\ at[o] = 0 /\ pc[o] # "run"
      /\ other' = other
  <2>1. lock = th /\ lock' = "free" /\ other' = other
    BY DEF Sqlite!End, Sqlite!Released, SqliteInv, SqliteFlow
  <2>2. /\ pc'[th] = "idle" /\ call'[th] = NoCall /\ at'[th] = 0
        /\ \A o \in Threads \ {th} :
             pc'[o] = pc[o] /\ call'[o] = call[o] /\ key'[o] = key[o] /\ at'[o] = at[o]
    BY DEF Sqlite!End, Sqlite!NoCall, NoCall, SqliteInv, SqliteShape
  <2>3. \A o \in Threads \ {th} : at[o] = 0 /\ pc[o] # "run"
    BY <2>1 DEF SqliteInv, SqliteShape, SqliteFlow
  <2>4. QED
    BY <2>1, <2>2, <2>3
<1>2. SqliteShape'
  BY <1>1 DEF Sqlite!End, SqliteInv, SqliteShape
<1>3. \A o \in Threads : at'[o] = 0
  BY <1>1
<1>4. SqliteTxn'
  BY <1>1 DEF SqliteTxn
<1>5. SqliteWork'
  BY <1>3 DEF SqliteWork
<1>6. \A o \in Threads : SqliteFlow(o)'
  <2>1. SqliteFlow(th)'
    BY <1>1, SqliteCalls DEF SqliteFlow
  <2>2. ASSUME NEW o \in Threads \ {th} PROVE SqliteFlow(o)'
    <3>1. SqliteFlow(o) /\ o # "free"
      BY SqliteCalls DEF SqliteInv
    <3>2. QED
      BY <1>1, <3>1 DEF SqliteFlow, SeesRow
  <2>3. QED
    BY <2>1, <2>2
<1>7. QED
  BY <1>2, <1>4, <1>5, <1>6 DEF SqliteInv

LEMMA SqliteQueryKeeps ==
  ASSUME Sqlite!SqliteAssumption, SqliteInv, NEW th \in Threads, Sqlite!Query(th)
  PROVE  SqliteInv'
<1>1. /\ pc[th] = "run" /\ Sqlite!IsRead(call[th]) /\ Sqlite!End(th, "ok")
      /\ UNCHANGED <<disk, raised, settled>>
  BY DEF Sqlite!Query
<1>2. at[th] = 0 /\ lock = th
  BY <1>1 DEF SqliteInv, SqliteFlow, SqliteShape
<1>3. \A o \in Threads : at[o] = 0
  BY <1>1, <1>2, CleanView
<1>4. /\ txn' \in {"none", "begun", "read", "write"} /\ stale' = stale
      /\ txn' # "none" => txn # "none"
      /\ txn' = "read" => work' = disk'
      /\ stale' => txn' = "read"
      /\ txn' = "write" => ~other /\ work' = settled'
      /\ txn' # "write" => settled' = disk'
  BY <1>1, <1>3
  DEF Sqlite!Query, Sqlite!AfterRead, Sqlite!conn, SqliteInv, SqliteTxn, SqliteShape
<1>5. ~raised => txn = "none"
  BY <1>1, <1>2 DEF SqliteInv, SqliteTxn
<1>6. SqliteDisk'
  BY <1>1 DEF SqliteInv, SqliteDisk
<1>7. \A o \in Threads \ {th} :
        pc[o] = "lock" /\ call[o].op = "upsert_topic_detail" =>
          (key[o] = call[o].version <=> settled'["topics"][call[o].topic] = call[o].version)
  BY <1>1 DEF SqliteInv, SqliteFlow, SeesRow
<1>8. stale' \in BOOLEAN /\ raised' \in BOOLEAN
  BY <1>1, <1>4 DEF SqliteInv, SqliteShape
<1>9. QED
  BY <1>1, <1>4, <1>5, <1>6, <1>7, <1>8, SqliteEndKeeps

\* A call that raises settles what it has executed.
LEMMA RaisedKeeps ==
  ASSUME Sqlite!SqliteAssumption, SqliteInv, NEW th \in Threads, pc[th] = "run",
         txn' = IF txn = "none" THEN "begun" ELSE txn,
         UNCHANGED <<disk, stale, work>>, raised' = TRUE, Sqlite!End(th, "raised"),
         settled' = IF txn = "write" THEN work ELSE settled,
         Shaped(settled') /\ Marked(settled'),
         \A o \in Threads \ {th} :
           pc[o] = "lock" /\ call[o].op = "upsert_topic_detail" =>
             (key[o] = call[o].version <=> settled'["topics"][call[o].topic] = call[o].version)
  PROVE  SqliteInv'
<1>1. txn' \in {"none", "begun", "read", "write"} /\ stale' \in BOOLEAN
      /\ (txn' = "read" => work' = disk') /\ (stale' => txn' = "read")
      /\ (txn' = "write" => ~other /\ work' = settled')
      /\ (txn' # "write" => settled' = disk')
  BY DEF SqliteInv, SqliteTxn, SqliteShape
<1>2. SqliteDisk'
  BY DEF SqliteInv, SqliteDisk
<1>3. QED
  BY <1>1, <1>2, SqliteEndKeeps

\* What a call that is cut short leaves is what it promises to leave at most.
LEMMA UnstorableLeaves ==
  ASSUME Sqlite!SqliteAssumption, SqliteInv, NEW th \in Threads, Sqlite!Unstorable(th)
  PROVE  /\ settled' \in {settled} \cup Store!Left(call[th], settled)
         /\ Shaped(settled') /\ Marked(settled')
         /\ at[th] > 0 => settled' = work
         /\ at[th] = 0 => settled' = settled
<1>1. /\ pc[th] = "run" /\ at[th] < Len(Sqlite!Statements(call[th], key[th]))
      /\ settled' = IF txn = "write" THEN work ELSE settled
  BY DEF Sqlite!Unstorable, Sqlite!Writing, Sqlite!Body
<1>2. Shaped(settled) /\ Marked(settled)
  BY DEF SqliteInv, SqliteDisk
<1>3. CASE at[th] = 0
  <2>1. Sqlite!View = settled
    BY <1>1, <1>3, CleanView
  <2>2. settled' = settled
    BY <1>1, <2>1 DEF Sqlite!View
  <2>3. QED
    BY <1>2, <1>3, <2>2
<1>4. CASE at[th] > 0
  <2> DEFINE c == call[th]
             i == at[th]
  <2>1. /\ txn = "write" /\ ~Sqlite!IsRead(c) /\ WellFormed(c)
        /\ i \in 1..(Len(Sqlite!Statements(c, key[th])) - 1)
    BY <1>1, <1>4, UnderWay
  <2>2. /\ Shaped(work)
        /\ \A n \in Names : \A x \in KeysOf(n) : work[n][x] = After(c, i, settled, n, x)
    BY <1>4 DEF SqliteInv, SqliteWork
  <2>3. c.op = "upsert_topic_detail" =>
          (key[th] = c.version <=> settled["topics"][c.topic] = c.version)
    BY <1>1 DEF SqliteInv, SqliteFlow, SeesRow
  <2> HIDE DEF c, i
  <2>4. work \in Store!Left(c, settled) /\ Marked(work)
    BY <1>2, <2>1, <2>2, <2>3, LeftIsAfter
  <2>5. settled' = work
    BY <1>1, <2>1
  <2>6. QED
    BY <1>4, <2>2, <2>4, <2>5 DEF c
<1>5. QED
  BY <1>3, <1>4 DEF SqliteInv, SqliteShape

LEMMA SqliteUnstorableKeeps ==
  ASSUME Sqlite!SqliteAssumption, SqliteInv, NEW th \in Threads, Sqlite!Unstorable(th)
  PROVE  SqliteInv'
<1>1. /\ pc[th] = "run" /\ ~Sqlite!IsRead(call[th]) /\ call[th] \in SqliteCallsOf[th]
  BY DEF Sqlite!Unstorable, Sqlite!Writing, SqliteInv, SqliteFlow
<1>2. ASSUME NEW o \in Threads \ {th}, pc[o] = "lock", call[o].op = "upsert_topic_detail"
      PROVE  key[o] = call[o].version
               <=> settled'["topics"][call[o].topic] = call[o].version
  <2>1. /\ call[o] \in SqliteCallsOf[o] /\ WellFormed(call[o]) /\ SeesRow(o)
        /\ call[o].topic \in Topics /\ call[o].version \in Versions
    BY <1>2, SqliteCalls DEF SqliteInv, SqliteFlow, WellFormed
  <2>2. call[th].op # "upsert_topic_detail"
    BY <1>1, <1>2, <2>1, SqliteCalls
  <2>3. CASE at[th] > 0
    BY <2>1, <2>2, <2>3, UnstorableLeaves, WorkOnTopics DEF SeesRow
  <2>4. CASE at[th] = 0
    BY <2>1, <2>4, UnstorableLeaves DEF SeesRow
  <2>5. QED
    BY <2>3, <2>4 DEF SqliteInv, SqliteShape
<1>3. Shaped(settled') /\ Marked(settled')
  BY UnstorableLeaves
<1>4. /\ txn' = IF txn = "none" THEN "begun" ELSE txn
      /\ UNCHANGED <<disk, stale, work>> /\ raised' = TRUE /\ Sqlite!End(th, "raised")
      /\ settled' = IF txn = "write" THEN work ELSE settled
  BY DEF Sqlite!Unstorable
<1>5. QED
  BY <1>1, <1>2, <1>3, <1>4, RaisedKeeps

\* A write that is refused has executed nothing, and finds nothing left over.
LEMMA RefusedAtFirst ==
  ASSUME SqliteInv, NEW th \in Threads, Sqlite!Locked(th)
  PROVE  pc[th] = "run" /\ ~Sqlite!IsRead(call[th]) /\ at[th] = 0 /\ lock = th /\ txn # "write"
BY DEF Sqlite!Locked, Sqlite!Writing, Sqlite!Refused, SqliteInv, SqliteTxn, SqliteFlow,
   SqliteShape

LEMMA SqliteLockedKeeps ==
  ASSUME Sqlite!SqliteAssumption, SqliteInv, NEW th \in Threads, Sqlite!Locked(th)
  PROVE  SqliteInv'
<1>1. pc[th] = "run" /\ ~Sqlite!IsRead(call[th]) /\ at[th] = 0 /\ lock = th /\ txn # "write"
  BY RefusedAtFirst
<1>2. CASE tries[th] + 1 = 3
  <2>1. /\ txn' = IF txn = "none" THEN "begun" ELSE txn
        /\ UNCHANGED <<disk, stale, work, settled>> /\ raised' = TRUE
        /\ Sqlite!End(th, "raised")
    BY <1>2 DEF Sqlite!Locked, Sqlite!AfterLastTry
  <2>2. Shaped(settled') /\ Marked(settled')
    BY <2>1 DEF SqliteInv, SqliteDisk
  <2>3. \A o \in Threads \ {th} :
          pc[o] = "lock" /\ call[o].op = "upsert_topic_detail" =>
            (key[o] = call[o].version <=> settled'["topics"][call[o].topic] = call[o].version)
    BY <2>1 DEF SqliteInv, SqliteFlow, SeesRow
  <2>4. QED
    BY <1>1, <2>1, <2>2, <2>3, RaisedKeeps
<1>3. CASE tries[th] + 1 # 3
  <2>1. /\ UNCHANGED <<disk, stale, work, settled, other, lock, pc, call, key, raised>>
        /\ txn' = IF txn = "none" THEN "begun" ELSE txn
        /\ at' = [at EXCEPT ![th] = 0]
    BY <1>3 DEF Sqlite!Locked
  <2>2. at' = at
    BY <1>1, <2>1 DEF SqliteInv, SqliteShape
  <2>3. \A o \in Threads : at[o] = 0
    BY <1>1, CleanView
  <2>4. SqliteShape'
    BY <2>1, <2>2 DEF SqliteInv, SqliteShape
  <2>5. SqliteTxn'
    BY <1>1, <2>1, <2>3 DEF SqliteInv, SqliteTxn
  <2>6. SqliteWork' /\ SqliteDisk'
    BY <2>1, <2>2, <2>3 DEF SqliteInv, SqliteWork, SqliteDisk
  <2>7. \A o \in Threads : SqliteFlow(o)'
    BY <2>1, <2>2, <2>3, SqliteFlowKept DEF SqliteInv
  <2>8. QED
    BY <2>4, <2>5, <2>6, <2>7 DEF SqliteInv
<1>4. QED
  BY <1>2, <1>3

LEMMA SqliteStatementKeeps ==
  ASSUME Sqlite!SqliteAssumption, SqliteInv, NEW th \in Threads, Sqlite!Statement(th)
  PROVE  SqliteInv'
<1> DEFINE c == call[th]
           body == Sqlite!Statements(call[th], key[th])
           i == at[th] + 1
           statement == body[i]
           now == Sqlite!View
<1>1. /\ pc[th] = "run" /\ ~Sqlite!IsRead(c) /\ at[th] < Len(body) /\ lock = th
      /\ ~other /\ ~stale /\ txn' = "write" /\ at' = [at EXCEPT ![th] = @ + 1]
      /\ UNCHANGED <<disk, stale, other, lock, pc, call, key, raised, settled>>
  BY DEF Sqlite!Statement, Sqlite!Writing, Sqlite!Body, Sqlite!Refused, SqliteInv, SqliteFlow
<1>2. c \in SqliteCallsOf[th] /\ WellFormed(c) /\ at[th] \in Nat /\ Len(body) \in Nat
  <2>1. c \in SqliteCallsOf[th] /\ at[th] \in Nat
    BY <1>1 DEF SqliteInv, SqliteShape, SqliteFlow
  <2>2. WellFormed(c)
    BY <2>1, SqliteCalls
  <2>3. QED
    BY <1>1, <2>1, <2>2, SqliteLength
<1>3. work' = Exec(statement, now)
  BY SameTables DEF Sqlite!Statement, Sqlite!Body
<1>4. \A n \in Names : \A x \in KeysOf(n) : now[n][x] = After(c, at[th], settled, n, x)
  <2>1. CASE at[th] = 0
    <3>1. now = settled
      BY <1>1, <2>1, CleanView
    <3> HIDE DEF now
    <3>2. QED
      BY <2>1, <3>1, AfterNone
  <2>2. CASE at[th] > 0
    BY <1>1, <2>2 DEF SqliteInv, SqliteWork, SqliteFlow, Sqlite!View
  <2>3. QED
    BY <1>2, <2>1, <2>2
<1>5. ASSUME at[th] = 0 PROVE now = settled
  BY <1>1, <1>5, CleanView
<1>6. i \in 1..Len(body) /\ i - 1 = at[th] /\ i \in Nat \ {0} /\ at'[th] = i
  <2>1. at'[th] = i
    BY <1>1 DEF SqliteInv, SqliteShape
  <2> DEFINE last == Len(body)
  <2>2. at[th] < last /\ at[th] \in Nat /\ last \in Nat
    BY <1>1, <1>2
  <2> HIDE DEF last
  <2>3. i \in 1..last /\ i - 1 = at[th] /\ i \in Nat \ {0}
    BY <2>2
  <2>4. QED
    BY <2>1, <2>3 DEF last
<1> HIDE DEF i, now, statement
<1>7. \A n \in Names : \A x \in KeysOf(n) :
        Exec(statement, now)[n][x] = After(c, i, settled, n, x)
  <2> SUFFICES ASSUME NEW n \in Names, NEW x \in KeysOf(n)
               PROVE  Exec(statement, now)[n][x] = After(c, i, settled, n, x)
    OBVIOUS
  <2>1. i = 1 => now = settled
    BY <1>5, <1>6
  <2>2. now[n][x] = After(c, i - 1, settled, n, x)
    BY <1>4, <1>6
  <2>3. ~Sqlite!IsRead(c) /\ WellFormed(c) /\ i \in 1..Len(body) /\ body[i] = statement
    BY <1>1, <1>2, <1>6 DEF statement
  <2>4. QED
    BY <2>1, <2>2, <2>3, AfterNext
<1>8. Shaped(work')
  BY <1>3, ExecShaped
<1>9. SqliteShape'
  BY <1>1, <1>2 DEF SqliteInv, SqliteShape
<1>10. \A o \in Threads \ {th} : at[o] = 0 /\ at'[o] = 0
  BY <1>1 DEF SqliteInv, SqliteFlow, SqliteShape
<1>11. SqliteTxn'
  BY <1>1, <1>6 DEF SqliteInv, SqliteTxn
<1>12. SqliteWork'
  BY <1>1, <1>3, <1>6, <1>7, <1>8, <1>10 DEF SqliteWork
<1>13. SqliteDisk'
  BY <1>1 DEF SqliteInv, SqliteDisk
<1>14. \A o \in Threads : SqliteFlow(o)'
  <2>1. SqliteFlow(th)'
    BY <1>1, <1>6 DEF SqliteInv, SqliteFlow, SeesRow
  <2>2. ASSUME NEW o \in Threads \ {th} PROVE SqliteFlow(o)'
    BY <1>1, <1>10, SqliteFlowKept DEF SqliteInv, SqliteShape
  <2>3. QED
    BY <2>1, <2>2
<1>15. QED
  BY <1>9, <1>11, <1>12, <1>13, <1>14 DEF SqliteInv

\* What is committed is what the call asks for, on top of what was left.
LEMMA CommitsEffect ==
  ASSUME Sqlite!SqliteAssumption, SqliteInv, NEW th \in Threads, Sqlite!Commit(th)
  PROVE  /\ disk' = Store!Carried(call[th], settled) /\ settled' = disk'
         /\ Shaped(disk') /\ Marked(disk')
<1> DEFINE c == call[th]
           last == at[th]
<1>1. /\ pc[th] = "run" /\ ~Sqlite!IsRead(c) /\ disk' = work /\ settled' = work
      /\ at[th] = Len(Sqlite!Statements(c, key[th]))
  BY DEF Sqlite!Commit, Sqlite!Writing, Sqlite!Body
<1>2. c \in SqliteCallsOf[th] /\ WellFormed(c)
  BY <1>1, SqliteCalls DEF SqliteInv, SqliteFlow
<1>3. at[th] \in Nat \ {0}
  BY <1>1, <1>2, SqliteLength
<1>4. /\ Shaped(work)
      /\ \A n \in Names : \A x \in KeysOf(n) : work[n][x] = After(c, last, settled, n, x)
  BY <1>3 DEF SqliteInv, SqliteWork
<1>5. c.op = "upsert_topic_detail" =>
        (key[th] = c.version <=> settled["topics"][c.topic] = c.version)
  BY <1>1 DEF SqliteInv, SqliteFlow, SeesRow
<1> HIDE DEF c, last
<1>6. Shaped(settled) /\ Marked(settled)
  BY DEF SqliteInv, SqliteDisk
<1>7. /\ Shaped(Store!Carried(c, settled))
      /\ \A n \in Names : \A x \in KeysOf(n) :
           Store!Carried(c, settled)[n][x] = After(c, last, settled, n, x)
  BY <1>1, <1>2, <1>5, <1>6, CarriedIsAfter DEF last
<1>8. work = Store!Carried(c, settled)
  BY <1>4, <1>7, Extensional
<1>9. Marked(work)
  <2>1. CASE c.op = "upsert_topic_detail"
    BY <1>4, <1>6, <2>1 DEF After, Marked, Names, KeysOf
  <2>2. CASE c.op # "upsert_topic_detail"
    <3>1. work = Effect(c, settled)
      BY <1>8, <2>2, SameTables DEF Store!Carried
    <3>2. QED
      BY <1>1, <1>2, <1>6, <3>1, EffectKeeps
  <2>3. QED
    BY <2>1, <2>2
<1>10. QED
  BY <1>1, <1>4, <1>8, <1>9 DEF c

LEMMA SqliteCommitKeeps ==
  ASSUME Sqlite!SqliteAssumption, SqliteInv, NEW th \in Threads, Sqlite!Commit(th)
  PROVE  SqliteInv'
<1>1. /\ pc[th] = "run" /\ ~Sqlite!IsRead(call[th]) /\ Sqlite!End(th, "ok")
      /\ txn' = "none" /\ stale' = FALSE /\ raised' = FALSE
      /\ disk' = work
      /\ at[th] = Len(Sqlite!Statements(call[th], key[th]))
  BY DEF Sqlite!Commit, Sqlite!Writing, Sqlite!Body
<1>2. call[th] \in SqliteCallsOf[th] /\ WellFormed(call[th])
  BY <1>1, SqliteCalls DEF SqliteInv, SqliteFlow
<1>3. at[th] > 0
  BY <1>1, <1>2, SqliteLength
<1>4. SqliteDisk' /\ settled' = disk'
  BY CommitsEffect DEF SqliteDisk
<1>5. ASSUME NEW o \in Threads \ {th}, pc[o] = "lock", call[o].op = "upsert_topic_detail"
      PROVE  key[o] = call[o].version
               <=> settled'["topics"][call[o].topic] = call[o].version
  <2>1. /\ call[o] \in SqliteCallsOf[o] /\ WellFormed(call[o]) /\ SeesRow(o)
        /\ call[o].topic \in Topics /\ call[o].version \in Versions
    BY <1>5, SqliteCalls DEF SqliteInv, SqliteFlow, WellFormed
  <2>2. call[th].op # "upsert_topic_detail"
    BY <1>2, <1>5, <2>1, SqliteCalls
  <2>3. QED
    BY <1>1, <1>3, <1>4, <2>1, <2>2, WorkOnTopics DEF SeesRow
<1>6. QED
  BY <1>1, <1>4, <1>5, SqliteEndKeeps

LEMMA SqliteOtherKeeps ==
  ASSUME SqliteInv, Sqlite!OtherLocks \/ Sqlite!OtherCommits
  PROVE  SqliteInv'
<1>1. UNCHANGED <<disk, txn, work, lock, pc, call, key, at, raised, settled>>
  BY DEF Sqlite!OtherLocks, Sqlite!OtherCommits, Sqlite!conn
<1>2. /\ other' \in BOOLEAN /\ stale' \in BOOLEAN
      /\ txn = "write" => ~other' /\ ~stale'
      /\ stale' => txn = "read"
  <2>1. CASE Sqlite!OtherLocks
    BY <2>1 DEF Sqlite!OtherLocks, Sqlite!conn, SqliteInv, SqliteShape, SqliteTxn
  <2>2. CASE Sqlite!OtherCommits
    <3>1. /\ other' = FALSE /\ txn # "write" /\ stale \in BOOLEAN
          /\ stale => txn = "read"
      BY <2>2 DEF Sqlite!OtherCommits, SqliteInv, SqliteShape, SqliteTxn
    <3>2. stale' = stale \/ stale' = (stale \/ txn = "read")
      BY <2>2 DEF Sqlite!OtherCommits
    <3>3. CASE stale' = stale
      BY <3>1, <3>3
    <3>4. CASE stale' = (stale \/ txn = "read")
      BY <3>1, <3>4
    <3>5. QED
      BY <3>2, <3>3, <3>4
  <2>3. QED
    BY <2>1, <2>2
<1>3. SqliteShape'
  BY <1>1, <1>2 DEF SqliteInv, SqliteShape
<1>4. SqliteTxn'
  BY <1>1, <1>2 DEF SqliteInv, SqliteTxn
<1>5. SqliteWork' /\ SqliteDisk'
  BY <1>1 DEF SqliteInv, SqliteWork, SqliteDisk
<1>6. \A o \in Threads : SqliteFlow(o)'
  BY <1>1, SqliteFlowKept DEF SqliteInv
<1>7. QED
  BY <1>3, <1>4, <1>5, <1>6 DEF SqliteInv

LEMMA SqliteAtFirst ==
  ASSUME Sqlite!SqliteAssumption, SqliteDisk',
         settled' = disk', txn' = "none", stale' = FALSE, lock' = "free", raised' = FALSE, other' \in BOOLEAN,
         pc' = [th \in Threads |-> "idle"], call' = [th \in Threads |-> NoCall],
         key' = [th \in Threads |-> Absent], at' = [th \in Threads |-> 0]
  PROVE  SqliteInv'
<1>1. SqliteShape'
  BY DEF SqliteShape
<1>2. SqliteTxn' /\ SqliteWork'
  BY DEF SqliteTxn, SqliteWork
<1>3. \A th \in Threads : SqliteFlow(th)'
  BY SqliteCalls DEF SqliteFlow
<1>4. QED
  BY <1>1, <1>2, <1>3 DEF SqliteInv

LEMMA FirstTables ==
  Shaped(Initialized) /\ Marked(Initialized)
<1>1. Initialized = [n \in Names |-> [k \in KeysOf(n) |->
                       IF n \in {"sites", "accounts"} THEN 0 ELSE Absent]]
  BY SMTT(30) DEF Initialized, Empty, Names, KeysOf
<1>2. Shaped(Initialized)
  BY <1>1 DEF Shaped
<1>3. Marked(Initialized)
  BY <1>1 DEF Marked, Names, KeysOf
<1>4. QED
  BY <1>2, <1>3

LEMMA SqliteInvAtFirst ==
  ASSUME Sqlite!SqliteAssumption, Sqlite!Init
  PROVE  SqliteInv
<1>1. /\ disk = Initialized /\ settled = Initialized /\ txn = "none" /\ stale = FALSE /\ lock = "free"
      /\ raised = FALSE /\ other = FALSE
      /\ pc = [th \in Threads |-> "idle"] /\ call = [th \in Threads |-> NoCall]
      /\ key = [th \in Threads |-> Absent] /\ at = [th \in Threads |-> 0]
  BY SameTables DEF Sqlite!Init, Sqlite!NoCall, NoCall, Sqlite!Absent, Absent
<1>2. SqliteShape
  BY <1>1 DEF SqliteShape
<1>3. SqliteTxn /\ SqliteWork
  BY <1>1 DEF SqliteTxn, SqliteWork
<1>4. \A th \in Threads : SqliteFlow(th)
  BY <1>1, SqliteCalls DEF SqliteFlow
<1>5. SqliteDisk
  BY <1>1, FirstTables DEF SqliteDisk
<1>6. QED
  BY <1>2, <1>3, <1>4, <1>5 DEF SqliteInv

LEMMA SqliteInvStays ==
  ASSUME Sqlite!SqliteAssumption, SqliteInv, [Sqlite!Next]_Sqlite!vars
  PROVE  SqliteInv'
<1>1. ASSUME NEW th \in Threads, Sqlite!ThreadStep(th)
      PROVE  SqliteInv'
  BY <1>1, SqliteReadKeyKeeps, SqliteAcquireKeeps, SqliteQueryKeeps, SqliteStatementKeeps,
     SqliteLockedKeeps, SqliteUnstorableKeeps, SqliteCommitKeeps DEF Sqlite!ThreadStep
<1>2. CASE Sqlite!Restart
  <2>1. /\ txn' = "none" /\ stale' = FALSE /\ lock' = "free" /\ raised' = FALSE
        /\ other' = other /\ disk' = disk /\ settled' = disk
        /\ pc' = [th \in Threads |-> "idle"] /\ call' = [th \in Threads |-> NoCall]
        /\ key' = [th \in Threads |-> Absent] /\ at' = [th \in Threads |-> 0]
    BY <1>2 DEF Sqlite!Restart, Sqlite!NoCall, NoCall, Sqlite!Absent, Absent
  <2>2. SqliteDisk' /\ other' \in BOOLEAN
    BY <2>1 DEF SqliteInv, SqliteShape, SqliteDisk
  <2>3. QED
    BY <2>1, <2>2, SqliteAtFirst
<1>3. CASE UNCHANGED Sqlite!vars
  <2>1. UNCHANGED <<disk, txn, stale, work, other, lock, pc, call, key, at, raised, settled>>
    BY <1>3 DEF Sqlite!vars
  <2>2. SqliteShape' /\ SqliteTxn' /\ SqliteWork' /\ SqliteDisk'
    BY <2>1 DEF SqliteInv, SqliteShape, SqliteTxn, SqliteWork, SqliteDisk
  <2>3. \A o \in Threads : SqliteFlow(o)'
    BY <2>1, SqliteFlowKept DEF SqliteInv
  <2>4. QED
    BY <2>2, <2>3 DEF SqliteInv
<1>4. QED
  BY <1>1, <1>2, <1>3, SqliteBeginKeeps, SqliteOtherKeeps DEF Sqlite!Next

\* When no SQLite call holds the lock, no transaction is open, unless a call
\* has raised since the last commit: commit ends what a write began, and a
\* read begins nothing (sqlite_store.py _with_retry and the reads).
THEOREM ClosedWhenFree ==
  ASSUME Sqlite!SqliteAssumption
  PROVE  Sqlite!Spec => []ClosedBetweenCalls
<1>1. SqliteInv => ClosedBetweenCalls
  BY SqliteCalls DEF ClosedBetweenCalls, SqliteInv, SqliteTxn
<1>2. Sqlite!Init => SqliteInv
  BY SqliteInvAtFirst
<1>3. SqliteInv /\ [Sqlite!Next]_Sqlite!vars => SqliteInv'
  BY SqliteInvStays
<1>4. QED
  BY <1>1, <1>2, <1>3, PTL DEF Sqlite!Spec

-----------------------------------------------------------------------------
(* Types of SqliteStore *)

\* What a thread has written so far, if it has.
LEMMA WorkTyped ==
  ASSUME Sqlite!SqliteAssumption, SqliteInv, Typed(settled), NEW o \in Threads, at[o] > 0
  PROVE  Typed(work)
<1> DEFINE c == call[o]
           last == at[o]
<1>1. /\ ~Sqlite!IsRead(c) /\ WellFormed(c) /\ last \in 1..Len(Sqlite!Statements(c, key[o]))
  BY UnderWay
<1>2. Shaped(work) /\ \A t \in Topics : work["topics"][t] = After(c, last, settled, "topics", t)
  BY Keys DEF SqliteInv, SqliteWork
<1> HIDE DEF c, last
<1>3. ASSUME NEW t \in Topics
      PROVE  After(c, last, settled, "topics", t) \in Versions \cup {Absent, Blank}
  <2>1. CASE c.op = "upsert_topic_detail"
    BY <1>1, <2>1 DEF After, WellFormed, Typed
  <2>2. CASE c.op # "upsert_topic_detail"
    BY <1>1, <2>2, AfterOnTopics DEF SqliteInv, SqliteDisk, Typed
  <2>3. QED
    BY <2>1, <2>2
<1>4. DOMAIN work = Names
  BY <1>2 DEF Shaped
<1>5. QED
  BY <1>2, <1>3, <1>4 DEF Typed

LEMMA SqliteViewTyped ==
  ASSUME Sqlite!SqliteAssumption, SqliteInv, Typed(disk), Typed(settled)
  PROVE  Typed(Sqlite!View)
<1>1. CASE txn = "write" /\ \A o \in Threads : at[o] = 0
  BY <1>1 DEF Sqlite!View, SqliteInv, SqliteTxn
<1>2. CASE txn = "write" /\ \E o \in Threads : at[o] # 0
  BY <1>2, WorkTyped DEF Sqlite!View, SqliteInv, SqliteShape
<1>3. CASE txn # "write"
  BY <1>3 DEF Sqlite!View, SqliteInv, SqliteTxn, SqliteShape
<1>4. QED
  BY <1>1, <1>2, <1>3

\* The rest of a thread's state.
SqliteRest ==
  /\ lock \in Threads \cup {"free"}
  /\ \A th \in Threads : call[th] \in SqliteCallsOf[th] \cup {NoCall}
  /\ key \in [Threads -> Versions \cup {Absent, Blank}]
  /\ tries \in [Threads -> 0..2]
  /\ result \in [Threads -> {"none", "ok", "raised"}]
  /\ calls \in 0..MaxCalls

SqliteTypes ==
  Typed(disk) /\ Typed(settled) /\ DOMAIN work = Names /\ SqliteRest /\ KeyReaders

LEMMA SqliteTypesHold ==
  ASSUME SqliteInv, SqliteTypes
  PROVE  Sqlite!TypeOK
<1>1. Sqlite!Names = Names /\ Sqlite!NoCall = NoCall /\ Sqlite!Absent = Absent
      /\ Sqlite!Blank = Blank
  BY DEF Sqlite!Names, Names, Sqlite!NoCall, NoCall, Sqlite!Absent, Absent, Sqlite!Blank, Blank
<1>2. QED
  BY <1>1 DEF SqliteInv, SqliteShape, SqliteTypes, SqliteRest, Typed, Sqlite!TypeOK

\* A call that ends.
LEMMA SqliteEndTyped ==
  ASSUME SqliteInv, SqliteRest, KeyReaders, NEW th \in Threads,
         NEW how \in {"ok", "raised"}, Sqlite!End(th, how)
  PROVE  SqliteRest' /\ KeyReaders'
<1>1. /\ lock' = "free" /\ calls' = calls
      /\ pc' = [pc EXCEPT ![th] = "idle"] /\ call' = [call EXCEPT ![th] = NoCall]
      /\ key' = [key EXCEPT ![th] = Absent] /\ tries' = [tries EXCEPT ![th] = 0]
      /\ result' = [result EXCEPT ![th] = how]
  BY DEF Sqlite!End, Sqlite!Released, Sqlite!NoCall, NoCall, Sqlite!Absent, Absent
<1>2. call = [o \in Threads |-> call[o]] /\ pc \in [Threads -> {"idle", "key", "lock", "run"}]
  BY DEF SqliteInv, SqliteShape
<1>3. \A o \in Threads : call'[o] \in SqliteCallsOf[o] \cup {NoCall}
  BY <1>1, <1>2 DEF SqliteRest
<1>4. KeyReaders'
  BY <1>1, <1>2 DEF KeyReaders
<1>5. QED
  BY <1>1, <1>3, <1>4 DEF SqliteRest

LEMMA SqliteTypesStay ==
  ASSUME Sqlite!SqliteAssumption, SqliteInv, SqliteTypes, [Sqlite!Next]_Sqlite!vars
  PROVE  SqliteTypes'
<1>1. /\ Typed(disk) /\ Typed(settled) /\ DOMAIN work = Names /\ SqliteRest /\ KeyReaders /\ MaxCalls \in Nat
      /\ call = [o \in Threads |-> call[o]]
      /\ pc \in [Threads -> {"idle", "key", "lock", "run"}]
  BY DEF SqliteTypes, SqliteInv, SqliteShape, Sqlite!SqliteAssumption
<1>2. Typed(Sqlite!View) /\ Typed(Initialized) /\ Sqlite!Initialized = Initialized
  BY <1>1, SqliteViewTyped, InitializedTyped, SameTables
<1>3. DOMAIN disk = Names /\ DOMAIN Initialized = Names
  BY <1>1, <1>2 DEF Typed
<1>4. ASSUME NEW th \in Threads, NEW c \in SqliteCallsOf[th], Sqlite!Begin(th, c)
      PROVE  SqliteTypes'
  <2>1. /\ UNCHANGED <<disk, settled, work, lock, key, tries, result>> /\ calls' = calls + 1
        /\ calls < MaxCalls /\ call' = [call EXCEPT ![th] = c]
        /\ pc' = [pc EXCEPT ![th] = IF c.op = "upsert_topic_detail" THEN "key" ELSE "lock"]
    BY <1>4 DEF Sqlite!Begin, Sqlite!conn
  <2>2. KeyReaders'
    BY <1>1, <2>1 DEF KeyReaders
  <2>3. \A o \in Threads : call'[o] \in SqliteCallsOf[o] \cup {NoCall}
    BY <1>1, <2>1 DEF SqliteRest
  <2>4. QED
    BY <1>1, <2>1, <2>2, <2>3 DEF SqliteTypes, SqliteRest
<1>5. ASSUME NEW th \in Threads, Sqlite!ReadKey(th) PROVE SqliteTypes'
  <2>1. /\ pc[th] = "key" /\ UNCHANGED <<disk, settled, lock, call, tries, result, calls>>
        /\ key' = [key EXCEPT ![th] = Sqlite!View["topics"][call[th].topic]]
        /\ pc' = [pc EXCEPT ![th] = "lock"] /\ (work' = disk \/ work' = work)
    BY <1>5 DEF Sqlite!ReadKey, Sqlite!AfterRead, Sqlite!conn
  <2>2. call[th].topic \in Topics
    BY <1>1, <2>1, SqliteCalls DEF KeyReaders, SqliteInv, SqliteFlow, WellFormed
  <2>3. key' \in [Threads -> Versions \cup {Absent, Blank}]
    BY <1>1, <1>2, <2>1, <2>2 DEF Typed, SqliteRest
  <2>4. KeyReaders'
    BY <1>1, <2>1 DEF KeyReaders
  <2>5. QED
    BY <1>1, <1>3, <2>1, <2>3, <2>4 DEF SqliteTypes, SqliteRest
<1>6. ASSUME NEW th \in Threads, Sqlite!Acquire(th) PROVE SqliteTypes'
  <2>1. /\ UNCHANGED <<disk, settled, work, call, key, tries, result, calls>> /\ lock' = th
        /\ pc' = [pc EXCEPT ![th] = "run"]
    BY <1>6 DEF Sqlite!Acquire, Sqlite!conn
  <2>2. QED
    BY <1>1, <2>1 DEF SqliteTypes, SqliteRest, KeyReaders
<1>7. ASSUME NEW th \in Threads, Sqlite!Query(th) PROVE SqliteTypes'
  <2>1. UNCHANGED <<disk, settled>> /\ (work' = disk \/ work' = work) /\ Sqlite!End(th, "ok")
    BY <1>7 DEF Sqlite!Query, Sqlite!AfterRead, Sqlite!conn
  <2>2. SqliteRest' /\ KeyReaders'
    BY <1>1, <2>1, SqliteEndTyped
  <2>3. QED
    BY <1>1, <1>3, <2>1, <2>2 DEF SqliteTypes
<1>8. ASSUME NEW th \in Threads, Sqlite!Statement(th) PROVE SqliteTypes'
  <2>1. /\ UNCHANGED <<disk, settled, lock, pc, call, key, tries, result, calls>>
        /\ \E st, db : work' = Exec(st, db)
    BY <1>8, SameTables DEF Sqlite!Statement
  <2>2. DOMAIN work' = Names
    BY <2>1 DEF Exec
  <2>3. QED
    BY <1>1, <2>1, <2>2 DEF SqliteTypes, SqliteRest, KeyReaders
<1>9. ASSUME NEW th \in Threads, Sqlite!Locked(th) PROVE SqliteTypes'
  <2>1. UNCHANGED <<disk, settled, work>>
    BY <1>9 DEF Sqlite!Locked
  <2>2. CASE tries[th] + 1 = 3
    <3>1. Sqlite!End(th, "raised")
      BY <1>9, <2>2 DEF Sqlite!Locked, Sqlite!AfterLastTry
    <3>2. SqliteRest' /\ KeyReaders'
      BY <1>1, <3>1, SqliteEndTyped
    <3>3. QED
      BY <1>1, <2>1, <3>2 DEF SqliteTypes
  <2>3. CASE tries[th] + 1 # 3
    <3>1. /\ tries' = [tries EXCEPT ![th] = @ + 1]
          /\ UNCHANGED <<lock, pc, call, key, result, calls>>
      BY <1>9, <2>3 DEF Sqlite!Locked
    <3>2. tries' \in [Threads -> 0..2]
      BY <1>1, <2>3, <3>1 DEF SqliteRest
    <3>3. QED
      BY <1>1, <2>1, <3>1, <3>2 DEF SqliteTypes, SqliteRest, KeyReaders
  <2>4. QED
    BY <2>2, <2>3
<1>10. ASSUME NEW th \in Threads, Sqlite!Unstorable(th) PROVE SqliteTypes'
  <2>1. UNCHANGED <<disk, work>> /\ Sqlite!End(th, "raised")
    BY <1>10 DEF Sqlite!Unstorable
  <2>2. Typed(settled')
    <3>1. CASE at[th] > 0
      BY <1>1, <1>10, <3>1, UnstorableLeaves, WorkTyped
    <3>2. CASE at[th] = 0
      BY <1>1, <1>10, <3>2, UnstorableLeaves
    <3>3. QED
      BY <3>1, <3>2 DEF SqliteInv, SqliteShape
  <2>3. SqliteRest' /\ KeyReaders'
    BY <1>1, <2>1, SqliteEndTyped
  <2>4. QED
    BY <1>1, <2>1, <2>2, <2>3 DEF SqliteTypes
<1>11. ASSUME NEW th \in Threads, Sqlite!Commit(th) PROVE SqliteTypes'
  <2>1. /\ disk' = work /\ settled' = work /\ work' = Initialized /\ Sqlite!End(th, "ok")
        /\ pc[th] = "run" /\ ~Sqlite!IsRead(call[th])
        /\ at[th] = Len(Sqlite!Statements(call[th], key[th]))
    BY <1>2, <1>11 DEF Sqlite!Commit, Sqlite!Writing, Sqlite!Body
  <2>2. WellFormed(call[th])
    BY <2>1, SqliteCalls DEF SqliteInv, SqliteFlow
  <2>3. at[th] > 0
    BY <2>1, <2>2, SqliteLength
  <2>4. Typed(disk') /\ Typed(settled') /\ DOMAIN work' = Names
    BY <1>1, <1>3, <2>1, <2>3, WorkTyped
  <2>5. SqliteRest' /\ KeyReaders'
    BY <1>1, <2>1, SqliteEndTyped
  <2>6. QED
    BY <2>4, <2>5 DEF SqliteTypes
<1>12. CASE Sqlite!OtherLocks \/ Sqlite!OtherCommits \/ UNCHANGED Sqlite!vars
  <2>1. UNCHANGED <<disk, settled, work, lock, pc, call, key, tries, result, calls>>
    BY <1>12 DEF Sqlite!OtherLocks, Sqlite!OtherCommits, Sqlite!vars, Sqlite!conn
  <2>2. QED
    BY <1>1, <2>1 DEF SqliteTypes, SqliteRest, KeyReaders
<1>13. CASE Sqlite!Restart
  <2>1. /\ UNCHANGED <<disk, calls>> /\ settled' = disk /\ work' = Initialized /\ lock' = "free"
        /\ pc' = [th \in Threads |-> "idle"] /\ call' = [th \in Threads |-> NoCall]
        /\ key' = [th \in Threads |-> Absent] /\ tries' = [th \in Threads |-> 0]
        /\ result' = [th \in Threads |-> "none"]
    BY <1>2, <1>13 DEF Sqlite!Restart, Sqlite!NoCall, NoCall, Sqlite!Absent, Absent
  <2>2. QED
    BY <1>1, <1>3, <2>1 DEF SqliteTypes, SqliteRest, KeyReaders
<1>14. QED
  BY <1>4, <1>5, <1>6, <1>7, <1>8, <1>9, <1>10, <1>11, <1>12, <1>13
  DEF Sqlite!Next, Sqlite!ThreadStep

\* Both parts of the invariant hold in every behaviour of SqliteStore.
LEMMA SqliteTyped ==
  ASSUME Sqlite!SqliteAssumption
  PROVE  Sqlite!Spec => [](SqliteInv /\ SqliteTypes)
<1>1. Sqlite!Init => SqliteTypes
  <2> SUFFICES ASSUME Sqlite!Init PROVE SqliteTypes
    OBVIOUS
  <2>1. /\ disk = Initialized /\ settled = Initialized /\ work = Initialized /\ lock = "free" /\ calls = 0
        /\ pc = [th \in Threads |-> "idle"] /\ call = [th \in Threads |-> NoCall]
        /\ key = [th \in Threads |-> Absent] /\ tries = [th \in Threads |-> 0]
        /\ result = [th \in Threads |-> "none"] /\ MaxCalls \in Nat
    BY SameTables
    DEF Sqlite!Init, Sqlite!NoCall, NoCall, Sqlite!Absent, Absent, Sqlite!SqliteAssumption
  <2>2. Typed(disk) /\ Typed(settled) /\ DOMAIN work = Names
    BY <2>1, InitializedTyped DEF Typed
  <2>3. QED
    BY <2>1, <2>2 DEF SqliteTypes, SqliteRest, KeyReaders
<1>2. SqliteInv /\ SqliteTypes /\ [Sqlite!Next]_Sqlite!vars => SqliteTypes'
  BY SqliteTypesStay
<1>3. Sqlite!Init => SqliteInv
  BY SqliteInvAtFirst
<1>4. SqliteInv /\ [Sqlite!Next]_Sqlite!vars => SqliteInv'
  BY SqliteInvStays
<1>5. QED
  BY <1>1, <1>2, <1>3, <1>4, PTL DEF Sqlite!Spec

\* The variables of the SQLite store keep their types; in particular no call is
\* tried a fourth time.
THEOREM SqliteTypesCorrect ==
  ASSUME Sqlite!SqliteAssumption
  PROVE  Sqlite!Spec => []Sqlite!TypeOK
<1>1. SqliteInv /\ SqliteTypes => Sqlite!TypeOK
  BY SqliteTypesHold
<1>2. QED
  BY <1>1, SqliteTyped, PTL

-----------------------------------------------------------------------------
(* What CallsEnd rests on: the lock is in use, and its holder gets on *)

\* The lock belongs to a thread that is executing its call: nobody waits for a
\* lock that was left behind.
HolderRuns ==
  /\ \A th \in Threads : pc[th] = "run" <=> lock = th
  /\ lock # "free" => lock \in Threads

\* A step of a call that has the lock executes its next statement, or is a
\* refusal, and a refused call has executed nothing: it is never refused in the
\* middle, so that beginning again repeats no statement.
Advance(th) ==
  \/ at'[th] = at[th] + 1 /\ tries'[th] = tries[th]
  \/ at[th] = 0 /\ at'[th] = 0 /\ tries'[th] = tries[th] + 1

CallsAdvance ==
  [][\A th \in Threads :
       pc[th] = "run" /\ pc'[th] = "run" =>
         Advance(th) \/ (at'[th] = at[th] /\ tries'[th] = tries[th])]_(Sqlite!vars)

\* A step of a thread leaves the others where they are, and advances its own
\* call if that goes on.
LEMMA ThreadAdvances ==
  ASSUME Sqlite!SqliteAssumption, SqliteInv, SqliteTypes,
         NEW th \in Threads, Sqlite!ThreadStep(th),
         NEW o \in Threads, pc[o] = "run", pc'[o] = "run"
  PROVE  IF o = th THEN Advance(o) ELSE at'[o] = at[o] /\ tries'[o] = tries[o]
<1>1. /\ pc \in [Threads -> {"idle", "key", "lock", "run"}] /\ at \in [Threads -> Nat]
      /\ tries \in [Threads -> 0..2]
  BY DEF SqliteInv, SqliteShape, SqliteTypes, SqliteRest
<1>2. CASE Sqlite!ReadKey(th) \/ Sqlite!Acquire(th)
  BY <1>1, <1>2 DEF Sqlite!ReadKey, Sqlite!Acquire
<1>3. CASE Sqlite!Statement(th)
  BY <1>1, <1>3 DEF Sqlite!Statement, Advance
<1>4. ASSUME NEW how, Sqlite!End(th, how)
      PROVE  o # th /\ at'[o] = at[o] /\ tries'[o] = tries[o]
  BY <1>1, <1>4 DEF Sqlite!End
<1>5. CASE Sqlite!Locked(th) /\ tries[th] + 1 # 3
  <2>1. at[th] = 0
    BY <1>5, RefusedAtFirst
  <2>2. tries' = [tries EXCEPT ![th] = @ + 1] /\ at' = [at EXCEPT ![th] = 0]
    BY <1>5 DEF Sqlite!Locked
  <2>3. QED
    BY <1>1, <2>1, <2>2 DEF Advance
<1>6. CASE Sqlite!Locked(th) /\ tries[th] + 1 = 3
  BY <1>4, <1>6 DEF Sqlite!Locked
<1>7. CASE Sqlite!Query(th) \/ Sqlite!Unstorable(th) \/ Sqlite!Commit(th)
  BY <1>4, <1>7 DEF Sqlite!Query, Sqlite!Unstorable, Sqlite!Commit
<1>8. QED
  BY <1>2, <1>3, <1>5, <1>6, <1>7 DEF Sqlite!ThreadStep

\* The RLock of sqlite_store.py is given back on every way out of a call
\* (_with_retry, 367-378).
THEOREM SqliteLockInUse ==
  ASSUME Sqlite!SqliteAssumption
  PROVE  Sqlite!Spec => []HolderRuns
<1>1. SqliteInv /\ SqliteTypes => HolderRuns
  BY SqliteCalls DEF HolderRuns, SqliteInv, SqliteFlow, SqliteTypes, SqliteRest
<1>2. QED
  BY <1>1, SqliteTyped, PTL

\* SQLITE_BUSY hits the first statement of a write only, so that _with_retry may
\* begin again without a rollback, and a call that has the lock ends after as
\* many steps as it has statements and tries.
THEOREM SqliteRetriesRepeatNothing ==
  ASSUME Sqlite!SqliteAssumption
  PROVE  Sqlite!Spec => CallsAdvance
<1> DEFINE Goes == \A th \in Threads :
                     pc[th] = "run" /\ pc'[th] = "run" =>
                       Advance(th) \/ (at'[th] = at[th] /\ tries'[th] = tries[th])
<1>1. SqliteInv /\ SqliteTypes /\ [Sqlite!Next]_Sqlite!vars => [Goes]_Sqlite!vars
  <2> SUFFICES ASSUME SqliteInv, SqliteTypes, Sqlite!Next, NEW o \in Threads,
                      pc[o] = "run", pc'[o] = "run"
               PROVE  Advance(o) \/ (at'[o] = at[o] /\ tries'[o] = tries[o])
    OBVIOUS
  <2>1. ASSUME NEW th \in Threads, Sqlite!ThreadStep(th)
        PROVE  Advance(o) \/ (at'[o] = at[o] /\ tries'[o] = tries[o])
    BY <2>1, ThreadAdvances
  <2>2. CASE \/ Sqlite!OtherLocks \/ Sqlite!OtherCommits
             \/ \E th \in Threads : \E c \in SqliteCallsOf[th] : Sqlite!Begin(th, c)
    BY <2>2 DEF Sqlite!OtherLocks, Sqlite!OtherCommits, Sqlite!Begin
  <2>3. ~Sqlite!Restart
    BY DEF Sqlite!Restart
  <2>4. QED
    BY <2>1, <2>2, <2>3 DEF Sqlite!Next
<1>2. QED
  BY <1>1, SqliteTyped, PTL DEF Sqlite!Spec, CallsAdvance

-----------------------------------------------------------------------------
(* SqliteStore implements LeftoverStore *)

LEMMA AtomicAtFirst ==
  ASSUME Sqlite!Init
  PROVE  Store!Init
BY SameTables DEF Sqlite!Init, Store!Init, Sqlite!NoCall, Store!NoCall

\* Steps that only their own state shows.
LEMMA Silent ==
  ASSUME SqliteInv, NEW th \in Threads,
         \/ Sqlite!ReadKey(th) \/ Sqlite!Acquire(th) \/ Sqlite!Statement(th)
         \/ (Sqlite!Locked(th) /\ tries[th] + 1 # 3)
         \/ Sqlite!OtherLocks \/ Sqlite!OtherCommits \/ UNCHANGED Sqlite!vars
  PROVE  UNCHANGED Store!vars
BY DEF Sqlite!ReadKey, Sqlite!Acquire, Sqlite!Statement, Sqlite!Locked, Sqlite!OtherLocks,
   Sqlite!OtherCommits, Sqlite!vars, Store!vars

\* Every read of the backend returns what is asked for.
LEMMA AnswerIsReply ==
  ASSUME NEW c, NEW db
  PROVE  Sqlite!Answer(c, db) = Reply(c, db)
<1>1. \A old : Sqlite!Value(old) = {Number(old)}
  BY DEF Sqlite!Value, Sqlite!Number, Number, Sqlite!Absent, Absent
<1>2. Sqlite!PluginOnceExists(c, db) =
        IF db["plugin_once_marks"][1] = Absent THEN {} ELSE {1}
  BY DEF Sqlite!PluginOnceExists, Sqlite!Absent, Absent
<1>3. Sqlite!GetPluginKv(c, db) = {db["plugin_kv"][1]} \ {Absent}
  BY DEF Sqlite!GetPluginKv, Sqlite!Absent, Absent
<1>4. QED
  BY <1>1, <1>2, <1>3
  DEF Reply, Sqlite!Answer, Sqlite!GetExistingPostIds, Sqlite!GetLastSyncedPostNumber,
      Sqlite!GetLastReadPostNumber, Sqlite!GetSentNotificationIds, Sqlite!GetStatsTotal,
      Sqlite!GetStatsToday, Sqlite!GetPluginDailyCount, Sqlite!Absent, Absent,
      Sqlite!Range, Range

\* A read answers from what is settled.
LEMMA QueryPerforms ==
  ASSUME Sqlite!SqliteAssumption, SqliteInv, NEW th \in Threads, Sqlite!Query(th)
  PROVE  Store!Read(th)
<1>1. /\ pc[th] = "run" /\ Sqlite!IsRead(call[th]) /\ UNCHANGED <<disk, settled>>
      /\ answer' = [answer EXCEPT ![th] = Sqlite!Answer(call[th], Sqlite!View)]
      /\ call' = [call EXCEPT ![th] = NoCall] /\ result' = [result EXCEPT ![th] = "ok"]
  BY DEF Sqlite!Query, Sqlite!End, Sqlite!NoCall, NoCall
<1>2. at[th] = 0 /\ call[th] \in SqliteCallsOf[th] /\ call[th] # NoCall
  BY <1>1, SqliteCalls DEF SqliteInv, SqliteFlow, SqliteShape
<1>3. Sqlite!View = settled
  BY <1>1, <1>2, CleanView
<1>4. Store!IsRead(call[th])
  BY <1>1 DEF Store!IsRead, Store!Reads, Sqlite!IsRead, Sqlite!Reads
<1>5. QED
  BY <1>1, <1>2, <1>3, <1>4, SameTables, AnswerIsReply
  DEF Store!Read, Store!Return, Store!NoCall, NoCall

\* A commit carries out the call, and answers nothing.
LEMMA CommitPerforms ==
  ASSUME Sqlite!SqliteAssumption, SqliteInv, NEW th \in Threads, Sqlite!Commit(th)
  PROVE  Store!Write(th)
<1>1. /\ pc[th] = "run" /\ ~Sqlite!IsRead(call[th])
      /\ answer' = [answer EXCEPT ![th] = {}]
      /\ call' = [call EXCEPT ![th] = NoCall] /\ result' = [result EXCEPT ![th] = "ok"]
  BY DEF Sqlite!Commit, Sqlite!Writing, Sqlite!End, Sqlite!NoCall, NoCall
<1>2. call[th] \in SqliteCallsOf[th] /\ call[th] # NoCall
  BY <1>1, SqliteCalls DEF SqliteInv, SqliteFlow
<1>3. disk' = Store!Carried(call[th], settled) /\ settled' = disk'
  BY CommitsEffect
<1>4. ~Store!IsRead(call[th])
  BY <1>1 DEF Store!IsRead, Store!Reads, Sqlite!IsRead, Sqlite!Reads
<1>5. QED
  BY <1>1, <1>2, <1>3, <1>4 DEF Store!Write, Store!Return, Store!NoCall, NoCall

\* A call that raises has committed nothing, and leaves a part of itself at most.
LEMMA RaiseRefuses ==
  ASSUME Sqlite!SqliteAssumption, SqliteInv, NEW th \in Threads,
         Sqlite!Unstorable(th) \/ (Sqlite!Locked(th) /\ tries[th] + 1 = 3)
  PROVE  Store!Raised(th)
<1>1. /\ pc[th] = "run" /\ Sqlite!End(th, "raised") /\ UNCHANGED <<disk, answer>>
  BY DEF Sqlite!Unstorable, Sqlite!Locked, Sqlite!Writing, Sqlite!AfterLastTry
<1>2. call[th] \in SqliteCallsOf[th] /\ call[th] # NoCall
  BY <1>1, SqliteCalls DEF SqliteInv, SqliteFlow
<1>3. settled' \in {settled} \cup Store!Left(call[th], settled)
  BY UnstorableLeaves DEF Sqlite!Locked
<1>4. QED
  BY <1>1, <1>2, <1>3
  DEF Sqlite!End, Sqlite!NoCall, NoCall, Store!Raised, Store!Return, Store!NoCall

\* Every step is one of LeftoverStore, or none.
LEMMA AtomicStep ==
  ASSUME Sqlite!SqliteAssumption, SqliteInv, [Sqlite!Next]_Sqlite!vars
  PROVE  [Store!Next]_Store!vars
<1>1. ASSUME NEW th \in Threads, Sqlite!ThreadStep(th)
      PROVE  \/ Store!Read(th) \/ Store!Write(th) \/ Store!Raised(th)
             \/ UNCHANGED Store!vars
  BY <1>1, Silent, QueryPerforms, CommitPerforms, RaiseRefuses DEF Sqlite!ThreadStep
<1>2. ASSUME NEW th \in Threads, NEW c \in SqliteCallsOf[th], Sqlite!Begin(th, c)
      PROVE  Store!Begin(th)
  <2>1. /\ call[th] = NoCall /\ WellFormed(c) /\ UNCHANGED <<disk, settled, result, answer>>
        /\ call = [o \in Threads |-> call[o]] /\ call' = [call EXCEPT ![th] = c]
    BY <1>2, SqliteCalls DEF SqliteInv, SqliteShape, SqliteFlow, Sqlite!Begin
  <2>2. call'[th] = c
    BY <2>1
  <2>3. QED
    BY <2>1, <2>2, SameTables DEF Store!Begin, Store!NoCall, NoCall
<1>3. CASE Sqlite!Restart
  BY <1>3 DEF Sqlite!Restart, Sqlite!NoCall, Store!Next, Store!Restart,
    Store!NoCall
<1>4. CASE Sqlite!OtherLocks \/ Sqlite!OtherCommits \/ UNCHANGED Sqlite!vars
  BY <1>4 DEF Sqlite!OtherLocks, Sqlite!OtherCommits, Sqlite!vars, Store!vars
<1>5. QED
  BY <1>1, <1>2, <1>3, <1>4 DEF Sqlite!Next, Store!Next

\* SqliteStore implements LeftoverStore: a write that returns has been carried
\* out once and whole, whatever was refused and tried again before; one that
\* raises has committed nothing, and leaves at most its first rows or statements
\* for the next commit; and a read answers from what was committed or left
\* (_with_retry, _commit and the statements of every write of sqlite_store.py).
THEOREM SqliteIsAtomic ==
  ASSUME Sqlite!SqliteAssumption
  PROVE  Sqlite!Spec => Implements
<1>1. Sqlite!Init => SqliteInv
  BY SqliteInvAtFirst
<1>2. SqliteInv /\ [Sqlite!Next]_Sqlite!vars => SqliteInv'
  BY SqliteInvStays
<1>3. Sqlite!Init => Store!Init
  BY AtomicAtFirst
<1>4. SqliteInv /\ [Sqlite!Next]_Sqlite!vars => [Store!Next]_Store!vars
  BY AtomicStep
<1>5. QED
  BY <1>1, <1>2, <1>3, <1>4, PTL DEF Sqlite!Spec, Implements, Store!Spec

-----------------------------------------------------------------------------
(* PostgresStore while calls do not overlap *)

\* The tables are the same in this instance, too.
LEMMA SamePromise ==
  /\ \A c, db : Alone!Outcome(c, db) =
       IF c.op = "begin_watch_cycle" /\ db["watch_cycles"][c.id] # Absent
       THEN db ELSE Effect(c, db)
  /\ \A c, db : Alone!Reply(c, db) = Reply(c, db)
  /\ \A c : Alone!WellFormed(c) <=> WellFormed(c)
  /\ Alone!Initialized = Initialized
<1>1. \A db, t, k, b : Alone!Raise(db, t, k, b) = Raise(db, t, k, b)
  BY DEF Alone!Raise, Raise, Alone!Absent, Absent
<1>2. \A c, db : Alone!Effect(c, db) = Effect(c, db)
  BY <1>1 DEF Effect, Absent, Blank, Open, Alone!Effect, Alone!Absent, Alone!Blank,
       Alone!Open, Alone!Range, Range
<1>3. \A c, db : Alone!Outcome(c, db) =
        IF c.op = "begin_watch_cycle" /\ db["watch_cycles"][c.id] # Absent
        THEN db ELSE Effect(c, db)
  BY <1>2 DEF Alone!Outcome, Alone!Absent, Absent
<1>4. \A c, db : Alone!Reply(c, db) = Reply(c, db)
  BY DEF Alone!Reply, Reply, Alone!Number, Number, Alone!Absent, Absent, Alone!Range, Range
<1>5. \A c : Alone!WellFormed(c) <=> WellFormed(c)
  BY DEF Alone!WellFormed, WellFormed, Alone!Operations, Operations, Alone!Days, Days
<1>6. Alone!Initialized = Initialized
  BY DEF Initialized, Empty, Names, KeysOf, Absent, Days, Alone!Initialized, Alone!Empty,
     Alone!Names, Alone!KeysOf, Alone!Absent, Alone!Days
<1>7. QED
  BY <1>3, <1>4, <1>5, <1>6

LEMMA SameReads == \A c : Sqlite!IsRead(c) <=> IsRead(c)
BY DEF Sqlite!IsRead, Sqlite!Reads, IsRead, Reads

\* All reads of this backend return what is asked for, too.
LEMMA PostgresAnswer ==
  ASSUME NEW c, NEW db, IsRead(c)
  PROVE  Answer(c, db) = Reply(c, db)
<1>1. PluginOnceExists(c, db) = IF db["plugin_once_marks"][1] = Absent THEN {} ELSE {1}
  BY DEF PluginOnceExists, Rows
<1>2. GetPluginKv(c, db) = {db["plugin_kv"][1]} \ {Absent}
  BY DEF GetPluginKv, Rows
<1>3. QED
  BY <1>1, <1>2 DEF IsRead, Reads, Reply, Answer, Counter, Rows, GetExistingPostIds,
       GetLastSyncedPostNumber, GetLastReadPostNumber, GetSentNotificationIds,
       GetStatsTotal, GetStatsToday, GetPluginDailyCount

\* The backends' statements come to the same, but for begin_watch_cycle.
LEMMA SameStatements ==
  ASSUME NEW c, NEW k, WellFormed(c), ~IsRead(c), c.op # "begin_watch_cycle"
  PROVE  Statements(c, k) = Sqlite!Statements(c, k)
<1>1. CASE c.op = "upsert_topic_detail"
  <2>1. c.version # Absent
    BY <1>1, VersionIsNew DEF WellFormed
  <2>2. QED
    BY <1>1, <2>1, SameTables
    DEF Statements, UpsertTopicDetail, Sqlite!Statements, Sqlite!UpsertTopicDetail
<1>2. CASE c.op = "update_last_read_post_number"
  <2>1. Sqlite!Blank = Blank
    BY DEF Sqlite!Blank, Blank
  <2>2. QED
    BY <1>2, <2>1, SameTables
    DEF Statements, UpdateLastReadPostNumber, Sqlite!Statements,
        Sqlite!UpdateLastReadPostNumber
<1>3. CASE c.op = "insert_posts"
  BY <1>3, SameTables DEF Statements, InsertPosts, Sqlite!Statements, Sqlite!InsertPosts
<1>4. CASE c.op = "mark_notifications_sent"
  BY <1>4, SameTables DEF Statements, MarkNotificationsSent, Sqlite!Statements,
     Sqlite!MarkNotificationsSent
<1>5. CASE c.op \notin {"upsert_topic_detail", "update_last_read_post_number",
                        "insert_posts", "mark_notifications_sent"}
  BY <1>5, SameTables
  DEF WellFormed, Operations, IsRead, Reads, Statements, UpsertTopicCrawlState,
      FinishWatchCycle, IncStat, IncPluginDailyCount, MarkPluginOnce, SetPluginKv,
      LogPluginAction, Sqlite!Statements, Sqlite!UpsertTopicCrawlState,
      Sqlite!FinishWatchCycle, Sqlite!IncStat, Sqlite!IncPluginDailyCount,
      Sqlite!MarkPluginOnce, Sqlite!SetPluginKv, Sqlite!LogPluginAction
<1>6. QED
  BY <1>1, <1>2, <1>3, <1>4, <1>5

\* That one makes a cycle or leaves it.
LEMMA BeginCycle ==
  ASSUME NEW c, NEW k, c.op = "begin_watch_cycle"
  PROVE  /\ Statements(c, k) = <<Row("watch_cycles", c.id, "make", Open)>>
         /\ Sqlite!Statements(c, k) = <<Row("watch_cycles", c.id, "set", Open)>>
         /\ ~IsRead(c)
BY SameTables
DEF Statements, BeginWatchCycle, Row, Sqlite!Statements, Sqlite!BeginWatchCycle, Sqlite!Open,
    Open, IsRead, Reads

LEMMA PostgresLength ==
  ASSUME NEW c, NEW k, WellFormed(c), ~IsRead(c)
  PROVE  /\ Len(Statements(c, k)) \in Nat \ {0}
         /\ Len(Statements(c, k)) = Len(Sqlite!Statements(c, k))
<1>1. CASE c.op = "begin_watch_cycle"
  <2>1. \A row : Len(<<row>>) = 1
    OBVIOUS
  <2>2. Len(Statements(c, k)) = 1
    BY <1>1, <2>1, BeginCycle
  <2>3. Len(Sqlite!Statements(c, k)) = 1
    BY <1>1, <2>1, BeginCycle
  <2>4. QED
    BY <2>2, <2>3
<1>2. CASE c.op # "begin_watch_cycle"
  BY <1>2, SameStatements, SqliteLength, SameReads
<1>3. QED
  BY <1>1, <1>2

\* What i statements of a call make of a cell.
Halfway(c, i, db, n, x) ==
  IF c.op = "begin_watch_cycle" /\ db["watch_cycles"][c.id] # Absent THEN db[n][x]
  ELSE After(c, i, db, n, x)

LEMMA HalfwayNext ==
  ASSUME NEW c, NEW k, WellFormed(c), ~IsRead(c), NEW db, NEW now,
         NEW i \in 1..Len(Statements(c, k)), i = 1 => now = db,
         NEW n \in Names, NEW x \in KeysOf(n), now[n][x] = Halfway(c, i - 1, db, n, x),
         NEW statement, Statements(c, k)[i] = statement
  PROVE  Exec(statement, now)[n][x] = Halfway(c, i, db, n, x)
<1>1. CASE c.op = "begin_watch_cycle"
  <2> DEFINE old == db["watch_cycles"][c.id]
             cycle == Row("watch_cycles", c.id, "set", Open)
  <2>1. i = 1 /\ now = db /\ statement = Row("watch_cycles", c.id, "make", Open)
    BY <1>1, BeginCycle
  <2>2. Exec(statement, db)[n][x] =
          IF n = "watch_cycles" /\ x = c.id THEN Make(db[n][x], Open) ELSE db[n][x]
    BY <2>1, RowCells
  <2>3. Sqlite!Statements(c, Absent)[1] = cycle
    BY <1>1, BeginCycle
  <2> HIDE DEF cycle
  <2>4. After(c, 1, db, n, x) = Exec(cycle, db)[n][x]
    BY <1>1, <2>3 DEF After
  <2>5. Exec(cycle, db)[n][x] = IF n = "watch_cycles" /\ x = c.id THEN Open ELSE db[n][x]
    BY RowCells DEF cycle
  <2>6. CASE old = Absent
    BY <1>1, <2>1, <2>2, <2>4, <2>5, <2>6 DEF Halfway, Make
  <2>7. CASE old # Absent
    BY <1>1, <2>1, <2>2, <2>7 DEF Halfway, Make
  <2>8. QED
    BY <2>6, <2>7
<1>2. CASE c.op # "begin_watch_cycle"
  <2>1. /\ Statements(c, k) = Sqlite!Statements(c, k) /\ ~Sqlite!IsRead(c)
        /\ now[n][x] = After(c, i - 1, db, n, x)
    BY <1>2, SameStatements, SameReads DEF Halfway
  <2>2. Exec(statement, now)[n][x] = After(c, i, db, n, x)
    BY <2>1, AfterNext
  <2>3. QED
    BY <1>2, <2>2 DEF Halfway
<1>3. QED
  BY <1>1, <1>2

\* All of them come to what is promised.
LEMMA OutcomeIsHalfway ==
  ASSUME NEW c, NEW k, WellFormed(c), ~IsRead(c), NEW db, Shaped(db), Marked(db),
         SnapshotsAgree(db),
         c.op = "upsert_topic_detail" /\ k = c.version => db["topics"][c.topic] = c.version,
         NEW last, Len(Statements(c, k)) = last
  PROVE  /\ Shaped(Alone!Outcome(c, db))
         /\ \A n \in Names : \A x \in KeysOf(n) :
              Alone!Outcome(c, db)[n][x] = Halfway(c, last, db, n, x)
<1>1. CASE c.op = "begin_watch_cycle" /\ db["watch_cycles"][c.id] # Absent
  BY <1>1, SamePromise DEF Halfway
<1>2. CASE ~(c.op = "begin_watch_cycle" /\ db["watch_cycles"][c.id] # Absent)
  <2>1. ~Sqlite!IsRead(c) /\ Len(Sqlite!Statements(c, k)) = last
    BY PostgresLength, SameReads
  <2>2. /\ Shaped(Effect(c, db))
        /\ \A n \in Names : \A x \in KeysOf(n) :
             Effect(c, db)[n][x] = After(c, last, db, n, x)
    <3>1. CASE c.op # "upsert_topic_detail"
      BY <2>1, <3>1, EffectIsAfter
    <3>2. CASE c.op = "upsert_topic_detail" /\ k # c.version
      <4>1. last = 2
        BY <2>1, <3>2, SqliteLength
      <4>2. QED
        BY <3>2, <4>1, UpsertEffect
    <3>3. CASE c.op = "upsert_topic_detail" /\ k = c.version
      <4>1. last = 1
        BY <2>1, <3>3, SqliteLength
      <4>2. QED
        BY <3>3, <4>1, UpsertEffect, UpsertSeen
    <3>4. QED
      BY <3>1, <3>2, <3>3
  <2>3. Alone!Outcome(c, db) = Effect(c, db)
    BY <1>2, SamePromise
  <2>4. QED
    BY <1>2, <2>2, <2>3 DEF Halfway
<1>3. QED
  BY <1>1, <1>2

LEMMA OutcomeKeeps ==
  ASSUME NEW c, WellFormed(c), ~IsRead(c), NEW db, Shaped(db), Marked(db)
  PROVE  Marked(Alone!Outcome(c, db))
<1>1. Alone!Outcome(c, db) \in {db, Effect(c, db)}
  BY SamePromise
<1>2. QED
  BY <1>1, EffectKeeps, SameReads

\* The one call under way: what its statements have made of the tables, that a
\* version it has seen is the committed one, and that only an attempt that has
\* left statements out ends with the connection in order.
SoloCall(th) ==
  /\ pc[th] = "idle" => call[th] = NoCall
  /\ pc[th] = "run" /\ at[th] > 0 =>
       /\ txn \in {"open", "lost"}
       /\ txn = "open" =>
            /\ Shaped(work)
            /\ \A n \in Names : \A x \in KeysOf(n) :
                 work[n][x] = Halfway(call[th], at[th], disk, n, x)
  /\ /\ pc[th] = "run" /\ txn \in {"idle", "open"}
     /\ call[th].op = "upsert_topic_detail" /\ key[th] = call[th].version
     => disk["topics"][call[th].topic] = call[th].version
  /\ pc[th] = "failed" => \/ txn = "lost"
                          \/ txn = "aborted" /\ (IsRead(call[th]) \/ at[th] < Len(Body(th)))

SoloInv ==
  ~mixed => Shaped(disk) /\ Marked(disk) /\ \A th \in Threads : SoloCall(th)

\* All that is used of a thread that is under way while no two have been.
LEMMA Solo ==
  ASSUME Inv, ~mixed, SoloInv, NEW th \in Threads, pc[th] # "idle"
  PROVE  /\ call[th] \in CallsOf[th] /\ WellFormed(call[th]) /\ call[th] # NoCall
         /\ at[th] \in Nat
         /\ ~IsRead(call[th]) => Len(Body(th)) \in Nat \ {0}
         /\ pc[th] = "key" => at[th] = 0
         /\ pc[th] = "run" /\ IsRead(call[th]) => at[th] = 0
         /\ pc[th] = "run" /\ at[th] = 0 /\ txn \in {"idle", "open"} => View = disk
         /\ pc[th] = "key" /\ txn \in {"idle", "open"} => View = disk
         /\ \A o \in Threads \ {th} : pc[o] = "idle" /\ call[o] = NoCall /\ at[o] = 0
         /\ SoloCall(th) /\ Shaped(disk) /\ Marked(disk) /\ SnapshotsAgree(disk)
<1>1. call[th] \in CallsOf[th] /\ WellFormed(call[th]) /\ call[th] # NoCall
  <2>1. call[th] \in CallsOf[th] /\ WellFormed(call[th])
    BY CallsAreWellFormed DEF Inv, FlowInv
  <2>2. QED
    BY <2>1 DEF WellFormed, Operations, NoCall
<1>2. /\ at[th] \in Nat /\ (pc[th] = "key" => at[th] = 0)
      /\ (pc[th] = "run" /\ IsRead(call[th]) => at[th] = 0)
  BY DEF Inv, Shape, FlowInv
<1>3. ~IsRead(call[th]) => Len(Body(th)) \in Nat \ {0}
  BY <1>1, PostgresLength DEF Body
<1>4. \A o \in Threads \ {th} : pc[o] = "idle" /\ call[o] = NoCall /\ at[o] = 0
  BY DEF Inv, AloneInv, FlowInv, SoloInv, SoloCall
<1>5. (pc[th] # "run" \/ at[th] = 0) /\ txn \in {"idle", "open"} => View = disk
  BY <1>4 DEF Inv, AloneInv, View
<1>6. SoloCall(th) /\ Shaped(disk) /\ Marked(disk) /\ SnapshotsAgree(disk)
  <2>1. Whole(disk, counted)
    BY DEF Inv, DiskInv
  <2>2. SnapshotsAgree(disk)
    BY <2>1, WholeIsWhole DEF Inv, Shape
  <2>3. QED
    BY <2>2 DEF SoloInv
<1>7. QED
  BY <1>1, <1>2, <1>3, <1>4, <1>5, <1>6

\* With its last statement a call is what was promised.
LEMMA SoloOutcome ==
  ASSUME Inv, ~mixed, SoloInv, NEW th \in Threads, Writing(th), at[th] = Len(Body(th)),
         txn # "lost"
  PROVE  /\ txn = "open" /\ work = Alone!Outcome(call[th], disk)
         /\ Shaped(work) /\ Marked(work)
<1> DEFINE c == call[th]
           last == at[th]
<1>1. pc[th] = "run" /\ ~IsRead(c)
  BY DEF Writing
<1>2. /\ WellFormed(c) /\ at[th] \in Nat \ {0} /\ SoloCall(th)
      /\ Shaped(disk) /\ Marked(disk) /\ SnapshotsAgree(disk)
  BY <1>1, Solo
<1>3. /\ txn = "open" /\ Shaped(work)
      /\ \A n \in Names : \A x \in KeysOf(n) : work[n][x] = Halfway(c, last, disk, n, x)
  BY <1>1, <1>2 DEF SoloCall
<1>4. c.op = "upsert_topic_detail" /\ key[th] = c.version =>
        disk["topics"][c.topic] = c.version
  BY <1>1, <1>2, <1>3 DEF SoloCall
<1>5. Len(Statements(c, key[th])) = last
  BY DEF Body
<1> HIDE DEF c, last
<1>6. /\ Shaped(Alone!Outcome(c, disk))
      /\ \A n \in Names : \A x \in KeysOf(n) :
           Alone!Outcome(c, disk)[n][x] = Halfway(c, last, disk, n, x)
  BY <1>1, <1>2, <1>4, <1>5, OutcomeIsHalfway
<1>7. work = Alone!Outcome(c, disk)
  BY <1>3, <1>6, Extensional
<1>8. Marked(work)
  BY <1>1, <1>2, <1>7, OutcomeKeeps
<1>9. QED
  BY <1>3, <1>7, <1>8 DEF c

\* The threads that are not under way stay as they are.
LEMMA SoloKept ==
  ASSUME Inv, ~mixed, SoloInv, NEW th \in Threads, pc[th] # "idle",
         Shaped(disk'), Marked(disk'), SoloCall(th)',
         \A o \in Threads \ {th} : pc'[o] = pc[o] /\ call'[o] = call[o]
  PROVE  SoloInv'
<1>1. \A o \in Threads \ {th} : pc'[o] = "idle" /\ call'[o] = NoCall
  BY Solo
<1>2. \A o \in Threads \ {th} : SoloCall(o)'
  BY <1>1 DEF SoloCall
<1>3. QED
  BY <1>2 DEF SoloInv

LEMMA SoloStatement ==
  ASSUME Inv, ~mixed, SoloInv, NEW th \in Threads, Statement(th)
  PROVE  SoloInv'
<1> DEFINE c == call[th]
           k == key[th]
           i == at[th] + 1
           statement == Statements(c, k)[i]
           now == View
<1>1. /\ pc[th] = "run" /\ ~IsRead(c) /\ txn \in {"idle", "open"} /\ txn' = "open"
      /\ at[th] < Len(Statements(c, k)) /\ work' = Exec(statement, now)
      /\ at' = [at EXCEPT ![th] = @ + 1] /\ UNCHANGED <<disk, pc, call, key>>
  BY DEF Statement, Durable, Writing, Body
<1>2. /\ WellFormed(c) /\ at[th] \in Nat /\ SoloCall(th) /\ Shaped(disk) /\ Marked(disk)
      /\ at[th] = 0 => now = disk
      /\ Len(Statements(c, k)) \in Nat
  BY <1>1, Solo DEF Body
<1>3. at'[th] = i
  BY <1>1 DEF Inv, Shape
<1>4. \A n \in Names : \A x \in KeysOf(n) : now[n][x] = Halfway(c, at[th], disk, n, x)
  <2>1. CASE at[th] = 0
    <3>1. now = disk
      BY <1>2, <2>1
    <3> HIDE DEF now, c
    <3>2. QED
      BY <2>1, <3>1, AfterNone DEF Halfway
  <2>2. CASE at[th] > 0
    BY <1>1, <1>2, <2>2 DEF SoloCall, View
  <2>3. QED
    BY <1>2, <2>1, <2>2
<1>5. /\ i \in 1..Len(Statements(c, k)) /\ (i = 1 => now = disk)
      /\ Statements(c, k)[i] = statement
      /\ \A n \in Names : \A x \in KeysOf(n) : now[n][x] = Halfway(c, i - 1, disk, n, x)
  <2>1. i - 1 = at[th]
    BY <1>2
  <2>2. QED
    BY <1>1, <1>2, <1>4, <2>1
<1> HIDE DEF c, k, i, now, statement
<1>6. \A n \in Names : \A x \in KeysOf(n) :
        Exec(statement, now)[n][x] = Halfway(c, i, disk, n, x)
  <2> SUFFICES ASSUME NEW n \in Names, NEW x \in KeysOf(n)
               PROVE  Exec(statement, now)[n][x] = Halfway(c, i, disk, n, x)
    OBVIOUS
  <2>1. WellFormed(c) /\ ~IsRead(c)
    BY <1>1, <1>2
  <2>2. now[n][x] = Halfway(c, i - 1, disk, n, x)
    BY <1>5
  <2>3. QED
    BY <2>1, <2>2, <1>5, HalfwayNext
<1>7. SoloCall(th)'
  <2>1. /\ Shaped(work')
        /\ \A n \in Names : \A x \in KeysOf(n) :
             work'[n][x] = Halfway(call'[th], at'[th], disk', n, x)
    BY <1>1, <1>3, <1>6, ExecShaped DEF c
  <2>2. QED
    BY <1>1, <1>2, <2>1 DEF SoloCall
<1>8. QED
  BY <1>1, <1>2, <1>7, SoloKept

LEMMA SoloStep ==
  ASSUME Inv, ~mixed, SoloInv, NEW th \in Threads, ThreadStep(th)
  PROVE  SoloInv'
<1>1. CASE Statement(th)
  BY <1>1, SoloStatement
<1>2. CASE ReadKey(th)
  <2>1. /\ pc[th] = "key" /\ txn \in {"idle", "open"} /\ UNCHANGED <<disk, call, at>>
        /\ pc'[th] = "run" /\ \A o \in Threads \ {th} : pc'[o] = pc[o]
        /\ key'[th] = View["topics"][call[th].topic]
    BY <1>2 DEF ReadKey, Inv, Shape
  <2>2. View = disk /\ at[th] = 0 /\ Shaped(disk) /\ Marked(disk)
    BY <2>1, Solo
  <2>3. SoloCall(th)'
    BY <2>1, <2>2 DEF SoloCall
  <2>4. QED
    BY <2>1, <2>2, <2>3, SoloKept
<1>3. CASE Query(th) \/ RaiseToCaller(th)
  <2>1. /\ pc[th] # "idle" /\ disk' = disk /\ pc'[th] = "idle" /\ call'[th] = NoCall
        /\ \A o \in Threads \ {th} : pc'[o] = pc[o] /\ call'[o] = call[o]
    BY <1>3 DEF Query, RaiseToCaller, Return, Inv, Shape
  <2>2. Shaped(disk) /\ Marked(disk)
    BY <2>1, Solo
  <2>3. SoloCall(th)'
    BY <2>1 DEF SoloCall
  <2>4. QED
    BY <2>1, <2>2, <2>3, SoloKept
<1>4. CASE CommandFails(th)
  <2>1. /\ pc[th] \in {"key", "run"} /\ pc'[th] = "failed"
        /\ UNCHANGED <<disk, call, key, at>> /\ txn' \in {"aborted", "lost"}
        /\ Writing(th) => at[th] < Len(Body(th))
        /\ \A o \in Threads \ {th} : pc'[o] = pc[o]
    BY <1>4 DEF CommandFails, Inv, Shape
  <2>2. /\ Shaped(disk) /\ Marked(disk) /\ (pc[th] = "key" => at[th] = 0)
        /\ (~IsRead(call[th]) => Len(Body(th)) \in Nat \ {0})
    BY <2>1, Solo
  <2>3. IsRead(call[th]) \/ at[th] < Len(Body(th))
    BY <2>1, <2>2 DEF Writing
  <2>4. SoloCall(th)'
    BY <2>1, <2>3 DEF SoloCall, Body
  <2>5. QED
    BY <2>1, <2>2, <2>4, SoloKept
<1>5. CASE CommitFails(th)
  <2>1. /\ pc[th] = "run" /\ pc'[th] = "failed" /\ txn' = "lost"
        /\ UNCHANGED <<disk, call>> /\ \A o \in Threads \ {th} : pc'[o] = pc[o]
    BY <1>5 DEF CommitFails, Writing, Inv, Shape
  <2>2. Shaped(disk) /\ Marked(disk)
    BY <2>1, Solo
  <2>3. SoloCall(th)'
    BY <2>1 DEF SoloCall
  <2>4. QED
    BY <2>1, <2>2, <2>3, SoloKept
<1>6. CASE Commit(th)
  <2>1. /\ Writing(th) /\ pc[th] = "run" /\ at[th] = Len(Body(th)) /\ txn # "lost"
        /\ pc'[th] = "idle" /\ call'[th] = NoCall
        /\ disk' = IF txn = "open" THEN work ELSE disk
        /\ \A o \in Threads \ {th} : pc'[o] = pc[o] /\ call'[o] = call[o]
    BY <1>6 DEF Commit, Return, Writing, Inv, Shape
  <2>2. Shaped(disk') /\ Marked(disk')
    BY <2>1, SoloOutcome
  <2>3. SoloCall(th)'
    BY <2>1 DEF SoloCall
  <2>4. QED
    BY <2>1, <2>2, <2>3, SoloKept
<1>7. QED
  BY <1>1, <1>2, <1>3, <1>4, <1>5, <1>6 DEF ThreadStep

\* Who is cut off when the connection is lost: a call at its commit.
LEMMA SoloCutOff ==
  ASSUME Inv, ~mixed, SoloInv, txn # "lost", NEW th \in Threads, call[th] # NoCall,
         ~IsRead(call[th]), at[th] = Len(Body(th))
  PROVE  Writing(th) /\ txn = "open"
<1>1. pc[th] # "idle"
  BY DEF SoloInv, SoloCall
<1>2. /\ at[th] \in Nat \ {0} /\ SoloCall(th) /\ (pc[th] = "key" => at[th] = 0)
  BY <1>1, Solo
<1>3. pc[th] \in {"idle", "key", "run", "failed"}
  BY DEF Inv, Shape
<1>4. pc[th] = "run"
  BY <1>1, <1>2, <1>3 DEF SoloCall
<1>5. QED
  BY <1>2, <1>4 DEF SoloCall, Writing

LEMMA SoloStays ==
  ASSUME Inv, SoloInv, [Next]_vars
  PROVE  SoloInv'
<1>1. SUFFICES ASSUME ~mixed, ~mixed' PROVE SoloInv'
  <2>1. mixed => mixed'
    BY DEF Next, ThreadStep, Begin, ReadKey, Query, Statement, CommandFails, Commit,
       CommitFails, RaiseToCaller, Disconnect, Restart, vars
  <2>2. QED
    BY <1>1, <2>1 DEF SoloInv
<1>2. Shaped(disk) /\ Marked(disk) /\ \A th \in Threads : SoloCall(th)
  BY <1>1 DEF SoloInv
<1>3. ASSUME NEW th \in Threads, NEW c \in CallsOf[th], Begin(th, c) PROVE SoloInv'
  <2>1. /\ disk' = disk /\ \A o \in Threads : pc[o] = "idle"
        /\ at[th] = 0 /\ at' = at
        /\ pc'[th] \in {"key", "run"} /\ (pc'[th] = "run" => c.op # "upsert_topic_detail")
        /\ call'[th] = c
        /\ \A o \in Threads \ {th} : pc'[o] = "idle" /\ call'[o] = call[o]
    BY <1>1, <1>3 DEF Begin, Inv, Shape, FlowInv
  <2>2. SoloCall(th)'
    BY <2>1 DEF SoloCall
  <2>3. \A o \in Threads \ {th} : SoloCall(o)'
    BY <1>2, <2>1 DEF SoloCall
  <2>4. QED
    BY <1>2, <2>1, <2>2, <2>3 DEF SoloInv
<1>4. CASE Disconnect
  <2>1. txn # "lost" /\ txn' = "lost" /\ UNCHANGED <<pc, call, key, at>>
    BY <1>4 DEF Disconnect
  <2>2. Shaped(disk') /\ Marked(disk')
    <3>1. CASE disk' = disk
      BY <1>2, <3>1
    <3>2. CASE disk' # disk
      <4>1. PICK th \in Threads : Writing(th) /\ at[th] = Len(Body(th)) /\ disk' = work
        BY <1>4, <3>2 DEF Disconnect
      <4>2. QED
        BY <1>1, <2>1, <4>1, SoloOutcome
    <3>3. QED
      BY <3>1, <3>2
  <2>3. \A th \in Threads : SoloCall(th)'
    BY <1>2, <2>1 DEF SoloCall
  <2>4. QED
    BY <2>2, <2>3 DEF SoloInv
<1>5. CASE Restart
  <2>1. /\ disk' = disk
        /\ \A th \in Threads : pc'[th] = "idle" /\ call'[th] = NoCall
    BY <1>5 DEF Restart
  <2>2. QED
    BY <1>2, <2>1 DEF SoloInv, SoloCall
<1>6. CASE UNCHANGED vars
  BY <1>2, <1>6 DEF vars, SoloInv, SoloCall, Body
<1>7. QED
  BY <1>1, <1>3, <1>4, <1>5, <1>6, SoloStep DEF Next

\* Every step is one of DoubtfulStore, or none.
LEMMA SoloThreadStep ==
  ASSUME Inv, ~mixed, SoloInv, NEW th \in Threads, ThreadStep(th)
  PROVE  \/ Alone!Read(th) \/ Alone!Write(th) \/ Alone!Fail(th)
         \/ UNCHANGED Alone!vars
<1>1. CASE ReadKey(th) \/ Statement(th)
  <2>1. UNCHANGED <<disk, call, answer>> /\ txn # "lost" /\ txn' # "lost"
    BY <1>1 DEF ReadKey, Opened, Statement, Durable
  <2>2. QED
    BY <2>1 DEF CutOff, Alone!vars
<1>2. CASE CommandFails(th) \/ CommitFails(th)
  <2>1. UNCHANGED <<disk, call, answer, key, at>>
    BY <1>2 DEF CommandFails, CommitFails
  <2>2. txn = "lost" <=> txn' = "lost"
    BY <1>2 DEF CommandFails, CommitFails
  <2>3. CutOff' = CutOff
    BY <2>1, <2>2 DEF CutOff, Body
  <2>4. QED
    BY <2>1, <2>3 DEF Alone!vars
<1>3. CASE Query(th)
  <2>1. /\ pc[th] = "run" /\ IsRead(call[th]) /\ txn \in {"idle", "open"} /\ txn' = "open"
        /\ disk' = disk /\ call' = [call EXCEPT ![th] = NoCall]
        /\ answer' = [answer EXCEPT ![th] = Answer(call[th], View)]
    BY <1>3 DEF Query, Opened, Return
  <2>2. View = disk /\ call[th] # NoCall
    BY <2>1, Solo
  <2>3. Answer(call[th], View) = Alone!Reply(call[th], disk)
    BY <2>1, <2>2, PostgresAnswer, SamePromise
  <2>4. CutOff = {} /\ CutOff' = {} /\ Alone!IsRead(call[th])
    BY <2>1 DEF CutOff, IsRead, Reads, Alone!IsRead, Alone!Reads
  <2>5. Alone!Read(th)
    BY <2>1, <2>2, <2>3, <2>4 DEF Alone!Read, Alone!Return, Alone!NoCall, NoCall
  <2>6. QED
    BY <2>5
<1>4. CASE Commit(th)
  <2>1. /\ Writing(th) /\ pc[th] = "run" /\ at[th] = Len(Body(th)) /\ txn # "lost"
        /\ txn' = "idle" /\ call' = [call EXCEPT ![th] = NoCall] /\ answer' = answer
        /\ disk' = IF txn = "open" THEN work ELSE disk
    BY <1>4 DEF Commit, Return, Writing
  <2>2. disk' = Alone!Outcome(call[th], disk) /\ call[th] # NoCall
    BY <2>1, Solo, SoloOutcome
  <2>3. CutOff = {} /\ CutOff' = {} /\ ~Alone!IsRead(call[th])
    BY <2>1 DEF CutOff, Writing, IsRead, Reads, Alone!IsRead, Alone!Reads
  <2>4. Alone!Write(th)
    BY <2>1, <2>2, <2>3 DEF Alone!Write, Alone!Return, Alone!NoCall, NoCall
  <2>5. QED
    BY <2>4
<1>5. CASE RaiseToCaller(th)
  <2>1. /\ pc[th] = "failed" /\ call' = [call EXCEPT ![th] = NoCall]
        /\ call = [o \in Threads |-> call[o]] /\ UNCHANGED <<disk, answer>>
        /\ txn = "lost" <=> txn' = "lost"
        /\ \A o \in Threads \ {th} :
             call'[o] = call[o] /\ key'[o] = key[o] /\ at'[o] = at[o]
    BY <1>5 DEF RaiseToCaller, Rollback, Return, Inv, Shape
  <2>2. call[th] # NoCall /\ call'[th] = NoCall
    BY <2>1, Solo
  <2>3. \A o \in Threads : o \in CutOff' <=> o \in CutOff /\ o # th
    BY <2>1, <2>2 DEF CutOff, Body
  <2>4. CutOff' = CutOff \ {th}
    BY <2>3 DEF CutOff
  <2>5. Alone!Fail(th)
    BY <2>1, <2>2, <2>4 DEF Alone!Fail, Alone!Return, Alone!NoCall, NoCall
  <2>6. QED
    BY <2>5
<1>6. QED
  BY <1>1, <1>2, <1>3, <1>4, <1>5 DEF ThreadStep

LEMMA SoloDisconnect ==
  ASSUME Inv, ~mixed, SoloInv, Disconnect
  PROVE  (\E th \in Threads : Alone!CutOff(th)) \/ UNCHANGED Alone!vars
<1>1. txn # "lost" /\ txn' = "lost" /\ UNCHANGED <<pc, call, key, at, answer>> /\ CutOff = {}
  BY DEF Disconnect, CutOff
<1>2. \A th \in Threads : th \in CutOff' =>
        Writing(th) /\ at[th] = Len(Body(th)) /\ txn = "open" /\ call[th] # NoCall
  BY <1>1, SoloCutOff DEF CutOff, Body
<1>3. ASSUME NEW th \in Threads, Writing(th), at[th] = Len(Body(th))
      PROVE  Alone!CutOff(th)
  <2>1. pc[th] = "run" /\ ~IsRead(call[th])
    BY <1>3 DEF Writing
  <2>2. call[th] # NoCall /\ \A o \in Threads \ {th} : pc[o] = "idle"
    BY <2>1, Solo
  <2>3. CutOff' = {th}
    <3>1. th \in CutOff'
      BY <1>1, <1>3, <2>1, <2>2 DEF CutOff, Body
    <3>2. \A o \in Threads : o \in CutOff' => o = th
      BY <1>2, <2>2 DEF Writing
    <3>3. QED
      BY <3>1, <3>2 DEF CutOff
  <2>4. disk' \in {disk, Alone!Outcome(call[th], disk)}
    <3>1. work = Alone!Outcome(call[th], disk)
      BY <1>1, <1>3, SoloOutcome
    <3>2. disk' = disk \/ disk' = work
      BY DEF Disconnect
    <3>3. QED
      BY <3>1, <3>2
  <2>5. QED
    BY <1>1, <2>2, <2>3, <2>4 DEF Alone!CutOff, Alone!NoCall, NoCall
<1>4. ASSUME \A th \in Threads : ~(Writing(th) /\ at[th] = Len(Body(th)))
      PROVE  UNCHANGED Alone!vars
  <2>1. CutOff' = {}
    BY <1>2, <1>4 DEF CutOff
  <2>2. disk' = disk
    BY <1>4 DEF Disconnect
  <2>3. QED
    BY <1>1, <2>1, <2>2 DEF Alone!vars
<1>5. QED
  BY <1>3, <1>4

LEMMA SoloNext ==
  ASSUME Inv, SoloInv, [Next]_vars
  PROVE  [mixed' \/ Alone!Next]_(Alone!vars)
<1>1. SUFFICES ASSUME ~mixed' PROVE Alone!Next \/ UNCHANGED Alone!vars
  OBVIOUS
<1>2. ~mixed
  BY <1>1 DEF Next, ThreadStep, Begin, ReadKey, Query, Statement, CommandFails, Commit,
     CommitFails, RaiseToCaller, Disconnect, Restart, vars
<1>3. ASSUME NEW th \in Threads, ThreadStep(th)
      PROVE  Alone!Next \/ UNCHANGED Alone!vars
  BY <1>2, <1>3, SoloThreadStep DEF Alone!Next
<1>4. ASSUME NEW th \in Threads, NEW c \in CallsOf[th], Begin(th, c)
      PROVE  Alone!Next
  <2>1. /\ \A o \in Threads : pc[o] = "idle" /\ call[o] = NoCall /\ at[o] = 0
        /\ UNCHANGED <<disk, txn, key, at, answer>>
        /\ call' = [call EXCEPT ![th] = c] /\ call'[th] = c
        /\ \A o \in Threads \ {th} : call'[o] = NoCall
    BY <1>1, <1>2, <1>4 DEF Begin, Inv, Shape, FlowInv, SoloInv, SoloCall
  <2>2. WellFormed(c)
    BY PostgresAssumption
  <2>3. CutOff = {}
    BY <2>1 DEF CutOff
  <2>4. CutOff' = {}
    <3>1. ~IsRead(c) => Len(Statements(c, key[th])) # 0
      BY <2>2, PostgresLength
    <3>2. \A o \in Threads : o \notin CutOff'
      BY <2>1, <3>1 DEF CutOff, Body
    <3>3. QED
      BY <3>2 DEF CutOff
  <2>5. Alone!Begin(th)
    BY <2>1, <2>2, <2>3, <2>4, SamePromise DEF Alone!Begin, Alone!NoCall, NoCall
  <2>6. QED
    BY <2>5 DEF Alone!Next
<1>5. CASE Disconnect
  BY <1>2, <1>5, SoloDisconnect DEF Alone!Next
<1>6. CASE Restart
  <2>1. /\ call' = [th \in Threads |-> NoCall] /\ txn' = "idle"
        /\ UNCHANGED <<disk, answer>>
    BY <1>6 DEF Restart
  <2>2. CutOff' = {}
    BY <2>1 DEF CutOff
  <2>3. Alone!Restart
    BY <2>1, <2>2 DEF Alone!Restart, Alone!NoCall, NoCall
  <2>4. QED
    BY <2>3 DEF Alone!Next
<1>7. CASE UNCHANGED vars
  BY <1>7 DEF vars, Alone!vars, CutOff, Body
<1>8. QED
  BY <1>3, <1>4, <1>5, <1>6, <1>7 DEF Next

\* As long as no two calls of PostgresStore have been under way at once, it
\* implements DoubtfulStore: a call that returns has been carried out once and
\* whole, one that raises not at all unless the connection was lost at its
\* commit, and a read answers from what was committed (with_postgres_retry,
\* _commit and the statements of every write of postgres_store.py).
THEOREM PostgresIsAtomicAlone == Spec => AtomicWhileAlone
<1>1. Init => Alone!Init /\ SoloInv
  <2> SUFFICES ASSUME Init PROVE Alone!Init /\ SoloInv
    OBVIOUS
  <2>1. CutOff = {}
    BY DEF Init, CutOff
  <2>2. Alone!Init
    BY <2>1, SamePromise DEF Init, Alone!Init, Alone!NoCall, NoCall
  <2>3. SoloInv
    BY FirstTables DEF Init, SoloInv, SoloCall
  <2>4. QED
    BY <2>2, <2>3
<1>2. Inv /\ SoloInv /\ [Next]_vars => SoloInv'
  BY SoloStays
<1>3. Inv /\ SoloInv /\ [Next]_vars => [mixed' \/ Alone!Next]_(Alone!vars)
  BY SoloNext
<1>4. QED
  BY <1>1, <1>2, <1>3, InvAtFirst, InvStays, PTL DEF Spec, AtomicWhileAlone
=============================================================================
