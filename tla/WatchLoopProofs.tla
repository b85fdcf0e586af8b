---------------------------- MODULE WatchLoopProofs ----------------------------
(***************************************************************************)
(* Theorems about WatchLoop and WatchSchedule, for a day of any length,    *)
(* any schedules and settings, and any number of notifications and         *)
(* failures.                                                               *)
(***************************************************************************)
EXTENDS WatchLoop, FiniteSetTheorems, WellFoundedInduction, TLAPS

-----------------------------------------------------------------------------
(* The least element of a set *)

\* A set of natural numbers that is not empty has a least element, and Min
\* chooses it.
LEMMA MinOf ==
  ASSUME NEW S \in SUBSET Nat, S # {}
  PROVE  /\ Min(S) \in S
         /\ \A x \in S : Min(S) <= x
<1>1. \E m \in S : \A x \in S : ~(<<x, m>> \in OpToRel(<, Nat))
  BY WFMin, NatLessThanWellFounded, Zenon
<1>2. \A x, m \in S : x < m => <<x, m>> \in OpToRel(<, Nat)
  BY DEF OpToRel
<1>3. \E m \in S : \A x \in S : m <= x
  <2>1. PICK m \in S : \A x \in S : ~(<<x, m>> \in OpToRel(<, Nat))
    BY <1>1, ZenonT(40)
  <2>2. ASSUME NEW x \in S PROVE m <= x
    <3>1. ~(x < m)
      BY <1>2, <2>1, ZenonT(40)
    <3> QED
      BY <3>1
  <2> QED
    BY <2>2
<1>4. \E x \in S : \A y \in S : x =< y
  BY <1>3
<1> QED
  BY <1>4, Zenon DEF Min

\* A least element is the one that Min chooses.
LEMMA MinIs ==
  ASSUME NEW S \in SUBSET Nat, NEW m \in S, \A x \in S : m <= x
  PROVE  Min(S) = m
<1>1. Min(S) \in S /\ \A x \in S : Min(S) <= x
  BY MinOf
<1>2. Min(S) <= m /\ m <= Min(S) /\ Min(S) \in Nat
  BY <1>1
<1> QED
  BY <1>2

-----------------------------------------------------------------------------
(* The time of day *)

LEMMA DayIsPositive == Day \in Nat \ {0} /\ HoursPerDay \in Nat \ {0} /\ MinutesPerHour \in Nat \ {0}
BY ScheduleAssumption DEF Day

\* The remainder by the day of what is at most a day off.
LEMMA Wrapped ==
  ASSUME NEW x \in Int, -Day <= x, x < 2 * Day
  PROVE  x % Day = IF x < 0 THEN x + Day ELSE IF x < Day THEN x ELSE x - Day
<1>1. ASSUME NEW D \in Nat \ {0}, -D <= x, x < 0 PROVE x % D = x + D
  BY <1>1
<1>2. ASSUME NEW D \in Nat \ {0}, 0 <= x, x < D PROVE x % D = x
  BY <1>2
<1>3. ASSUME NEW D \in Nat \ {0}, D <= x, x < 2 * D PROVE x % D = x - D
  BY <1>3
<1>4. CASE x < 0
  BY <1>1, <1>4, DayIsPositive
<1>5. CASE 0 <= x /\ x < Day
  BY <1>2, <1>5, DayIsPositive
<1>6. CASE Day <= x
  <2>1. x % Day = x - Day
    BY <1>3, <1>6, DayIsPositive
  <2> QED
    BY <1>6, <2>1, DayIsPositive
<1> QED
  BY <1>4, <1>5, <1>6, DayIsPositive

\* The minute that comes e minutes after m.
LEMMA Later ==
  ASSUME NEW m \in Moments, NEW e \in Moments
  PROVE  /\ (m + e) % Day = IF m + e < Day THEN m + e ELSE m + e - Day
         /\ (m + e) % Day \in Moments
<1>1. PICK x : x = m + e
  OBVIOUS
<1>2. x \in Int /\ -Day <= x /\ x < 2 * Day /\ ~(x < 0)
  BY <1>1, DayIsPositive DEF Moments
<1>3. x % Day = IF x < Day THEN x ELSE x - Day
  BY <1>2, Wrapped
<1> QED
  BY <1>1, <1>2, <1>3, DayIsPositive DEF Moments

LEMMA MinuteOfDay ==
  ASSUME NEW h \in 0..HoursPerDay - 1, NEW m \in 0..MinutesPerHour - 1
  PROVE  h * MinutesPerHour + m \in Moments
<1>1. ASSUME NEW H \in Nat \ {0}, NEW M \in Nat \ {0}, NEW a \in 0..H-1, NEW b \in 0..M-1
      PROVE  a * M + b \in 0..(H * M - 1)
  BY <1>1
<1> QED
  BY <1>1, DayIsPositive DEF Moments, Day

LEMMA HourAndMinute ==
  ASSUME NEW p \in Nat
  PROVE  (p \div MinutesPerHour) * MinutesPerHour + (p % MinutesPerHour) = p
<1>1. ASSUME NEW M \in Nat \ {0} PROVE (p \div M) * M + (p % M) = p
  BY <1>1
<1> QED
  BY <1>1, DayIsPositive

-----------------------------------------------------------------------------
(* Windows and ranges *)

Valid(windows) == \A w \in windows : WellFormed(w)

StartOf(w) == w[1] * MinutesPerHour + w[2]
EndOf(w) == w[3] * MinutesPerHour + w[4]

LEMMA Bounds ==
  ASSUME NEW w, WellFormed(w)
  PROVE  StartOf(w) \in Moments /\ EndOf(w) \in Moments
BY MinuteOfDay DEF WellFormed, StartOf, EndOf

\* A normalized range is a piece of a window that does not pass midnight.
LEMMA RangeOfWindow ==
  ASSUME NEW windows, Valid(windows), NEW r \in Normalized(Ranges(windows))
  PROVE  \E w \in windows :
           LET s == StartOf(w)  e == EndOf(w)
           IN  IF s <= e THEN r = <<s, e>> ELSE r = <<s, Day - 1>> \/ r = <<0, e>>
<1>1. PICK w \in windows : r \in IF EndOf(w) >= StartOf(w) THEN {<<StartOf(w), EndOf(w)>>}
                                 ELSE {<<StartOf(w), Day - 1>>, <<0, EndOf(w)>>}
  BY DEF Normalized, Ranges, StartOf, EndOf
<1>2. StartOf(w) \in Int /\ EndOf(w) \in Int
  BY Bounds, DayIsPositive DEF Valid, Moments
<1> QED
  BY <1>1, <1>2

LEMMA WindowHasRanges ==
  ASSUME NEW windows, Valid(windows), NEW w \in windows
  PROVE  LET s == StartOf(w)  e == EndOf(w)
         IN  IF s <= e THEN <<s, e>> \in Normalized(Ranges(windows))
             ELSE /\ <<s, Day - 1>> \in Normalized(Ranges(windows))
                  /\ <<0, e>> \in Normalized(Ranges(windows))
<1>1. <<StartOf(w), EndOf(w)>> \in Ranges(windows)
  BY DEF Ranges, Valid, StartOf, EndOf
<1>2. StartOf(w) \in Int /\ EndOf(w) \in Int
  BY Bounds, DayIsPositive DEF Valid, Moments
<1> DEFINE piece(r) == IF r[2] >= r[1] THEN {r} ELSE {<<r[1], Day - 1>>, <<0, r[2]>>}
<1>3. piece(<<StartOf(w), EndOf(w)>>) \subseteq Normalized(Ranges(windows))
  BY <1>1 DEF Normalized
<1> QED
  BY <1>2, <1>3

\* A normalized range lies within the day.
LEMMA RangeType ==
  ASSUME NEW windows, Valid(windows), NEW r \in Normalized(Ranges(windows))
  PROVE  r = <<r[1], r[2]>> /\ r[1] \in Moments /\ r[2] \in Moments /\ r[1] <= r[2]
<1>1. PICK w \in windows :
           LET s == StartOf(w)  e == EndOf(w)
           IN  IF s <= e THEN r = <<s, e>> ELSE r = <<s, Day - 1>> \/ r = <<0, e>>
  BY RangeOfWindow
<1>2. StartOf(w) \in Moments /\ EndOf(w) \in Moments
  BY Bounds DEF Valid
<1> QED
  BY <1>1, <1>2, DayIsPositive DEF Moments

\* Round the clock, a minute is in a window if it is in one of its ranges.
LEMMA AllowedIsInside ==
  ASSUME NEW windows, Valid(windows), NEW m \in Moments
  PROVE  Allowed(windows, m) <=> Inside(Normalized(Ranges(windows)), m)
<1> DEFINE In(w) == (m - StartOf(w)) % Day <= (EndOf(w) - StartOf(w)) % Day
<1>1. ASSUME NEW w \in windows
      PROVE  In(w) <=> IF StartOf(w) <= EndOf(w) THEN StartOf(w) <= m /\ m <= EndOf(w)
                       ELSE StartOf(w) <= m \/ m <= EndOf(w)
  <2>1. StartOf(w) \in Moments /\ EndOf(w) \in Moments
    BY Bounds DEF Valid
  <2>2. (m - StartOf(w)) % Day = IF m < StartOf(w) THEN m - StartOf(w) + Day ELSE m - StartOf(w)
    BY <2>1, Wrapped, DayIsPositive DEF Moments
  <2>3. (EndOf(w) - StartOf(w)) % Day =
          IF EndOf(w) < StartOf(w) THEN EndOf(w) - StartOf(w) + Day ELSE EndOf(w) - StartOf(w)
    BY <2>1, Wrapped, DayIsPositive DEF Moments
  <2> QED
    BY <2>1, <2>2, <2>3, DayIsPositive DEF Moments
<1>2. Allowed(windows, m) <=> \E w \in windows : In(w)
  BY DEF Allowed, StartOf, EndOf
<1> HIDE DEF In
<1>3. ASSUME NEW w \in windows, In(w) PROVE Inside(Normalized(Ranges(windows)), m)
  <2>1. StartOf(w) \in Moments /\ EndOf(w) \in Moments
    BY Bounds DEF Valid
  <2>2. CASE StartOf(w) <= EndOf(w)
    <3>1. <<StartOf(w), EndOf(w)>> \in Normalized(Ranges(windows))
      BY <2>2, WindowHasRanges
    <3> QED
      BY <1>1, <1>3, <2>2, <3>1 DEF Inside
  <2>3. CASE ~(StartOf(w) <= EndOf(w))
    <3>1. /\ <<StartOf(w), Day - 1>> \in Normalized(Ranges(windows))
          /\ <<0, EndOf(w)>> \in Normalized(Ranges(windows))
      BY <2>3, WindowHasRanges
    <3>2. StartOf(w) <= m \/ m <= EndOf(w)
      BY <1>1, <1>3, <2>3
    <3>3. 0 <= m /\ m <= Day - 1
      BY DayIsPositive DEF Moments
    <3> QED
      BY <3>1, <3>2, <3>3 DEF Inside
  <2> QED
    BY <2>2, <2>3
<1>4. ASSUME NEW r \in Normalized(Ranges(windows)), r[1] <= m, m <= r[2]
      PROVE  \E w \in windows : In(w)
  <2>1. PICK w \in windows :
           LET s == StartOf(w)  e == EndOf(w)
           IN  IF s <= e THEN r = <<s, e>> ELSE r = <<s, Day - 1>> \/ r = <<0, e>>
    BY RangeOfWindow
  <2>2. IF StartOf(w) <= EndOf(w) THEN StartOf(w) <= m /\ m <= EndOf(w)
        ELSE StartOf(w) <= m \/ m <= EndOf(w)
    BY <1>4, <2>1
  <2> QED
    BY <1>1, <2>2
<1> QED
  BY <1>2, <1>3, <1>4 DEF Inside

\* The range that ends a sleep: the first one later today, or the first one of
\* all when there is none.
NextStart(ranges, m) ==
  IF FutureStarts(ranges, m) # {} THEN Min(FutureStarts(ranges, m)) ELSE Min({r[1] : r \in ranges})

LEMMA NextStartBounds ==
  ASSUME NEW windows, Valid(windows), NEW m \in Moments,
         NEW ranges, ranges = Normalized(Ranges(windows)), ranges # {}, ~Inside(ranges, m)
  PROVE  LET p == NextStart(ranges, m)
         IN  /\ p \in Moments
             /\ Inside(ranges, p)
             /\ IF FutureStarts(ranges, m) # {}
                THEN p > m /\ \A r \in ranges : r[1] > m => p <= r[1]
                ELSE p < m /\ \A r \in ranges : p <= r[1] /\ r[1] <= m
<1> DEFINE later == FutureStarts(ranges, m)
           starts == {r[1] : r \in ranges}
           p == NextStart(ranges, m)
<1>1. \A r \in ranges : r[1] \in Nat /\ r[1] \in Moments /\ r[2] \in Moments /\ r[1] <= r[2]
  BY RangeType, DayIsPositive DEF Moments
<1>2. later \in SUBSET Nat /\ starts \in SUBSET Nat /\ starts # {}
  BY <1>1 DEF FutureStarts
<1>3. m \in Nat /\ \A r \in ranges : ~(r[1] <= m /\ m <= r[2])
  BY DayIsPositive DEF Moments, Inside
<1>4. CASE later # {}
  <2>1. p = Min(later)
    BY <1>4 DEF NextStart
  <2>2. p \in later /\ \A x \in later : p <= x
    BY <1>2, <1>4, <2>1, MinOf
  <2>3. PICK r \in ranges : r[1] > m /\ p = r[1]
    BY <2>2 DEF FutureStarts
  <2>4. Inside(ranges, p)
    BY <1>1, <2>3 DEF Inside, Moments
  <2>5. \A x \in ranges : x[1] > m => p <= x[1]
    BY <2>2 DEF FutureStarts
  <2> QED
    BY <1>1, <1>4, <2>3, <2>4, <2>5
<1>5. CASE later = {}
  <2>1. p = Min(starts)
    BY <1>5 DEF NextStart
  <2>2. p \in starts /\ \A x \in starts : p <= x
    BY <1>2, <2>1, MinOf
  <2>3. PICK r \in ranges : p = r[1]
    BY <2>2
  <2>4. \A x \in ranges : p <= x[1] /\ x[1] <= m
    <3>1. \A x \in ranges : ~(x[1] > m)
      BY <1>5 DEF FutureStarts
    <3> QED
      BY <1>1, <1>3, <2>2, <3>1
  <2>5. p < m
    BY <1>1, <1>3, <2>3, <2>4 DEF Moments
  <2>6. Inside(ranges, p)
    BY <1>1, <2>3 DEF Inside, Moments
  <2> QED
    BY <1>1, <1>5, <2>3, <2>4, <2>5, <2>6
<1> QED
  BY <1>4, <1>5

\* The time asleep takes the loop to the next start.
LEMMA SleepLength ==
  ASSUME NEW windows, Valid(windows), NEW m \in Moments, DelaySecs(windows, m) > 0,
         NEW ranges, ranges = Normalized(Ranges(windows))
  PROVE  LET d == DelaySecs(windows, m)
             p == NextStart(ranges, m)
         IN  /\ ranges # {} /\ ~Inside(ranges, m)
             /\ d \in Moments
             /\ d = IF FutureStarts(ranges, m) # {} THEN p - m ELSE (Day - m) + p
             /\ (m + d) % Day = p
<1> DEFINE d == DelaySecs(windows, m)
           p == NextStart(ranges, m)
<1>1. ranges # {} /\ ~Inside(ranges, m)
  BY DEF DelaySecs
<1>2. d = IF FutureStarts(ranges, m) # {} THEN p - m ELSE (Day - m) + p
  BY <1>1 DEF DelaySecs, NextStart
<1>3. /\ p \in Moments
      /\ IF FutureStarts(ranges, m) # {} THEN p > m ELSE p < m
  BY <1>1, NextStartBounds
<1>4. d \in Moments
  BY <1>2, <1>3, DayIsPositive DEF Moments
<1>5. (m + d) % Day = p
  <2>1. (m + d) % Day = IF m + d < Day THEN m + d ELSE m + d - Day
    BY <1>4, Later
  <2> QED
    BY <1>2, <1>3, <2>1, DayIsPositive DEF Moments
<1> QED
  BY <1>1, <1>2, <1>4, <1>5

\* Until then no minute is inside a range.
LEMMA NothingMissed ==
  ASSUME NEW windows, Valid(windows), NEW m \in Moments, DelaySecs(windows, m) > 0,
         NEW ranges, ranges = Normalized(Ranges(windows)),
         NEW e \in Moments, e < DelaySecs(windows, m)
  PROVE  ~Inside(ranges, (m + e) % Day)
<1> DEFINE d == DelaySecs(windows, m)
           p == NextStart(ranges, m)
           q == (m + e) % Day
<1>1. /\ ranges # {} /\ ~Inside(ranges, m)
      /\ d = IF FutureStarts(ranges, m) # {} THEN p - m ELSE (Day - m) + p
  BY SleepLength
<1>2. /\ p \in Moments
      /\ IF FutureStarts(ranges, m) # {}
         THEN p > m /\ \A r \in ranges : r[1] > m => p <= r[1]
         ELSE p < m /\ \A r \in ranges : p <= r[1] /\ r[1] <= m
  BY <1>1, NextStartBounds
<1>3. q = IF m + e < Day THEN m + e ELSE m + e - Day
  BY Later
<1> SUFFICES ASSUME NEW r \in ranges, r[1] <= q, q <= r[2] PROVE FALSE
  BY DEF Inside
<1>4. r[1] \in Moments /\ r[2] \in Moments /\ ~(r[1] <= m /\ m <= r[2])
  BY <1>1, RangeType DEF Inside
<1> HIDE DEF q, p, d
<1> QED
  BY <1>1, <1>2, <1>3, <1>4, DayIsPositive DEF Moments, d

\* What WakesAtNextWindow says of a loop that falls asleep.
LEMMA SleepIsRight ==
  ASSUME NEW windows, Valid(windows), NEW m \in Moments, DelaySecs(windows, m) > 0
  PROVE  LET d == DelaySecs(windows, m)
             next == NextRunLocal(windows, m)
         IN  /\ ~Allowed(windows, m)
             /\ d = FirstAllowed(windows, m)
             /\ next[1] * MinutesPerHour + next[2] = (m + d) % Day
<1> DEFINE d == DelaySecs(windows, m)
           ranges == Normalized(Ranges(windows))
           p == NextStart(ranges, m)
<1>1. /\ ranges # {} /\ ~Inside(ranges, m)
      /\ d \in Moments /\ (m + d) % Day = p
  BY SleepLength
<1>2. p \in Moments /\ Inside(ranges, p)
  BY <1>1, NextStartBounds
<1>3. ~Allowed(windows, m)
  BY <1>1, AllowedIsInside
<1>4. d = FirstAllowed(windows, m)
  <2> DEFINE inside == {x \in Moments : Allowed(windows, (m + x) % Day)}
  <2>1. windows # {}
    BY <1>1 DEF Normalized, Ranges
  <2>2. d \in inside
    BY <1>1, <1>2, AllowedIsInside
  <2>3. ASSUME NEW x \in inside PROVE d <= x
    <3>1. SUFFICES ASSUME x < d PROVE FALSE
      BY <1>1, DayIsPositive DEF Moments
    <3>2. ~Inside(ranges, (m + x) % Day)
      BY <3>1, NothingMissed
    <3>3. (m + x) % Day \in Moments
      BY Later
    <3> QED
      BY <3>2, <3>3, AllowedIsInside
  <2>4. inside \in SUBSET Nat
    BY DayIsPositive DEF Moments
  <2>5. Min(inside) = d
    BY <2>2, <2>3, <2>4, MinIs
  <2> QED
    BY <2>1, <2>5 DEF FirstAllowed
<1>5. NextRunLocal(windows, m) = <<p \div MinutesPerHour, p % MinutesPerHour>>
  BY <1>1 DEF NextRunLocal, NextStart
<1>6. (p \div MinutesPerHour) * MinutesPerHour + (p % MinutesPerHour) = p
  <2>1. p \in Nat
    BY <1>2, DayIsPositive DEF Moments
  <2> HIDE DEF p
  <2> QED
    BY <2>1, HourAndMinute
<1> QED
  BY <1>1, <1>3, <1>4, <1>5, <1>6

-----------------------------------------------------------------------------
(* The inductive invariant *)

\* TypeOK, in the form the other parts need.
WorldType ==
  /\ schedule \in Schedules /\ setting \in Settings
  /\ now \in Moments
  /\ arrived \in 0..MaxNotes /\ read \subseteq 1..arrived

LoopType ==
  /\ marking \in BOOLEAN /\ stop \in BOOLEAN /\ due \in BOOLEAN
  /\ pc \in {"down", "top", "list", "send", "count", "mark", "topics", "pause"}
  /\ ids \subseteq Notes /\ sent \subseteq ids /\ todo \subseteq ids /\ items \subseteq ids
  /\ memory \subseteq Notes /\ dedupe \subseteq Notes

CountType ==
  /\ cycleSent \in Nat /\ stat \in Nat /\ open \in Nat /\ counted \in Nat
  /\ failures \in Nat /\ failures <= MaxFailures /\ harmed \in Nat
  /\ delivered \in [Notes -> Nat] /\ cut \in [Notes -> Nat]

TypeInv == WorldType /\ LoopType /\ CountType

\* A nap began outside the windows and ends when DelaySecs said.
NapInv ==
  nap # <<>> =>
    \E m \in Moments :
      DelaySecs(schedule, m) > 0 /\ nap = <<m, (m + DelaySecs(schedule, m)) % Day>>

\* Where the deliveries are recorded, and the other place is empty.
Recorded == IF setting.storage THEN dedupe ELSE memory

OnePlace == IF setting.storage THEN memory = {} ELSE dedupe = {}

\* A delivery that is recorded, or is about to be.
Remembered(n) == n \in Recorded \/ (pc = "send" /\ n \in items)

\* Every delivery but one is accounted for by what kept it from being recorded,
\* and that one is remembered, so that it is not repeated.
DeliveryInv ==
  /\ OnePlace
  /\ \A n \in Notes : delivered[n] <= cut[n] + IF Remembered(n) THEN 1 ELSE 0
  /\ \A n \in Recorded \cup sent \cup items : delivered[n] > 0
  /\ pc = "send" =>
       todo \cap (Recorded \cup items) = {} /\ items \cap Recorded = {}
  /\ pc = "mark" => ids \subseteq sent \cup items

InCycle == IF pc \in {"down", "top"} THEN 0 ELSE 1

\* In stat, and not yet in counted; and in dedupe, and not yet in stat.
Uncounted ==
  IF pc = "mark" THEN Cardinality(items) ELSE IF pc \in {"topics", "pause"} THEN cycleSent ELSE 0
Unstated == IF pc = "count" THEN Cardinality(items) ELSE 0

CycleInv ==
  /\ setting.storage => InCycle <= open /\ open <= InCycle + harmed
  /\ ~setting.storage => open = 0 /\ stat = 0 /\ counted = 0
  /\ pc \in {"list", "send", "count", "mark"} => cycleSent = 0
  /\ setting.storage =>
       counted + Uncounted <= stat /\ stat + Unstated <= Cardinality(dedupe)
  /\ failures = 0 => pc # "down" /\ ~stop
  /\ failures = 0 /\ setting.storage =>
       counted + Uncounted = stat /\ stat + Unstated = Cardinality(dedupe)

Inv == TypeInv /\ NapInv /\ DeliveryInv /\ CycleInv

LEMMA InitInv == Init => Inv
<1> SUFFICES ASSUME Init PROVE Inv
  OBVIOUS
<1> USE LoopAssumption, ScheduleAssumption DEF Init
<1>1. TypeInv
  <2>1. now \in Moments
    BY DayIsPositive DEF Moments
  <2>2. WorldType
    BY <2>1 DEF WorldType
  <2>3. LoopType
    BY DEF LoopType
  <2>4. CountType
    BY DEF CountType
  <2> QED
    BY <2>2, <2>3, <2>4 DEF TypeInv
<1>2. Cardinality({}) = 0
  BY FS_EmptySet
<1> QED
  BY <1>1, <1>2 DEF Inv, NapInv, DeliveryInv, OnePlace, Recorded, Remembered, CycleInv, InCycle,
    Uncounted, Unstated, Notes

\* Sets of notifications are finite.
LEMMA Count ==
  ASSUME NEW S \in SUBSET Notes
  PROVE  IsFiniteSet(S) /\ Cardinality(S) \in Nat
<1>1. IsFiniteSet(Notes)
  BY LoopAssumption, FS_Interval DEF Notes
<1>2. IsFiniteSet(S)
  BY <1>1, FS_Subset
<1> QED
  BY <1>2, FS_CardinalityType

\* Sets of notifications that share none count together as each alone.
LEMMA CountBoth ==
  ASSUME NEW S \in SUBSET Notes, NEW T \in SUBSET Notes, S \cap T = {}
  PROVE  Cardinality(S \cup T) = Cardinality(S) + Cardinality(T)
<1>1. /\ IsFiniteSet(S) /\ IsFiniteSet(T)
      /\ Cardinality(S) \in Nat /\ Cardinality(T) \in Nat
  BY Count
<1>2. Cardinality(S \cup T) = Cardinality(S) + Cardinality(T) - Cardinality(S \cap T)
  BY <1>1, FS_Union
<1>3. Cardinality(S \cap T) = 0
  BY FS_EmptySet
<1> QED
  BY <1>1, <1>2, <1>3

\* Once a cycle has begun, FinishWatchCycle has one to close.
LEMMA Finishes ==
  ASSUME Inv, FinishWatchCycle, pc \notin {"down", "top"}
  PROVE  open' \in Nat /\ counted' \in Nat
BY DEF Inv, TypeInv, CountType, CycleInv, InCycle, FinishWatchCycle

LEMMA WorldStep ==
  ASSUME Inv, [Next]_vars
  PROVE  WorldType'
<1> USE LoopAssumption DEF WorldType, config, site, poll, store, history
<1> WorldType
  BY DEF Inv, TypeInv
<1>1. CASE Tick
  <2>1. (now + 1) % Day \in Moments
    BY DayIsPositive DEF Moments
  <2> QED
    BY <1>1, <2>1 DEF Tick
<1>2. CASE Arrive \/ SiteMarks
  <2>1. CASE Arrive
    <3>1. arrived + 1 \in 0..MaxNotes /\ 1..arrived \subseteq 1..(arrived + 1)
      BY <2>1 DEF Arrive
    <3> QED
      BY <2>1, <3>1 DEF Arrive
  <2>2. CASE SiteMarks
    BY <2>2 DEF SiteMarks
  <2> QED
    BY <1>2, <2>1, <2>2
<1>3. CASE UNCHANGED <<config, now, arrived, read>>
  BY <1>3
<1>4. ASSUME NEW n \in Notes, Send(n) \/ SendFails(n) PROVE WorldType'
  BY <1>3, <1>4 DEF Send, SendFails
<1>5. CASE Quit \/ Sleep \/ Wake \/ BeginWatchCycle \/ GetNotifications \/ Record \/ CountSent
  BY <1>3, <1>5 DEF Quit, Sleep, Wake, BeginWatchCycle, GetNotifications, Record, CountSent
<1>6. CASE MarkedRead \/ Topics \/ EndCycle \/ Start \/ StartProcess \/ NotifyDue \/ Stop
  BY <1>3, <1>6 DEF MarkedRead, Topics, EndCycle, Start, StartProcess, NotifyDue, Stop
<1>7. CASE PollTimesOut \/ RequestFails \/ StoreFails \/ Crash \/ UNCHANGED vars
  BY <1>3, <1>7 DEF PollTimesOut, RequestFails, StoreFails, Crash, vars
<1> QED
  BY <1>1, <1>2, <1>4, <1>5, <1>6, <1>7 DEF Next, LoopStep

LEMMA LoopTypeStep ==
  ASSUME Inv, [Next]_vars
  PROVE  LoopType'
<1> USE DEF LoopType, config, site, poll, store, history, Forgotten, MarkFails
<1> LoopType
  BY DEF Inv, TypeInv
<1>1. CASE Quit \/ Wake \/ Sleep \/ BeginWatchCycle \/ Topics \/ EndCycle \/ Start \/ StartProcess
  BY <1>1 DEF Quit, Wake, Sleep, BeginWatchCycle, Topics, EndCycle, Start, StartProcess
<1>2. CASE GetNotifications
  <2>1. Page \ read \subseteq Notes
    BY LoopAssumption DEF Page, Notes, Inv, TypeInv, WorldType
  <2> QED
    BY <1>2, <2>1 DEF GetNotifications, Polled, Known
<1>3. ASSUME NEW n \in Notes, Send(n) \/ SendFails(n) PROVE LoopType'
  BY <1>3 DEF Send, SendFails, Unsent
<1>4. CASE Record \/ CountSent \/ MarkedRead
  BY <1>4 DEF Record, CountSent, MarkedRead, Polled
<1>5. CASE Arrive \/ SiteMarks \/ Tick \/ NotifyDue \/ Stop
  BY <1>5 DEF Arrive, SiteMarks, Tick, NotifyDue, Stop
<1>6. CASE PollTimesOut \/ RequestFails \/ StoreFails \/ Crash \/ UNCHANGED vars
  BY <1>6 DEF PollTimesOut, Polled, RequestFails, StoreFails, Crash, vars
<1> QED
  BY <1>1, <1>2, <1>3, <1>4, <1>5, <1>6 DEF Next, LoopStep

LEMMA CountTypeStep ==
  ASSUME Inv, [Next]_vars
  PROVE  CountType'
<1> USE LoopAssumption DEF CountType, config, site, poll, store, history, Failure
<1> CountType
  BY DEF Inv, TypeInv
<1>1. CASE Quit \/ Wake \/ Sleep \/ BeginWatchCycle \/ Topics \/ Start \/ Record
  BY <1>1 DEF Quit, Wake, Sleep, BeginWatchCycle, Reset, Topics, Start, Record
<1>2. CASE GetNotifications
  BY <1>2 DEF GetNotifications, Polled
<1>3. ASSUME NEW n \in Notes, Send(n) \/ SendFails(n) PROVE CountType'
  BY <1>3 DEF Send, SendFails
<1>4. CASE CountSent \/ MarkedRead
  <2>1. Cardinality(items) \in Nat
    BY Count DEF Inv, TypeInv, LoopType
  <2> QED
    BY <1>4, <2>1 DEF CountSent, MarkedRead, Polled
<1>5. CASE EndCycle
  <2>1. open' \in Nat /\ counted' \in Nat
    BY <1>5, Finishes DEF EndCycle
  <2> QED
    BY <1>5, <2>1 DEF EndCycle
<1>6. CASE Arrive \/ SiteMarks \/ Tick \/ NotifyDue \/ Stop \/ PollTimesOut \/ UNCHANGED vars
  BY <1>6, SMTT(30)
  DEF Arrive, SiteMarks, Tick, NotifyDue, Stop, PollTimesOut, Polled, vars
<1>7. CASE RequestFails
  <2>1. open' \in Nat /\ counted' \in Nat
    BY <1>7, Finishes DEF RequestFails
  <2> QED
    BY <1>7, <2>1 DEF RequestFails
<1>8. ASSUME NEW notes, Lose(notes) PROVE cut' \in [Notes -> Nat]
  BY <1>8 DEF Lose
<1>9. CASE StoreFails
  <2>1. open' \in Nat /\ counted' \in Nat
    BY <1>9, Finishes DEF StoreFails
  <2>2. cut' \in [Notes -> Nat]
    BY <1>8, <1>9 DEF StoreFails
  <2> QED
    BY <1>9, <2>1, <2>2 DEF StoreFails
<1>10. CASE Crash
  <2>1. cut' \in [Notes -> Nat]
    BY <1>8, <1>10 DEF Crash
  <2> QED
    BY <1>10, <2>1 DEF Crash
<1>11. CASE StartProcess
  <2>1. cut' \in [Notes -> Nat]
    BY <1>8, <1>11 DEF StartProcess
  <2> QED
    BY <1>11, <2>1 DEF StartProcess
<1> QED
  BY <1>1, <1>2, <1>3, <1>4, <1>5, <1>6, <1>7, <1>9, <1>10, <1>11 DEF Next, LoopStep

LEMMA TypeStep ==
  ASSUME Inv, [Next]_vars
  PROVE  TypeInv'
BY WorldStep, LoopTypeStep, CountTypeStep DEF TypeInv

LEMMA NapStep ==
  ASSUME Inv, [Next]_vars
  PROVE  NapInv'
<1> USE DEF NapInv, config, site, poll, store, history
<1> NapInv /\ TypeInv
  BY DEF Inv
<1>1. CASE Sleep
  BY <1>1 DEF Sleep, TypeInv, WorldType
<1>2. CASE Wake \/ Crash
  BY <1>2 DEF Wake, Crash
<1>3. CASE UNCHANGED <<schedule, nap>>
  BY <1>3
<1>4. ASSUME NEW n \in Notes, Send(n) \/ SendFails(n) PROVE NapInv'
  BY <1>3, <1>4 DEF Send, SendFails
<1>5. CASE Quit \/ BeginWatchCycle \/ GetNotifications \/ Record \/ CountSent \/ MarkedRead
  BY <1>3, <1>5 DEF Quit, BeginWatchCycle, GetNotifications, Record, CountSent, MarkedRead
<1>6. CASE Topics \/ EndCycle \/ Start \/ StartProcess \/ Arrive \/ SiteMarks \/ Tick \/ NotifyDue \/ Stop
  BY <1>3, <1>6 DEF Topics, EndCycle, Start, StartProcess, Arrive, SiteMarks, Tick, NotifyDue, Stop
<1>7. CASE PollTimesOut \/ RequestFails \/ StoreFails \/ UNCHANGED vars
  BY <1>3, <1>7 DEF PollTimesOut, RequestFails, StoreFails, vars
<1> QED
  BY <1>1, <1>2, <1>4, <1>5, <1>6, <1>7 DEF Next, LoopStep

LEMMA DeliveryStep ==
  ASSUME Inv, [Next]_vars
  PROVE  DeliveryInv'
<1> USE DEF config, site, poll, store, history
<1> DeliveryInv /\ CountType /\ LoopType
  BY DEF Inv, TypeInv
<1> USE DEF DeliveryInv, OnePlace, Recorded, Remembered
\* Nothing about deliveries changes.
<1>1. ASSUME UNCHANGED <<setting, poll, memory, dedupe, delivered, cut>>,
             pc' = pc \/ (pc # "send" /\ pc' \notin {"send", "mark"})
      PROVE  DeliveryInv'
  BY <1>1
\* The poll is over.
<1>2. ASSUME UNCHANGED <<setting, memory, dedupe, delivered, cut>>, Forgotten,
             pc # "send", pc' \notin {"send", "mark"}
      PROVE  DeliveryInv'
  BY <1>2 DEF Forgotten
<1>3. CASE Quit \/ Sleep \/ Wake \/ BeginWatchCycle \/ Topics \/ EndCycle \/ Start
  BY <1>1, <1>3 DEF Quit, Sleep, Wake, BeginWatchCycle, Topics, EndCycle, Start
<1>4. CASE Arrive \/ SiteMarks \/ Tick \/ NotifyDue \/ Stop \/ UNCHANGED vars
  BY <1>1, <1>4 DEF Arrive, SiteMarks, Tick, NotifyDue, Stop, vars
<1>5. CASE GetNotifications
  <2>1. CASE Page \ read = {}
    BY <1>2, <1>5, <2>1 DEF GetNotifications, Polled
  <2>2. CASE Page \ read # {}
    <3>1. /\ todo' \cap Recorded = {} /\ items' = {} /\ sent' \subseteq Recorded
          /\ pc = "list" /\ pc' = "send"
          /\ UNCHANGED <<setting, memory, dedupe, delivered, cut>>
      BY <1>5, <2>2 DEF GetNotifications, Known
    <3> QED
      BY <3>1
  <2> QED
    BY <2>1, <2>2
<1>6. ASSUME NEW n \in Notes, Send(n) PROVE DeliveryInv'
  BY <1>6 DEF Send, CountType
<1>7. ASSUME NEW n \in Notes, SendFails(n) PROVE DeliveryInv'
  <2>1. /\ pc = "send" /\ pc' = "send" /\ todo' \subseteq todo
        /\ UNCHANGED <<setting, memory, dedupe, sent, items>>
    BY <1>7 DEF SendFails, Unsent
  <2>2. CASE UNCHANGED <<delivered, cut>>
    BY <2>1, <2>2
  <2>3. CASE /\ delivered' = [delivered EXCEPT ![n] = @ + 1]
             /\ cut' = [cut EXCEPT ![n] = @ + 1]
    <3>1. \A m \in Notes :
            /\ delivered'[m] <= cut'[m] + IF Remembered(m) THEN 1 ELSE 0
            /\ delivered[m] > 0 => delivered'[m] > 0
      BY <2>3 DEF CountType
    <3>2. items \cup sent \cup memory \cup dedupe \subseteq Notes
      BY DEF LoopType
    <3> QED
      BY <2>1, <3>1, <3>2
  <2> QED
    BY <1>7, <2>2, <2>3 DEF SendFails
<1>8. CASE Record
  <2>1. /\ Recorded' = Recorded \cup items
        /\ pc = "send" /\ pc' = "count"
        /\ UNCHANGED <<setting, sent, items, delivered, cut>>
    BY <1>8 DEF Record
  <2>2. OnePlace'
    BY <1>8 DEF Record
  <2> QED
    BY <2>1, <2>2
<1>9. CASE CountSent
  <2>1. CASE setting.autoMarkRead /\ AllSent
    BY <1>9, <2>1 DEF CountSent, AllSent
  <2>2. CASE ~(setting.autoMarkRead /\ AllSent)
    BY <1>2, <1>9, <2>2 DEF CountSent, Polled
  <2> QED
    BY <2>1, <2>2
<1>10. CASE MarkedRead \/ PollTimesOut \/ RequestFails
  BY <1>2, <1>10 DEF MarkedRead, PollTimesOut, RequestFails, Polled
\* What is lost with the loop, or with its memory, is accounted for in cut.
<1>11. ASSUME NEW lost \in SUBSET Notes, Lose(lost), NEW n \in Notes
       PROVE  cut'[n] = cut[n] + IF n \in lost THEN 1 ELSE 0
  BY <1>11 DEF Lose
<1>12. CASE StoreFails
  <2>1. /\ setting.storage /\ memory = {} /\ pc' = "down" /\ Forgotten
        /\ UNCHANGED <<setting, memory, dedupe, delivered>>
    BY <1>12 DEF StoreFails
  <2>2. CASE pc = "send"
    <3>1. Lose(items)
      BY <1>12, <2>2 DEF StoreFails
    <3>2. items \in SUBSET Notes
      BY DEF LoopType
    <3>3. \A n \in Notes : cut'[n] = cut[n] + IF n \in items THEN 1 ELSE 0
      BY <1>11, <3>1, <3>2
    <3> QED
      BY <2>1, <2>2, <3>3 DEF Forgotten, CountType
  <2>3. CASE pc # "send"
    <3>1. Lose({}) \/ UNCHANGED cut
      BY <1>12, <2>3 DEF StoreFails
    <3>2. \A n \in Notes : cut'[n] = cut[n]
      BY <1>11, <3>1 DEF CountType
    <3> QED
      BY <2>1, <2>3, <3>2 DEF Forgotten, CountType
  <2> QED
    BY <2>2, <2>3
<1>13. CASE Crash
  <2> DEFINE lost == memory \cup IF pc = "send" THEN items ELSE {}
  <2>1. /\ memory' = {} /\ pc' = "down" /\ Forgotten /\ Lose(lost)
        /\ UNCHANGED <<setting, dedupe, delivered>>
    BY <1>13 DEF Crash
  <2>2. lost \in SUBSET Notes
    BY DEF LoopType
  <2>3. \A n \in Notes : cut'[n] = cut[n] + IF n \in lost THEN 1 ELSE 0
    BY <1>11, <2>1, <2>2
  <2> QED
    BY <2>1, <2>3 DEF Forgotten, CountType
<1>14. CASE StartProcess
  <2>1. /\ memory' = {} /\ pc = "down" /\ pc' = "top" /\ Lose(memory)
        /\ UNCHANGED <<setting, dedupe, delivered, sent, todo, items, ids>>
    BY <1>14 DEF StartProcess
  <2>2. \A n \in Notes : cut'[n] = cut[n] + IF n \in memory THEN 1 ELSE 0
    BY <1>11, <2>1 DEF LoopType
  <2> QED
    BY <2>1, <2>2 DEF CountType
<1> QED
  BY <1>3, <1>4, <1>5, <1>6, <1>7, <1>8, <1>9, <1>10, <1>12, <1>13, <1>14 DEF Next, LoopStep

LEMMA CycleStep ==
  ASSUME Inv, [Next]_vars
  PROVE  CycleInv'
<1> USE DEF config, site, poll, store, history
<1> CycleInv /\ CountType /\ LoopType
  BY DEF Inv, TypeInv
<1> USE DEF CycleInv, InCycle, Uncounted, Unstated, CountType
<1>1. Cardinality(items) \in Nat /\ Cardinality(dedupe) \in Nat /\ failures \in Nat
  BY Count DEF LoopType
\* The cycle, if there is one, goes on and no number changes.
<1>2. ASSUME UNCHANGED <<setting, store, failures, harmed, stop, cycleSent>>,
             \/ pc' = pc /\ UNCHANGED items
             \/ pc = "list" /\ pc' \in {"send", "topics"}
             \/ pc = "topics" /\ pc' = "pause"
      PROVE  CycleInv'
  BY <1>2
<1>3. CASE Sleep \/ Wake \/ GetNotifications \/ Topics \/ UNCHANGED vars
  BY <1>2, <1>3 DEF Sleep, Wake, GetNotifications, Polled, Topics, vars
<1>4. CASE Arrive \/ SiteMarks \/ NotifyDue
  BY <1>2, <1>4 DEF Arrive, SiteMarks, NotifyDue
\* A failure leaves nothing to say of a run without failures.
<1>5. ASSUME Failure PROVE failures' # 0
  BY <1>1, <1>5 DEF Failure
<1>6. CASE Tick
  <2>1. CASE UNCHANGED failures
    BY <1>2, <1>6, <2>1 DEF Tick
  <2>2. CASE Failure
    BY <1>5, <1>6, <2>2 DEF Tick
  <2> QED
    BY <1>6, <2>1, <2>2 DEF Tick
<1>7. CASE Stop
  BY <1>5, <1>7 DEF Stop
<1>8. CASE Quit \/ Start \/ StartProcess
  BY <1>8 DEF Quit, Start, StartProcess
<1>9. CASE BeginWatchCycle
  BY <1>9 DEF BeginWatchCycle, Reset
<1>10. ASSUME NEW n \in Notes, Send(n) PROVE CycleInv'
  BY <1>10 DEF Send
<1>11. ASSUME NEW n \in Notes, SendFails(n) PROVE CycleInv'
  BY <1>5, <1>11 DEF SendFails
<1>12. CASE Record
  <2>1. setting.storage => Cardinality(dedupe \cup items) = Cardinality(dedupe) + Cardinality(items)
    BY <1>12, CountBoth DEF Record, LoopType, Inv, DeliveryInv, Recorded
  <2> QED
    BY <1>1, <1>12, <2>1 DEF Record
<1>13. CASE CountSent
  BY <1>1, <1>13 DEF CountSent, Polled
<1>14. CASE MarkedRead
  BY <1>1, <1>14 DEF MarkedRead, Polled
<1>15. CASE PollTimesOut
  BY <1>1, <1>5, <1>15 DEF PollTimesOut, Polled
<1>16. CASE EndCycle
  BY <1>1, <1>16 DEF EndCycle, FinishWatchCycle
<1>17. CASE RequestFails
  BY <1>1, <1>5, <1>17 DEF RequestFails, FinishWatchCycle
<1>18. CASE StoreFails
  BY <1>1, <1>5, <1>18, SMTT(30) DEF StoreFails, FinishWatchCycle
<1>19. CASE Crash
  BY <1>1, <1>5, <1>19 DEF Crash
<1> QED
  BY <1>3, <1>4, <1>6, <1>7, <1>8, <1>9, <1>10, <1>11, <1>12, <1>13, <1>14, <1>15, <1>16, <1>17,
    <1>18, <1>19 DEF Next, LoopStep

-----------------------------------------------------------------------------
(* Theorems *)

LEMMA Invariance == Spec => []Inv
<1>1. Inv /\ [Next]_vars => Inv'
  BY TypeStep, NapStep, DeliveryStep, CycleStep DEF Inv
<1> QED
  BY <1>1, InitInv, PTL DEF Spec

\* What the loop keeps and what the store holds always have their types: a page
\* is of notifications that arrived, what is sent is of the page, and no count
\* falls below zero, so that finish_watch_cycle never closes a cycle that was
\* not open.
THEOREM TypesHold == Spec => []TypeOK
<1>1. Inv => TypeOK
  BY LoopAssumption DEF Inv, TypeInv, WorldType, LoopType, CountType, TypeOK
<1> QED
  BY <1>1, Invariance, PTL

\* A notification is delivered once, and once more for each crash, failure of
\* the store or lost answer that kept the loop from recording it, or end of a
\* process whose memory was the only record: over any number of cycles, and with
\* a store over any number of new processes.
THEOREM DeliveredOnce == Spec => []DeliveredOncePerCut
<1>1. Inv => DeliveredOncePerCut
  BY DEF Inv, TypeInv, CountType, DeliveryInv, DeliveredOncePerCut
<1> QED
  BY <1>1, Invariance, PTL

\* The request to mark everything as read is made when no notification of the
\* page is undelivered, in this cycle or an earlier one.
THEOREM MarkedOnceDelivered == Spec => []MarkedWereDelivered
<1>1. Inv => MarkedWereDelivered
  BY DEF Inv, DeliveryInv, MarkedWereDelivered
<1> QED
  BY <1>1, Invariance, PTL

\* The cycles, the statistics and the table of notifications sent agree but for
\* what a crash or a failure left behind.
THEOREM CyclesAgree == Spec => []CyclesAddUp
<1>1. Inv => CyclesAddUp
  <2>1. CASE setting.storage
    BY <2>1, Count DEF Inv, TypeInv, LoopType, CountType, CycleInv, InCycle, Uncounted, Unstated,
      CyclesAddUp
  <2>2. CASE ~setting.storage
    BY <2>2, Count DEF Inv, TypeInv, LoopType, CountType, CycleInv, CyclesAddUp
  <2> QED
    BY <2>1, <2>2
<1> QED
  BY <1>1, Invariance, PTL

\* Whatever the windows, and the one at midnight included, the loop sleeps from
\* a minute outside of them to the first one inside, which is also the time
\* that GET /watch/status reports.
THEOREM WakesInTime == Spec => []WakesAtNextWindow
<1>1. Inv => WakesAtNextWindow
  <2> SUFFICES ASSUME Inv, nap # <<>> PROVE WakesAtNextWindow
    BY DEF WakesAtNextWindow
  <2>1. PICK m \in Moments :
          DelaySecs(schedule, m) > 0 /\ nap = <<m, (m + DelaySecs(schedule, m)) % Day>>
    BY DEF Inv, NapInv
  <2>2. Valid(schedule)
    BY LoopAssumption DEF Valid, Inv, TypeInv, WorldType
  <2> QED
    BY <2>1, <2>2, SleepIsRight DEF WakesAtNextWindow
<1> QED
  BY <1>1, Invariance, PTL

-----------------------------------------------------------------------------
(* What NotesDelivered rests on.                                            *)

\* What the loop or the store remembers as sent has been sent, so that a
\* notification whose sending failed is tried again by the next poll; and a
\* poll that met no failure leaves none of its page undelivered.
NonePassedOver ==
  /\ \A n \in dedupe \cup memory : delivered[n] > 0
  /\ failures = 0 /\ pc \in {"count", "mark"} => \A n \in ids : delivered[n] > 0

\* A notification of the page was sent before, is still to be sent, or was sent
\* by this poll.
PollInv ==
  failures = 0 =>
    /\ pc = "send" => ids \subseteq sent \cup todo \cup items
    /\ pc \in {"count", "mark"} => ids \subseteq sent \cup items

\* Only a failure takes a notification out of a poll before it is sent.
LEMMA PollStep == Inv /\ PollInv /\ [Next]_vars => PollInv'
<1> SUFFICES ASSUME Inv, PollInv, [Next]_vars PROVE PollInv'
  OBVIOUS
<1> USE DEF PollInv
<1>1. CASE Quit \/ Sleep \/ Wake \/ BeginWatchCycle \/ Topics \/ EndCycle \/ Start
            \/ StartProcess
  BY <1>1
  DEF Quit, Sleep, Wake, BeginWatchCycle, Topics, EndCycle, Start, StartProcess, poll
<1>2. CASE GetNotifications
  BY <1>2 DEF GetNotifications, Polled
<1>3. CASE \E n \in Notes : Send(n)
  BY <1>3 DEF Send
<1>4. CASE Record
  BY <1>4 DEF Record, poll
<1>5. CASE CountSent \/ MarkedRead
  BY <1>5 DEF CountSent, MarkedRead, Polled, poll
<1>6. CASE Arrive \/ SiteMarks \/ NotifyDue
  BY <1>6 DEF Arrive, SiteMarks, NotifyDue, poll
<1>7. CASE Tick
  BY <1>7 DEF Tick, Failure, Inv, TypeInv, CountType, poll
<1>8. CASE Stop \/ PollTimesOut \/ RequestFails \/ StoreFails \/ Crash
  BY <1>8
  DEF Stop, PollTimesOut, RequestFails, StoreFails, Crash, Failure, Inv, TypeInv, CountType
<1>9. CASE \E n \in Notes : SendFails(n)
  BY <1>9 DEF SendFails, Failure, Inv, TypeInv, CountType
<1>10. CASE UNCHANGED vars
  BY <1>10 DEF vars, poll
<1> QED
  BY <1>1, <1>2, <1>3, <1>4, <1>5, <1>6, <1>7, <1>8, <1>9, <1>10 DEF Next, LoopStep

\* No poll forgets a notification: it delivers it, or leaves it unrecorded for
\* the next one, whatever fails, with a store or without.
THEOREM NoneForgotten == Spec => []NonePassedOver
<1>1. Init => PollInv
  BY DEF Init, PollInv
<1>2. Inv /\ PollInv => NonePassedOver
  BY DEF Inv, TypeInv, LoopType, DeliveryInv, OnePlace, Recorded, PollInv, NonePassedOver
<1> QED
  BY <1>1, <1>2, PollStep, Invariance, PTL DEF Spec

=============================================================================
