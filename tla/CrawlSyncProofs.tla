---------------------------- MODULE CrawlSyncProofs ----------------------------
(***************************************************************************)
(* The progress of a topic is never ahead of the store, and a cycle keeps  *)
(* to its budget, for any topics, page and batch sizes, budget and number  *)
(* of posts.                                                               *)
(***************************************************************************)
EXTENDS CrawlSync, FiniteSetTheorems, WellFoundedInduction, TLAPS

\* The shape of the variables the argument is about.  The budget is not among
\* them: only the fact that it cut a topic matters.
Shape ==
  /\ stream \in [Topics -> SUBSET Posts]
  /\ highest \in [Topics -> Nat]
  /\ stored \in [Topics -> SUBSET Posts]
  /\ synced \in [Topics -> Nat]
  /\ seenHighest \in Nat
  /\ pc \in {"entered", "fetching"} => topic \in Topics

\* Posts and progress are bounded by the highest post number of the server, so
\* that a new reply is always above the progress.
Bounded ==
  \A t \in Topics :
    /\ \A p \in stream[t] : p <= highest[t]
    /\ synced[t] <= highest[t]

\* What the visit knows: the posts up to the number it has seen are those in
\* the stream it has seen, and while it fetches, these are stored or missing.
VisitInv ==
  /\ pc \in {"entered", "fetching"} =>
       /\ seenHighest <= highest[topic]
       /\ seenStream \subseteq Posts
       /\ \A p \in seenStream : p <= seenHighest
       /\ \A p \in stream[topic] : p <= seenHighest => p \in seenStream
  /\ pc = "fetching" /\ topic \notin cut =>
       \A p \in seenStream \cap stream[topic] : p \in stored[topic] \cup missing

Inv == Shape /\ Bounded /\ VisitInv /\ SyncedMeansStored

-----------------------------------------------------------------------------

\* The first posts of a list are posts of the list.
LEMMA FirstOfSubset == \A S, n : FirstOf(S, n) \subseteq S
  BY DEF FirstOf

\* The invariant holds initially.
LEMMA InitInv == Init => Inv
  BY DEF Init, Inv, Shape, Bounded, VisitInv, SyncedMeansStored, Posts

\* A visit that ends leaves no trace but in the store.
LEMMA LeaveLemma ==
  ASSUME NEW b, LeaveTopic(b), Shape
  PROVE  pc' \in {"idle", "topics"} /\ seenHighest' \in Nat
  BY DEF LeaveTopic, NoVisit

-----------------------------------------------------------------------------
(* The server                                                               *)

\* Reply preserves the invariant.
LEMMA ReplyInv == ASSUME Inv, NEW t \in Topics, Reply(t) PROVE Inv'
<1> DEFINE new == highest[t] + 1
<1>1. /\ new \in Posts /\ new \in Nat /\ highest[t] \in Nat /\ new > highest[t]
      /\ highest' = [highest EXCEPT ![t] = new]
      /\ stream' = [stream EXCEPT ![t] = @ \cup {new}]
      /\ UNCHANGED <<stored, synced, topic, seenStream, seenHighest, missing, pc, cut>>
  BY CrawlAssumption DEF Reply, store, visit, Inv, Shape, Posts
<1> HIDE DEF new
<1>2. stream' \in [Topics -> SUBSET Posts] /\ highest' \in [Topics -> Nat]
  BY <1>1 DEF Inv, Shape
<1>3. \A u \in Topics : \A p \in stream'[u] : p \in stream[u] \/ (u = t /\ p = new)
  BY <1>1 DEF Inv, Shape
<1>4. \A u \in Topics : highest'[u] = IF u = t THEN new ELSE highest[u]
  BY <1>1 DEF Inv, Shape
<1>5. Shape'
  BY <1>1, <1>2 DEF Inv, Shape
<1>6. Bounded'
  BY <1>1, <1>3, <1>4 DEF Inv, Shape, Bounded, Posts
<1>7. VisitInv'
  <2>1. ASSUME pc \in {"entered", "fetching"}
        PROVE  /\ topic \in Topics /\ seenHighest <= highest'[topic]
               /\ topic = t => new > seenHighest /\ new \notin seenStream
    BY <2>1, <1>1, <1>4 DEF Inv, Shape, VisitInv
  <2>2. ASSUME pc \in {"entered", "fetching"}, NEW p \in stream'[topic],
               p <= seenHighest \/ p \in seenStream
        PROVE  p \in stream[topic]
    BY <2>1, <2>2, <1>1, <1>3 DEF Inv, Shape
  <2> QED
    BY <2>1, <2>2, <1>1 DEF Inv, VisitInv
<1>8. SyncedMeansStored'
  BY <1>1, <1>3, <1>4 DEF Inv, Shape, Bounded, SyncedMeansStored
<1> QED
  BY <1>5, <1>6, <1>7, <1>8 DEF Inv

\* Delete preserves the invariant.
LEMMA DeleteInv == ASSUME Inv, NEW t \in Topics, NEW p \in Posts, Delete(t, p) PROVE Inv'
  BY DEF Delete, visit, store, Inv, Shape, Bounded, VisitInv, SyncedMeansStored

-----------------------------------------------------------------------------
(* The watch thread                                                         *)

\* Steps that touch neither server nor store, and end a visit or begin none.
LEMMA OutsideInv ==
  ASSUME Inv, UNCHANGED <<server, store, cut>>,
         pc' \in {"idle", "topics"}, seenHighest' \in Nat
  PROVE  Inv'
  BY DEF server, store, Inv, Shape, Bounded, VisitInv, SyncedMeansStored

\* EnterTopic preserves the invariant.
LEMMA EnterTopicInv == ASSUME Inv, NEW t \in Topics, EnterTopic(t) PROVE Inv'
<1>1. stored'[t] = stored[t] \cup FirstOf(stream[t], PageSize)
  BY DEF EnterTopic, Inv, Shape
<1>2. Shape'
  BY FirstOfSubset DEF EnterTopic, server, Inv, Shape
<1>3. Bounded' /\ VisitInv'
  BY DEF EnterTopic, server, Inv, Shape, Bounded, VisitInv
<1>4. SyncedMeansStored'
  BY <1>1 DEF EnterTopic, server, Inv, Shape, SyncedMeansStored
<1> QED
  BY <1>2, <1>3, <1>4 DEF Inv

\* Progress may be recorded when the posts seen are stored, or the topic cut.
LEMMA RecordLemma ==
  ASSUME Inv, pc \in {"entered", "fetching"},
         synced' = [synced EXCEPT ![topic] = seenHighest],
         topic \in cut \/ \A p \in seenStream \cap stream[topic] : p \in stored[topic],
         UNCHANGED <<server, stored, cut>>,
         pc' \in {"idle", "topics"}, seenHighest' \in Nat
  PROVE  Inv'
<1>1. topic \in Topics /\ seenHighest \in Nat /\ seenHighest <= highest[topic]
  BY DEF Inv, Shape, VisitInv
<1>2. Shape' /\ Bounded' /\ VisitInv'
  BY <1>1 DEF server, Inv, Shape, Bounded, VisitInv
<1>3. topic \notin cut => \A p \in stream[topic] : p <= seenHighest => p \in stored[topic]
  BY DEF Inv, VisitInv
<1>4. SyncedMeansStored'
  BY <1>1, <1>3 DEF server, Inv, Shape, SyncedMeansStored
<1> QED
  BY <1>2, <1>4 DEF Inv

\* Plan preserves the invariant.
LEMMA PlanInv == ASSUME Inv, Plan PROVE Inv'
<1>1. CASE /\ Lacking = {}
           /\ synced' = [synced EXCEPT ![topic] = seenHighest]
           /\ LeaveTopic(left)
           /\ UNCHANGED cut
  <2>1. \A p \in seenStream : p \in stored[topic]
    BY <1>1 DEF Lacking
  <2> QED
    BY <1>1, <2>1, LeaveLemma, RecordLemma DEF Plan, Inv
<1>2. CASE LeaveTopic(left) /\ UNCHANGED <<synced, cut>>
  BY <1>2, LeaveLemma, OutsideInv DEF Plan, store, Inv
<1>3. CASE /\ missing' = Affordable
           /\ cut' = IF Affordable = Lacking THEN cut ELSE cut \cup {topic}
           /\ pc' = "fetching"
           /\ UNCHANGED <<synced, topic, seenStream, seenHighest, left, todo, remaining>>
  <2>1. UNCHANGED <<server, stored>> /\ pc = "entered"
    BY DEF Plan
  <2>2. Shape' /\ Bounded'
    BY <1>3, <2>1 DEF server, Inv, Shape, Bounded
  <2>3. topic' \notin cut' => missing' = seenStream \ stored[topic]
    BY <1>3 DEF Lacking
  <2>4. VisitInv'
    BY <1>3, <2>1, <2>3 DEF server, Inv, VisitInv
  <2>5. SyncedMeansStored'
    BY <1>3, <2>1 DEF server, Inv, SyncedMeansStored
  <2> QED
    BY <2>2, <2>4, <2>5 DEF Inv
<1> QED
  BY <1>1, <1>2, <1>3 DEF Plan

\* FetchBatch preserves the invariant.
LEMMA FetchBatchInv == ASSUME Inv, FetchBatch PROVE Inv'
<1>1. /\ pc = "fetching" /\ topic \in Topics
      /\ stored' = [stored EXCEPT ![topic] = @ \cup (Batch \cap stream[topic])]
      /\ UNCHANGED <<server, synced, cut>>
  BY DEF FetchBatch, Inv, Shape
<1>2. Bounded' /\ SyncedMeansStored'
  BY <1>1 DEF server, Inv, Shape, Bounded, SyncedMeansStored
<1>3. stored' \in [Topics -> SUBSET Posts]
  BY <1>1 DEF Inv, Shape
<1>4. CASE LeaveTopic(Charged)
  <2>1. pc' \in {"idle", "topics"} /\ seenHighest' \in Nat
    BY <1>4, LeaveLemma DEF Inv
  <2> QED
    BY <1>1, <1>2, <1>3, <2>1 DEF server, Inv, Shape, VisitInv
<1>5. CASE missing' = missing \ Batch /\ UNCHANGED <<topic, seenStream, seenHighest, pc>>
  <2>1. Shape'
    BY <1>1, <1>3, <1>5 DEF server, Inv, Shape
  <2>2. VisitInv'
    BY <1>1, <1>5 DEF server, Inv, Shape, VisitInv
  <2> QED
    BY <1>2, <2>1, <2>2 DEF Inv
<1> QED
  BY <1>4, <1>5 DEF FetchBatch

\* RecordProgress preserves the invariant.
LEMMA RecordProgressInv == ASSUME Inv, RecordProgress PROVE Inv'
<1>1. topic \in cut \/ \A p \in seenStream \cap stream[topic] : p \in stored[topic]
  BY DEF RecordProgress, Inv, VisitInv
<1> QED
  BY <1>1, LeaveLemma, RecordLemma DEF RecordProgress, Inv

-----------------------------------------------------------------------------

\* Every step preserves the invariant.
LEMMA NextInv == Inv /\ [Next]_vars => Inv'
<1> SUFFICES ASSUME Inv, [Next]_vars PROVE Inv'
  OBVIOUS
<1>1. CASE \E t \in Topics : Reply(t) \/ EnterTopic(t) \/ \E p \in Posts : Delete(t, p)
  BY <1>1, ReplyInv, EnterTopicInv, DeleteInv
<1>2. CASE \/ EndCycle \/ TimingsRefused \/ FetchRefused \/ Crash
           \/ \E t \in Topics : SkipTopic(t)
           \/ \E listed \in SUBSET Topics : BeginCycle(listed)
  <2>1. /\ UNCHANGED <<server, store, cut>>
        /\ pc' \in {"idle", "topics"} /\ seenHighest' \in Nat
    BY <1>2
    DEF EndCycle, TimingsRefused, FetchRefused, Crash, SkipTopic, BeginCycle, NoVisit, visit, Inv, Shape
  <2> QED
    BY <2>1, OutsideInv
<1>3. CASE StopVisit \/ UpToDate \/ StopEarly
  <2>1. UNCHANGED <<server, store, cut>> /\ LeaveTopic(left)
    BY <1>3 DEF StopVisit, UpToDate, StopEarly
  <2> QED
    BY <2>1, LeaveLemma, OutsideInv DEF Inv
<1>4. CASE Plan \/ FetchBatch \/ RecordProgress
  BY <1>4, PlanInv, FetchBatchInv, RecordProgressInv
<1>5. CASE Stop \/ Restart \/ UNCHANGED vars
  BY <1>5
  DEF Stop, Restart, vars, server, store, visit, Inv, Shape, Bounded, VisitInv,
      SyncedMeansStored
<1> QED
  BY <1>1, <1>2, <1>3, <1>4, <1>5 DEF Next, Visit

\* The invariant holds in every behaviour of the watch loop, the store and the
\* server.
THEOREM Invariant == Spec => []Inv
  BY InitInv, NextInv, PTL DEF Spec

\* The progress recorded for a topic is never ahead of the posts stored, unless
\* the budget has cut the topic, whatever stops, refusals and crashes do to the
\* visits of _touch_topic.
THEOREM ProgressIsStored == Spec => []SyncedMeansStored
<1>1. Inv => SyncedMeansStored
  BY DEF Inv
<1> QED
  BY <1>1, Invariant, PTL

-----------------------------------------------------------------------------
(* The budget                                                               *)

\* A set of numbers up to n has a greatest one.
LEMMA GreatestOf ==
  ASSUME NEW n \in Nat, NEW T \in SUBSET (0..n), T # {}
  PROVE  \E m \in T : \A x \in T : x <= m
<1> DEFINE D == {d \in Nat : \E x \in T : d = n - x}
<1>1. \A x \in T : n - x \in D
  OBVIOUS
<1>2. D \subseteq Nat /\ D # {}
  BY <1>1
<1>3. \E d \in D : \A e \in D : ~(<<e, d>> \in OpToRel(<, Nat))
  <2> HIDE DEF D
  <2> QED
    BY <1>2, WFMin, NatLessThanWellFounded, Zenon
<1>4. PICK d \in D : \A e \in D : ~(e < d)
  <2>1. \A e \in D, d \in D : e < d => <<e, d>> \in OpToRel(<, Nat)
    BY <1>2 DEF OpToRel
  <2> QED
    BY <1>3, <2>1, ZenonT(40)
<1>5. PICK m \in T : d = n - m
  BY <1>4
<1>6. \A x \in T : ~(n - x < n - m)
  BY <1>1, <1>4, <1>5
<1> QED
  BY <1>6

\* The first n posts of a list are at most n: they lie below the last of them.
LEMMA FirstOfFew ==
  ASSUME NEW S \in SUBSET Posts, NEW n \in Nat
  PROVE  /\ IsFiniteSet(S) /\ IsFiniteSet(FirstOf(S, n))
         /\ Cardinality(FirstOf(S, n)) \in Nat /\ Cardinality(FirstOf(S, n)) <= n
<1> DEFINE T == FirstOf(S, n)
<1>1. T \in SUBSET S
  BY FirstOfSubset
<1>2. Posts \in SUBSET (0..MaxPosts) /\ 0 \in Int /\ MaxPosts \in Int
  BY CrawlAssumption DEF Posts
<1>3. IsFiniteSet(S)
  <2>1. IsFiniteSet(0..MaxPosts) /\ S \in SUBSET (0..MaxPosts)
    BY <1>2, FS_Interval
  <2> QED
    BY <2>1, FS_Subset
<1>4. IsFiniteSet(T) /\ Cardinality(T) \in Nat
  BY <1>1, <1>3, FS_Subset, FS_CardinalityType
<1>5. CASE T = {}
  BY <1>3, <1>4, <1>5, FS_EmptySet
<1>6. CASE T # {}
  <2>1. T \in SUBSET (0..MaxPosts)
    BY <1>1, <1>2
  <2>2. PICK m \in T : \A x \in T : x <= m
    BY <1>6, <2>1, GreatestOf, CrawlAssumption
  <2> DEFINE U == {q \in S : q <= m}
  <2>3. Cardinality(U) <= n
    BY DEF FirstOf
  <2>4. T \in SUBSET U /\ U \in SUBSET S
    BY <1>1, <2>2
  <2>5. IsFiniteSet(U) /\ Cardinality(U) \in Nat
    BY <1>3, <2>4, FS_Subset, FS_CardinalityType
  <2>6. Cardinality(T) <= Cardinality(U)
    BY <2>4, <2>5, FS_Subset
  <2> HIDE DEF T, U
  <2>7. Cardinality(T) <= n
    BY <1>4, <2>3, <2>5, <2>6
  <2> QED
    BY <1>3, <1>4, <2>7 DEF T
<1> QED
  BY <1>3, <1>4, <1>5, <1>6

\* What a cycle may have asked for.
Allowance == Budget * (Cardinality(refused) + 1)

\* A visit that was given up is not resumed, so every refusal is of another
\* topic and gives the cycle back what that visit has spent, a budget at most.
BudgetInv ==
  /\ spent \in Nat /\ spent <= Allowance
  /\ remaining \in 0..Budget /\ left \in 0..Budget
  /\ IsFiniteSet(refused)
  /\ missing \subseteq Posts
  /\ pc \in {"topics", "entered", "fetching"} => refused \cap todo = {}
  /\ pc \in {"entered", "fetching"} => topic \notin refused \cup todo
  /\ pc = "topics" => spent + remaining <= Allowance
  /\ pc = "entered" => remaining = left
  /\ pc \in {"entered", "fetching"} => spent + left <= Allowance
  /\ pc = "fetching" => Cardinality(missing) <= left
  /\ pc \in {"idle", "topics", "entered", "fetching"}

\* A visit that ends normally leaves what it has not spent.
LEMMA LeaveBudget ==
  ASSUME Budget \in Nat, BudgetInv, NEW b \in 0..Budget, LeaveTopic(b),
         NEW s \in Nat, spent' = s, s + b <= Allowance, UNCHANGED refused,
         pc \in {"entered", "fetching"}
  PROVE  BudgetInv'
<1>1. Allowance' = Allowance /\ Allowance \in Int /\ IsFiniteSet(refused)'
  BY FS_CardinalityType DEF Allowance, BudgetInv
<1>2. left' \in 0..Budget /\ remaining' = b /\ missing' = {} /\ pc' \in {"idle", "topics"}
  BY DEF LeaveTopic, NoVisit
<1>3. refused' \cap todo' = {}
  BY DEF BudgetInv, LeaveTopic
<1>4. b \in Nat /\ s <= Allowance
  BY <1>1
<1> QED
  BY <1>1, <1>2, <1>3, <1>4 DEF BudgetInv

\* Plan asks for what the rest of the budget affords.
LEMMA PlanBudget == ASSUME Budget \in Nat, Inv, BudgetInv, Plan PROVE BudgetInv'
<1>0. Budget # NoBudget
  BY CrawlAssumption
<1>1. CASE LeaveTopic(left)
  <2>1. /\ pc = "entered" /\ UNCHANGED <<refused, spent>>
        /\ left \in 0..Budget /\ spent \in Nat /\ spent + left <= Allowance
    BY DEF Plan, BudgetInv
  <2> QED
    BY <1>1, <2>1, LeaveBudget
<1>2. CASE /\ missing' = Affordable /\ pc' = "fetching"
           /\ UNCHANGED <<topic, left, todo, remaining>>
  <2>1. pc = "entered" /\ refused' = refused /\ spent' = spent
    BY DEF Plan
  <2>2. left # NoBudget /\ left \in Nat
    BY <1>0, CrawlAssumption DEF BudgetInv
  <2>3. Lacking \in SUBSET Posts
    BY <2>1 DEF Lacking, Inv, VisitInv
  <2>4. missing' = FirstOf(Lacking, left)
    BY <1>2, <2>2 DEF Affordable
  <2>5. missing' \subseteq Posts /\ Cardinality(missing') <= left
    BY <2>2, <2>3, <2>4, FirstOfFew, FirstOfSubset
  <2> QED
    BY <1>2, <2>1, <2>5 DEF BudgetInv, Allowance
<1> QED
  BY <1>1, <1>2 DEF Plan

\* A batch is charged in full.
LEMMA FetchBudget == ASSUME Budget \in Nat, BudgetInv, FetchBatch PROVE BudgetInv'
<1>1. missing \in SUBSET Posts /\ pc = "fetching" /\ BatchSize \in Nat
  BY CrawlAssumption DEF BudgetInv, FetchBatch
<1>2. IsFiniteSet(missing) /\ Batch \subseteq missing
  BY <1>1, FirstOfFew, FirstOfSubset DEF Batch
<1>3. /\ Cardinality(Batch) \in Nat /\ Cardinality(Batch) <= Cardinality(missing)
      /\ Cardinality(missing) \in Nat
  BY <1>2, FS_Subset, FS_CardinalityType
<1>4. Cardinality(missing \ Batch) = Cardinality(missing) - Cardinality(Batch)
  <2>1. missing \cap Batch = Batch
    BY <1>2
  <2> QED
    BY <1>2, <2>1, FS_Difference
<1>5. Charged = left - Cardinality(Batch) /\ Charged \in 0..Budget
  BY <1>1, <1>3, CrawlAssumption DEF Charged, BudgetInv
<1>6. Allowance \in Int
  BY FS_CardinalityType DEF Allowance, BudgetInv
<1> DEFINE s == spent + Cardinality(Batch)
<1>7. spent' = s /\ UNCHANGED refused
  BY DEF FetchBatch
<1>8. s \in Nat /\ s + Charged = spent + left /\ s + Charged <= Allowance
  BY <1>1, <1>3, <1>5, <1>6 DEF BudgetInv
<1> HIDE DEF s
<1>9. CASE LeaveTopic(Charged)
  BY <1>1, <1>5, <1>7, <1>8, <1>9, LeaveBudget
<1>10. CASE /\ left' = Charged /\ missing' = missing \ Batch
            /\ UNCHANGED <<topic, pc, todo, remaining>>
  <2>1. Allowance' = Allowance /\ IsFiniteSet(refused)'
    BY <1>7 DEF Allowance, BudgetInv
  <2>2. s <= Allowance /\ Cardinality(missing \ Batch) <= Charged
    BY <1>1, <1>3, <1>4, <1>5, <1>6, <1>8 DEF BudgetInv
  <2> QED
    BY <1>1, <1>5, <1>7, <1>8, <1>10, <2>1, <2>2 DEF BudgetInv
<1> QED
  BY <1>9, <1>10 DEF FetchBatch

\* A refused batch forgets what the visit has spent, once for this topic.
LEMMA RefusedBudget == ASSUME Budget \in Nat, BudgetInv, FetchRefused PROVE BudgetInv'
<1> DEFINE n == Cardinality(refused)
<1>1. n \in Nat /\ IsFiniteSet(refused') /\ Cardinality(refused') = n + 1
  BY FS_CardinalityType, FS_AddElement DEF BudgetInv, FetchRefused
<1>2. Allowance = Budget * (n + 1) /\ Allowance' = Budget * (n + 1 + 1)
  BY <1>1 DEF Allowance
<1>3. Allowance' = Allowance + Budget /\ Allowance \in Nat
  <2> HIDE DEF n
  <2> QED
    BY <1>1, <1>2
<1>4. refused' \cap todo = {}
  BY DEF BudgetInv, FetchRefused
<1> QED
  BY <1>1, <1>3, <1>4 DEF BudgetInv, FetchRefused, NoVisit

\* Every step keeps the account of the budget.
LEMMA NextBudget == Budget \in Nat /\ Inv /\ BudgetInv /\ [Next]_vars => BudgetInv'
<1> SUFFICES ASSUME Budget \in Nat, Inv, BudgetInv, [Next]_vars PROVE BudgetInv'
  OBVIOUS
<1>0. Allowance \in Nat /\ Cardinality(refused) \in Nat
  <2>1. Cardinality(refused) \in Nat
    BY FS_CardinalityType DEF BudgetInv
  <2> QED
    BY <2>1 DEF Allowance
<1>1. CASE \/ \E t \in Topics : Reply(t) \/ SkipTopic(t) \/ EnterTopic(t)
           \/ \E t \in Topics, p \in Posts : Delete(t, p)
  BY <1>0, <1>1 DEF Reply, SkipTopic, EnterTopic, Delete, visit, BudgetInv, Allowance
<1>2. ASSUME NEW listed \in SUBSET Topics, BeginCycle(listed) PROVE BudgetInv'
  <2>1. Allowance' = Budget /\ IsFiniteSet(refused')
    BY <1>2, FS_EmptySet DEF BeginCycle, Allowance
  <2> QED
    BY <1>2, <2>1 DEF BeginCycle, visit, BudgetInv
<1>3. CASE EndCycle \/ TimingsRefused \/ Crash
  <2>1. CASE EndCycle
    BY <1>0, <2>1 DEF EndCycle, visit, BudgetInv, Allowance
  <2>2. CASE TimingsRefused
    BY <1>0, <2>2 DEF TimingsRefused, NoVisit, BudgetInv, Allowance
  <2>3. CASE Crash
    BY <1>0, <2>3 DEF Crash, NoVisit, BudgetInv, Allowance
  <2> QED
    BY <1>3, <2>1, <2>2, <2>3
<1>4. CASE StopVisit \/ UpToDate \/ StopEarly \/ RecordProgress
  <2>1. /\ pc \in {"entered", "fetching"} /\ UNCHANGED <<refused, spent>>
        /\ left \in 0..Budget /\ spent \in Nat /\ spent + left <= Allowance
        /\ LeaveTopic(left)
    BY <1>4 DEF StopVisit, UpToDate, StopEarly, RecordProgress, BudgetInv
  <2> QED
    BY <2>1, LeaveBudget
<1>5. CASE Plan \/ FetchBatch \/ FetchRefused
  BY <1>5, PlanBudget, FetchBudget, RefusedBudget
<1>6. CASE Stop \/ Restart \/ UNCHANGED vars
  BY <1>6 DEF Stop, Restart, vars, visit, BudgetInv, Allowance
<1> QED
  BY <1>1, <1>2, <1>3, <1>4, <1>5, <1>6 DEF Next, Visit

\* The account of the budget is kept in every behaviour.
LEMMA BudgetAccount == ASSUME Budget \in Nat PROVE Spec => []BudgetInv
<1>1. Init => BudgetInv
  <2>1. Init => Cardinality(refused) = 0 /\ IsFiniteSet(refused)
    BY FS_EmptySet DEF Init
  <2>2. Init => Allowance = Budget
    BY <2>1 DEF Allowance
  <2> QED
    BY <2>1, <2>2 DEF Init, BudgetInv
<1>2. Inv /\ BudgetInv /\ [Next]_vars => BudgetInv'
  BY NextBudget
<1> QED
  BY <1>1, <1>2, Invariant, PTL DEF Spec

\* A cycle asks for at most its budget of posts by number, and once more that
\* for each topic of which a full queue refused a batch.
THEOREM BudgetHolds == Spec => []BudgetBound
<1>1. BudgetInv => BudgetBound
  BY DEF BudgetInv, Allowance, BudgetBound
<1>2. Budget \notin Nat => BudgetBound
  BY CrawlAssumption DEF BudgetBound
<1>3. CASE Budget \in Nat
  BY <1>1, <1>3, BudgetAccount, PTL
<1>4. CASE Budget \notin Nat
  BY <1>2, <1>4, PTL
<1> QED
  BY <1>3, <1>4

-----------------------------------------------------------------------------
(* Types                                                                    *)

\* What is left of the budget, and the posts asked for.
BudgetType == remaining \in Budgets /\ left \in Budgets /\ spent \in Nat

LEMMA BudgetTypeStep ==
  ASSUME TypeOK, Budget \in Nat => BudgetInv', [Next]_vars
  PROVE  BudgetType'
<1>1. CASE Budget \in Nat
  BY <1>1, CrawlAssumption DEF BudgetInv, BudgetType, Budgets
<1>2. CASE Budget \notin Nat
  <2>1. Budget = NoBudget /\ Budgets = {NoBudget} /\ left = NoBudget /\ remaining = NoBudget
        /\ spent \in Nat
    BY <1>2, CrawlAssumption DEF Budgets, TypeOK
  <2>2. Charged = NoBudget
    BY <2>1 DEF Charged
  <2>3. Cardinality(Batch) \in Nat
    BY FirstOfFew, CrawlAssumption DEF TypeOK, Batch
  <2>4. left' = NoBudget
    BY <2>1, <2>2
    DEF Next, Reply, Delete, BeginCycle, SkipTopic, EndCycle, EnterTopic, TimingsRefused,
        Visit, StopVisit, UpToDate, Plan, FetchBatch, FetchRefused, StopEarly,
        RecordProgress, Stop, Restart, Crash, LeaveTopic, NoVisit, vars, visit
  <2>5. remaining' = NoBudget
    BY <2>1, <2>2
    DEF Next, Reply, Delete, BeginCycle, SkipTopic, EndCycle, EnterTopic, TimingsRefused,
        Visit, StopVisit, UpToDate, Plan, FetchBatch, FetchRefused, StopEarly,
        RecordProgress, Stop, Restart, Crash, LeaveTopic, NoVisit, vars
  <2>6. spent' \in Nat
    BY <2>1, <2>3
    DEF Next, Reply, Delete, BeginCycle, SkipTopic, EndCycle, EnterTopic, TimingsRefused,
        Visit, StopVisit, UpToDate, Plan, FetchBatch, FetchRefused, StopEarly,
        RecordProgress, Stop, Restart, Crash, vars
  <2> QED
    BY <2>1, <2>4, <2>5, <2>6 DEF BudgetType
<1> QED
  BY <1>1, <1>2

\* Where the thread is, and the lists it goes through.
LEMMA TypeStep ==
  ASSUME TypeOK, Budget \in Nat => BudgetInv', [Next]_vars
  PROVE  TypeOK'
<1>1. BudgetType'
  BY BudgetTypeStep
<1>2. /\ stream \in [Topics -> SUBSET Posts] /\ highest \in [Topics -> 0..MaxPosts]
      /\ stored \in [Topics -> SUBSET Posts] /\ synced \in [Topics -> 0..MaxPosts]
      /\ MaxPosts \in Nat /\ NoTopic \notin Topics
  BY CrawlAssumption DEF TypeOK
<1>3. ASSUME NEW t \in Topics, Reply(t) \/ \E p \in Posts : Delete(t, p) PROVE TypeOK'
  <2>1. stream' \in [Topics -> SUBSET Posts] /\ highest' \in [Topics -> 0..MaxPosts]
    BY <1>2, <1>3 DEF Reply, Delete, Posts
  <2> QED
    BY <1>1, <1>3, <2>1 DEF Reply, Delete, store, visit, TypeOK, BudgetType
<1>4. ASSUME NEW t \in Topics, EnterTopic(t) PROVE TypeOK'
  <2>1. stored' \in [Topics -> SUBSET Posts]
    BY <1>2, <1>4, FirstOfSubset DEF EnterTopic
  <2> QED
    BY <1>1, <1>2, <1>4, <2>1 DEF EnterTopic, server, TypeOK, BudgetType
<1>5. CASE \/ EndCycle \/ Stop \/ Restart \/ UNCHANGED vars
           \/ \E t \in Topics : SkipTopic(t)
           \/ \E listed \in SUBSET Topics : BeginCycle(listed)
  BY <1>1, <1>5
  DEF EndCycle, Stop, Restart, SkipTopic, BeginCycle, server, store, visit, vars, TypeOK,
      BudgetType
<1>6. CASE TimingsRefused \/ FetchRefused \/ Crash
  BY <1>1, <1>2, <1>6
  DEF TimingsRefused, FetchRefused, Crash, NoVisit, server, store, TypeOK, BudgetType
<1>7. ASSUME NEW b, LeaveTopic(b), UNCHANGED <<server, stop, refused>>,
             stored' \in [Topics -> SUBSET Posts], synced' \in [Topics -> 0..MaxPosts],
             cut' \subseteq Topics
      PROVE  TypeOK'
  BY <1>1, <1>2, <1>7 DEF LeaveTopic, NoVisit, server, TypeOK, BudgetType
<1>8. CASE StopVisit \/ UpToDate \/ StopEarly
  BY <1>2, <1>7, <1>8 DEF StopVisit, UpToDate, StopEarly, store, TypeOK
<1>9. pc \in {"entered", "fetching"} =>
        topic \in Topics /\ [synced EXCEPT ![topic] = seenHighest] \in [Topics -> 0..MaxPosts]
  BY <1>2 DEF TypeOK
<1>10. CASE RecordProgress
  BY <1>2, <1>7, <1>9, <1>10 DEF RecordProgress, TypeOK
<1>11. CASE Plan
  <2>1. CASE \E b : LeaveTopic(b)
    BY <1>2, <1>7, <1>9, <1>11, <2>1 DEF Plan, TypeOK
  <2>2. CASE /\ missing' = Affordable
             /\ cut' = IF Affordable = Lacking THEN cut ELSE cut \cup {topic}
             /\ pc' = "fetching"
             /\ UNCHANGED <<synced, topic, seenStream, seenHighest, left, todo, remaining>>
    <3>1. missing' \subseteq Posts
      BY <2>2, FirstOfSubset DEF Affordable, Lacking, TypeOK
    <3> QED
      BY <1>1, <1>9, <1>11, <2>2, <3>1 DEF Plan, server, TypeOK, BudgetType
  <2> QED
    BY <1>11, <2>1, <2>2 DEF Plan
<1>12. CASE FetchBatch
  <2>1. stored' \in [Topics -> SUBSET Posts]
    BY <1>2, <1>9, <1>12 DEF FetchBatch
  <2>2. CASE LeaveTopic(Charged)
    BY <1>2, <1>7, <1>12, <2>1, <2>2 DEF FetchBatch, TypeOK
  <2>3. CASE missing' = missing \ Batch
             /\ UNCHANGED <<topic, seenStream, seenHighest, pc, todo, remaining>>
    BY <1>1, <1>12, <2>1, <2>3 DEF FetchBatch, server, TypeOK, BudgetType
  <2> QED
    BY <1>12, <2>2, <2>3 DEF FetchBatch
<1> QED
  BY <1>3, <1>4, <1>5, <1>6, <1>8, <1>10, <1>11, <1>12 DEF Next, Visit

\* Every variable of the crawl keeps its type; in particular what is left of a
\* budget is never negative nor more than the budget.
THEOREM TypesHold == Spec => []TypeOK
<1>1. Init => TypeOK
  <2> SUFFICES ASSUME Init PROVE TypeOK
    OBVIOUS
  <2>1. Budget \in Budgets
    BY CrawlAssumption DEF Budgets
  <2>2. stream \in [Topics -> SUBSET Posts]
    <3>1. {{}, {1} \cap Posts} \subseteq SUBSET Posts
      OBVIOUS
    <3> QED
      BY <3>1 DEF Init
  <2>3. stored \in [Topics -> SUBSET Posts] /\ synced \in [Topics -> 0..MaxPosts]
    BY CrawlAssumption DEF Init
  <2>4. highest \in [Topics -> 0..MaxPosts]
    BY CrawlAssumption DEF Init, Posts
  <2>5. /\ pc = "idle" /\ topic = NoTopic /\ stop = FALSE /\ seenHighest = 0 /\ spent = 0
        /\ todo = {} /\ seenStream = {} /\ missing = {} /\ refused = {} /\ cut = {}
        /\ remaining = Budget /\ left = Budget
    BY DEF Init
  <2>6. seenHighest \in 0..MaxPosts /\ spent \in Nat
    BY <2>5, CrawlAssumption
  <2>7. pc \in {"idle", "topics", "entered", "fetching"} /\ pc \notin {"entered", "fetching"}
    BY <2>5
  <2>8. topic \in Topics \cup {NoTopic} /\ topic \notin Topics
    BY <2>5, CrawlAssumption
  <2> QED
    BY <2>1, <2>2, <2>3, <2>4, <2>5, <2>6, <2>7, <2>8 DEF TypeOK
<1>2. CASE Budget \in Nat
  <2>1. Budget \in Nat /\ BudgetInv' /\ TypeOK /\ [Next]_vars => TypeOK'
    BY TypeStep
  <2> QED
    BY <1>1, <1>2, <2>1, BudgetAccount, PTL DEF Spec
<1>3. CASE Budget \notin Nat
  <2>1. Budget \notin Nat /\ TypeOK /\ [Next]_vars => TypeOK'
    BY TypeStep
  <2> QED
    BY <1>1, <1>3, <2>1, PTL DEF Spec
<1> QED
  BY <1>2, <1>3

-----------------------------------------------------------------------------
(* What PostsStoredEventually rests on besides fairness: the visits lose    *)
(* nothing, look where something is missing, and end.                       *)

\* The progress of a topic and its posts only grow, although a visit records
\* the number it saw when it began.
NothingUndone ==
  [][\A t \in Topics : synced[t] <= synced'[t] /\ stored[t] \subseteq stored'[t]]_vars

\* A post that the store lacks is above the progress, so that the next visit
\* does not take the topic for read, unless the budget cut it.
MissingIsLookedFor ==
  \A t \in Topics \ cut : \A p \in stream[t] \ stored[t] : synced[t] < p /\ p <= highest[t]

\* A batch that the visit survives leaves fewer posts to fetch.
BatchesRunOut ==
  [][FetchBatch /\ topic' = topic => Cardinality(missing') < Cardinality(missing)]_vars

\* A visit fetches only for a topic with newer posts than its progress, and no
\* other visit records progress meanwhile.
Newer == pc = "fetching" => synced[topic] < seenHighest

\* Every step keeps Newer, and takes nothing from the store.
LEMMA NewerStep ==
  Inv /\ Newer /\ [Next]_vars =>
    /\ Newer'
    /\ \A t \in Topics : synced[t] <= synced'[t] /\ stored[t] \subseteq stored'[t]
<1> SUFFICES ASSUME Inv, Newer, [Next]_vars
             PROVE  /\ Newer'
                    /\ \A t \in Topics : synced[t] <= synced'[t] /\ stored[t] \subseteq stored'[t]
  OBVIOUS
<1>0. /\ synced \in [Topics -> Nat] /\ stored \in [Topics -> SUBSET Posts] /\ seenHighest \in Nat
      /\ pc \in {"entered", "fetching"} => topic \in Topics
  BY DEF Inv, Shape
<1>1. CASE \E t \in Topics : EnterTopic(t)
  BY <1>0, <1>1 DEF EnterTopic, Newer
<1>2. CASE Plan
  <2>1. synced[topic] < seenHighest
    <3>1. PICK p \in seenStream : p \in Posts /\ p <= seenHighest
      BY <1>2 DEF Plan, Inv, VisitInv
    <3>2. seenHighest > 0
      BY <3>1, <1>0, CrawlAssumption DEF Posts
    <3> QED
      BY <3>2, <1>0, <1>2 DEF Plan, NothingNew
  <2> QED
    BY <1>0, <1>2, <2>1 DEF Plan, LeaveTopic, Newer
<1>3. CASE FetchBatch \/ RecordProgress
  BY <1>0, <1>3 DEF FetchBatch, RecordProgress, LeaveTopic, Newer
<1>4. CASE \/ EndCycle \/ TimingsRefused \/ FetchRefused \/ Crash
           \/ StopVisit \/ UpToDate \/ StopEarly
           \/ \E t \in Topics : SkipTopic(t)
           \/ \E listed \in SUBSET Topics : BeginCycle(listed)
  BY <1>0, <1>4
  DEF EndCycle, TimingsRefused, FetchRefused, Crash, StopVisit, UpToDate, StopEarly,
      SkipTopic, BeginCycle, LeaveTopic, store, Newer
<1>5. CASE \/ Stop \/ Restart \/ UNCHANGED vars
           \/ \E t \in Topics : Reply(t) \/ \E p \in Posts : Delete(t, p)
  BY <1>0, <1>5 DEF Stop, Restart, vars, Reply, Delete, store, visit, Newer
<1> QED
  BY <1>1, <1>2, <1>3, <1>4, <1>5 DEF Next, Visit

\* _touch_topic never sets a topic back (watch.py:342, sqlite_store.py:639): what
\* it saw before it fetched is still ahead of the progress when it records it.
THEOREM ProgressGrows == Spec => NothingUndone
<1>1. Init => Newer
  BY DEF Init, Newer
<1>2. Inv /\ Newer /\ [Next]_vars =>
        [\A t \in Topics : synced[t] <= synced'[t] /\ stored[t] \subseteq stored'[t]]_vars
  BY NewerStep
<1> QED
  BY <1>1, <1>2, NewerStep, Invariant, PTL DEF Spec, NothingUndone

\* Whatever stops, refusals and crashes left behind, a post of the server that
\* is not stored is not hidden by the progress of its topic.
THEOREM NothingIsHidden == Spec => []MissingIsLookedFor
<1>1. Inv => MissingIsLookedFor
  <2> SUFFICES ASSUME Inv, NEW t \in Topics \ cut, NEW p \in stream[t] \ stored[t]
               PROVE  synced[t] < p /\ p <= highest[t]
    BY DEF MissingIsLookedFor
  <2>1. p \in Nat /\ synced[t] \in Nat
    BY CrawlAssumption DEF Inv, Shape, Posts
  <2> QED
    BY <2>1 DEF Inv, Bounded, SyncedMeansStored
<1> QED
  BY <1>1, Invariant, PTL

\* A set of posts that is not empty has a first one.
LEMMA LeastOf ==
  ASSUME NEW S \in SUBSET Posts, S # {}
  PROVE  \E m \in S : \A x \in S : m <= x
<1>1. S \subseteq Nat
  BY CrawlAssumption DEF Posts
<1>2. \E m \in S : \A x \in S : ~(<<x, m>> \in OpToRel(<, Nat))
  BY <1>1, WFMin, NatLessThanWellFounded, Zenon
<1>3. PICK m \in S : \A x \in S : ~(x < m)
  <2>1. \A x \in S, m \in S : x < m => <<x, m>> \in OpToRel(<, Nat)
    BY <1>1 DEF OpToRel
  <2> QED
    BY <1>2, <2>1, Zenon
<1> QED
  BY <1>1, <1>3

\* The first n posts of a list that is not empty are not none.
LEMMA FirstOfSome ==
  ASSUME NEW S \in SUBSET Posts, S # {}, NEW n \in Nat \ {0}
  PROVE  FirstOf(S, n) # {}
<1>1. PICK m \in S : \A x \in S : m <= x
  BY LeastOf
<1>2. {q \in S : q <= m} = {m}
  <2>1. ASSUME NEW q \in S, q <= m PROVE q = m
    <3>1. q \in Int /\ m \in Int /\ m <= q
      BY <1>1 DEF Posts
    <3> QED
      BY <2>1, <3>1
  <2>2. m <= m
    BY <1>1 DEF Posts
  <2> QED
    BY <2>1, <2>2
<1>3. Cardinality({m}) = 1
  BY FS_Singleton
<1> QED
  BY <1>1, <1>2, <1>3 DEF FirstOf

\* The loop over the batches of watch.py:314 ends, whatever the batch size.
THEOREM VisitsEnd == Spec => BatchesRunOut
<1>1. ASSUME TypeOK, FetchBatch, topic' = topic
      PROVE  Cardinality(missing') < Cardinality(missing)
  <2>1. missing \in SUBSET Posts /\ missing # {} /\ Batch \in SUBSET missing /\ Batch # {}
    BY <1>1, FirstOfSubset, FirstOfSome, CrawlAssumption DEF TypeOK, FetchBatch, Batch
  <2>2. missing' = missing \ Batch
    <3>1. topic \in Topics
      BY <1>1 DEF TypeOK, FetchBatch
    <3> QED
      BY <1>1, <3>1, CrawlAssumption DEF FetchBatch, LeaveTopic, NoVisit
  <2>3. IsFiniteSet(missing)
    BY <2>1, FirstOfFew
  <2>4. missing' \in SUBSET missing /\ missing' # missing
    BY <2>1, <2>2
  <2>5. /\ IsFiniteSet(missing') /\ Cardinality(missing') <= Cardinality(missing)
        /\ Cardinality(missing') # Cardinality(missing)
    BY <2>3, <2>4, FS_Subset
  <2> QED
    BY <2>3, <2>5, FS_CardinalityType
<1>2. TypeOK /\ [Next]_vars =>
        [FetchBatch /\ topic' = topic => Cardinality(missing') < Cardinality(missing)]_vars
  BY <1>1
<1> QED
  BY <1>2, TypesHold, PTL DEF Spec, BatchesRunOut
=============================================================================
