-------------------------- MODULE EvaluationProofs --------------------------
(***************************************************************************)
(* The evaluation for any number of episodes, any shares and thresholds,    *)
(* any history and whatever is warmed, asked, answered or killed.           *)
(***************************************************************************)
EXTENDS Evaluation, NaturalFacts

(***************************************************************************)
(* Apportionment.                                                          *)
(***************************************************************************)

LEMMA ShareOf ==
  ASSUME NEW a \in Arm
  PROVE  Shares[a] \in 0 .. 100
BY SharesAssumption

LEMMA Hundreds ==
  ASSUME NEW n \in Nat, NEW q \in Int, NEW r \in Int, q = n \div 100, r = n % 100
  PROVE  q \in Nat /\ r \in 0 .. 99 /\ n = 100 * q + r
OBVIOUS

(* A product splits into what the floor takes and what it leaves. *)
LEMMA Split ==
  ASSUME NEW size \in Nat, NEW a \in Arm
  PROVE  /\ Floor(size)[a] \in Nat
         /\ Remainder(size)[a] \in 0 .. 99
         /\ size * Shares[a] \in Nat
         /\ size * Shares[a] = 100 * Floor(size)[a] + Remainder(size)[a]
<1> DEFINE quota == size * Shares[a]
<1>1. quota \in Nat
  BY ShareOf
<1>2. Floor(size)[a] = quota \div 100 /\ Remainder(size)[a] = quota % 100
  BY DEF Floor, Remainder
<1> HIDE DEF quota
<1>3. quota \div 100 \in Int /\ quota % 100 \in Int
  BY <1>1
<1>4. /\ Floor(size)[a] \in Nat /\ Remainder(size)[a] \in 0 .. 99
      /\ quota = 100 * Floor(size)[a] + Remainder(size)[a]
  BY <1>1, <1>2, <1>3, Hundreds
<1>5. QED
  BY <1>1, <1>4 DEF quota

(* The remainders add up to the slots that are left over. *)
LEMMA LeftoverIsRemainders ==
  ASSUME NEW size \in Nat
  PROVE  100 * Leftover(size) = Total(Remainder(size))
<1> DEFINE t == Shares["treatment"]  c == Shares["control"]
           n == Shares["baseline_naive"]  b == Shares["baseline_blast"]
           r == Shares["baseline_rules"]
<1>1. /\ t \in 0 .. 100 /\ c \in 0 .. 100 /\ n \in 0 .. 100
      /\ b \in 0 .. 100 /\ r \in 0 .. 100
  BY ShareOf DEF Arm
<1>2. t + c + n + b + r = 100
  BY SharesAssumption DEF Total
<1>3. size * t + size * c + size * n + size * b + size * r = 100 * size
  <2> HIDE DEF t, c, n, b, r
  <2>1. size * (t + c + n + b + r) = size * t + size * c + size * n + size * b + size * r
    BY <1>1
  <2>2. QED
    BY <1>2, <2>1
<1>4. ASSUME NEW a \in Arm
      PROVE  /\ Floor(size)[a] \in Nat
             /\ Remainder(size)[a] \in 0 .. 99
             /\ size * Shares[a] \in Nat
             /\ size * Shares[a] = 100 * Floor(size)[a] + Remainder(size)[a]
  BY Split
<1> DEFINE F(a) == Floor(size)[a]
           R(a) == Remainder(size)[a]
<1>5. /\ size * t = 100 * F("treatment") + R("treatment")
      /\ size * c = 100 * F("control") + R("control")
      /\ size * n = 100 * F("baseline_naive") + R("baseline_naive")
      /\ size * b = 100 * F("baseline_blast") + R("baseline_blast")
      /\ size * r = 100 * F("baseline_rules") + R("baseline_rules")
  BY <1>4 DEF Arm
<1>6. /\ \A a \in Arm : F(a) \in Nat /\ R(a) \in Nat
      /\ size * t \in Nat /\ size * c \in Nat /\ size * n \in Nat
      /\ size * b \in Nat /\ size * r \in Nat
  BY <1>4 DEF Arm
<1>7. QED
  <2>1. /\ F("treatment") \in Nat /\ F("control") \in Nat /\ F("baseline_naive") \in Nat
        /\ F("baseline_blast") \in Nat /\ F("baseline_rules") \in Nat
        /\ R("treatment") \in Nat /\ R("control") \in Nat /\ R("baseline_naive") \in Nat
        /\ R("baseline_blast") \in Nat /\ R("baseline_rules") \in Nat
    BY <1>6 DEF Arm
  <2>2. /\ Total(Floor(size)) = F("treatment") + F("control") + F("baseline_naive")
                                  + F("baseline_blast") + F("baseline_rules")
        /\ Total(Remainder(size)) = R("treatment") + R("control") + R("baseline_naive")
                                      + R("baseline_blast") + R("baseline_rules")
    BY DEF Total
  <2>3. Leftover(size) = size - Total(Floor(size))
    BY DEF Leftover
  <2> HIDE DEF F, R, t, c, n, b, r
  <2>4. QED
    BY <1>3, <1>5, <1>6, <2>1, <2>2, <2>3

(* An arm whose quota is whole gets no leftover slot: those that do all      *)
(* have a remainder, and among arms without one nothing is left to give.    *)
LEMMA ExtraNeedsRemainder ==
  ASSUME NEW size \in Nat, NEW g \in Extras(size), NEW a \in Arm, g[a] = 1
  PROVE  Remainder(size)[a] > 0
<1> DEFINE R == Remainder(size)
<1>1. \A b \in Arm : R[b] \in 0 .. 99
  BY Split
<1>2. /\ g \in [Arm -> {0, 1}] /\ Total(g) = Leftover(size)
      /\ \A b \in Arm : g[a] > g[b] => Precedes(size, a, b)
  BY DEF Extras
<1>3. SUFFICES ASSUME R[a] = 0
               PROVE  FALSE
  BY <1>1
<1>4. \A b \in Arm : g[b] = 0 => R[b] = 0
  BY <1>1, <1>2, <1>3 DEF Precedes
<1>5. \A b \in Arm : R[b] \in Nat /\ g[b] \in Nat /\ R[b] <= 99 * g[b]
  BY <1>1, <1>2, <1>4
<1>6. Total(R) <= 99 * Total(g)
  <2> HIDE DEF R
  <2> DEFINE Small(b) == R[b] \in Nat /\ g[b] \in Nat /\ R[b] <= 99 * g[b]
  <2>1. /\ Small("treatment") /\ Small("control") /\ Small("baseline_naive")
        /\ Small("baseline_blast") /\ Small("baseline_rules")
    BY <1>5 DEF Arm
  <2>2. QED
    BY <2>1 DEF Total
<1>7. Total(g) >= 1
  <2>1. \A b \in Arm : g[b] \in Nat
    BY <1>2
  <2>2. QED
    BY <2>1 DEF Total, Arm
<1>8. 100 * Total(g) = Total(R)
  BY <1>2, LeftoverIsRemainders
<1>9. Total(g) \in Nat
  BY <1>2 DEF Total, Arm
<1>10. QED
  <2> HIDE DEF R
  <2>1. QED
    BY <1>6, <1>7, <1>8, <1>9

(* An arm's slots are less than one from its quota. *)
LEMMA WithinOne ==
  ASSUME NEW size \in Nat, NEW g \in Extras(size), NEW a \in Arm
  PROVE  LET off == 100 * Apportioned(size, g)[a] - size * Shares[a]
         IN  -100 < off /\ off < 100
<1>1. /\ Floor(size)[a] \in Nat /\ Remainder(size)[a] \in 0 .. 99
      /\ size * Shares[a] = 100 * Floor(size)[a] + Remainder(size)[a]
  BY Split
<1>2. g[a] \in {0, 1}
  BY DEF Extras
<1>3. g[a] = 1 => Remainder(size)[a] > 0
  BY ExtraNeedsRemainder
<1>4. Apportioned(size, g)[a] = Floor(size)[a] + g[a]
  BY DEF Apportioned
<1>5. QED
  BY <1>1, <1>2, <1>3, <1>4

LEMMA AllocationsBalanced ==
  ASSUME NEW dealing \in Allocation
  PROVE  Balanced(dealing)
<1> SUFFICES ASSUME NEW k \in 0 .. Strata - 1, NEW a \in Arm
             PROVE  LET off == 100 * Dealt(dealing, k, a) - Cardinality(Members(k)) * Shares[a]
                    IN  -100 < off /\ off < 100
  BY DEF Balanced
<1>1. Cardinality(Members(k)) \in Nat
  BY RefsAssumption, FS_Subset, FS_CardinalityType DEF Members
<1>2. PICK g \in Extras(Cardinality(Members(k))) :
        Dealt(dealing, k, a) = Apportioned(Cardinality(Members(k)), g)[a]
  BY DEF Allocation
<1>3. QED
  BY <1>1, <1>2, WithinOne

(* The seed's assignment is dealt once and stays. *)
Assigned == arm = NoArms \/ arm \in Allocation

(* Every arm has its share of every stratum to within an episode, for every  *)
(* population and every shares in percent.                                  *)
THEOREM ArmsAlwaysBalanced == Spec => []ArmsBalanced
<1>1. Init => Assigned
  BY DEF Init, Assigned
<1>2. Assigned /\ [Next]_vars => Assigned'
  BY DEF Assigned, Next, vars, process, Resolve, Prepare, Start, RunEpisode, SaveCache,
         Snapshot, HeadToHead, Compared, BuildReport, WriteSummary, WriteReport, Ended,
         Exit, Warm
<1>3. Assigned => ArmsBalanced
  BY AllocationsBalanced DEF Assigned, ArmsBalanced
<1>4. QED
  BY <1>1, <1>2, <1>3, PTL DEF Spec

(***************************************************************************)
(* What a summary accounts for.                                            *)
(***************************************************************************)

CountersType ==
  [history : Nat, deterministic : Nat, cache : Nat, live : Nat, fallbacks : Nat]

All == Cardinality(Treated(Len(Queue)))

Comparing == {"comparing", "rendering", "crashed", "rendered", "summarised"}

(* At every point of an agent's run the counters account for the episodes of *)
(* its arm that were put to the diagnoser, and the snapshot for them all.   *)
BooksInv ==
  /\ counters \in CountersType /\ served \in CountersType
  /\ pc = "running" => at \in 1 .. Len(Queue) + 1
  /\ llm /\ pc = "running" => Accounts(counters, Cardinality(Treated(at - 1)))
  /\ llm /\ pc = "saved" => Accounts(counters, All)
  /\ llm /\ pc \in Comparing => Accounts(served, All)
  /\ pc = "saved" => llm

LEMMA TreatedFinite ==
  ASSUME NEW n \in Nat
  PROVE  IsFiniteSet(Treated(n)) /\ Cardinality(Treated(n)) \in Nat
<1>1. IsFiniteSet(1 .. n) /\ Treated(n) \subseteq 1 .. n
  BY FS_Interval DEF Treated
<1>2. QED
  BY <1>1, FS_Subset, FS_CardinalityType

(* One episode more is one more of the arm or none. *)
LEMMA TreatedGrows ==
  ASSUME NEW n \in Nat
  PROVE  Cardinality(Treated(n + 1)) =
           IF arm[Queue[n + 1]] = "treatment" THEN Cardinality(Treated(n)) + 1
                                              ELSE Cardinality(Treated(n))
<1>1. IsFiniteSet(Treated(n)) /\ n + 1 \notin Treated(n)
  BY TreatedFinite DEF Treated
<1>2. CASE arm[Queue[n + 1]] = "treatment"
  <2>1. Treated(n + 1) = Treated(n) \union {n + 1}
    BY <1>2 DEF Treated
  <2>2. QED
    BY <1>1, <1>2, <2>1, FS_AddElement
<1>3. CASE arm[Queue[n + 1]] # "treatment"
  <2>1. Treated(n + 1) = Treated(n)
    BY <1>3 DEF Treated
  <2>2. QED
    BY <1>3, <2>1
<1>4. QED
  BY <1>2, <1>3

(* A question is counted once, or stopped by the budget. *)
LEMMA DiagnoseAccounts ==
  ASSUME NEW n \in Nat, NEW r, counters \in CountersType, Accounts(counters, n), Diagnose(r)
  PROVE  counters' \in CountersType /\ Accounts(counters', n + 1)
<1>1. \A which \in {"history", "deterministic", "cache", "live", "fallbacks"} :
        Counted(which) => counters' \in CountersType /\ Accounts(counters', n + 1)
  BY BoundsAssumption DEF Counted, CountersType, Accounts, Accounted
<1>2. CASE BudgetStop(r)
  BY <1>2, BoundsAssumption DEF BudgetStop, CountersType, Accounts, Accounted
<1>3. CASE ~ BudgetStop(r)
  BY <1>1, <1>3 DEF Diagnose, FromHistory, NoSignal, FromCache, Live, FallBack
<1>4. QED
  BY <1>2, <1>3

LEMMA DiagnoseTyped ==
  ASSUME NEW r, counters \in CountersType, Diagnose(r)
  PROVE  counters' \in CountersType
<1>1. \A which \in {"history", "deterministic", "cache", "live", "fallbacks"} :
        Counted(which) => counters' \in CountersType
  BY DEF Counted, CountersType
<1>2. QED
  BY <1>1 DEF Diagnose, FromHistory, NoSignal, FromCache, BudgetStop, Live, FallBack

LEMMA RunEpisodeAccounts ==
  ASSUME BooksInv, RunEpisode
  PROVE  BooksInv'
<1> USE DEF BooksInv
<1>1. /\ pc = "running" /\ pc' = pc /\ at \in 1 .. Len(Queue) /\ at' = at + 1
      /\ llm' = llm /\ arm' = arm /\ served' = served /\ Len(Queue) \in Nat
  BY QueueAssumption DEF RunEpisode
<1>2. at' \in 1 .. Len(Queue) + 1 /\ at' - 1 = at /\ (at - 1) + 1 = at /\ at - 1 \in Nat
  BY <1>1
<1>3. Treated(at - 1)' = Treated(at)
  BY <1>1, <1>2 DEF Treated
<1>4. Cardinality(Treated(at - 1)) \in Nat
  BY <1>2, TreatedFinite
<1>5. CASE llm /\ arm[Queue[at]] = "treatment"
  <2>1. Diagnose(Queue[at])
    BY <1>5 DEF RunEpisode
  <2>2. counters' \in CountersType /\ Accounts(counters', Cardinality(Treated(at - 1)) + 1)
    BY <1>1, <1>4, <1>5, <2>1, DiagnoseAccounts
  <2>3. Cardinality(Treated(at)) = Cardinality(Treated(at - 1)) + 1
    BY <1>1, <1>2, <1>5, TreatedGrows
  <2>4. QED
    BY <1>1, <1>2, <1>3, <2>2, <2>3 DEF Comparing
<1>6. CASE ~ (llm /\ arm[Queue[at]] = "treatment")
  <2>1. counters' = counters
    BY <1>6 DEF RunEpisode
  <2>2. llm => Cardinality(Treated(at)) = Cardinality(Treated(at - 1))
    BY <1>1, <1>2, <1>6, TreatedGrows
  <2>3. QED
    BY <1>1, <1>2, <1>3, <2>1, <2>2 DEF Comparing, Accounts
<1>7. QED
  BY <1>5, <1>6

(* The steps of a run that leave its arms alone. *)
LEMMA RunAccounts ==
  ASSUME BooksInv, Next
  PROVE  BooksInv'
<1> USE DEF BooksInv, Comparing
<1>0. /\ Len(Queue) \in Nat /\ NoCounts \in CountersType
  BY QueueAssumption DEF NoCounts, CountersType
<1>1. CASE \E x \in Resolved : Resolve(x)
  BY <1>1 DEF Resolve, process
<1>2. CASE Prepare
  BY <1>2 DEF Prepare, process
<1>3. CASE Warm
  BY <1>3 DEF Warm, process
<1>4. ASSUME NEW agent \in BOOLEAN, Start(agent)
      PROVE  BooksInv'
  <2>1. /\ pc' = "running" /\ at' = 1 /\ counters' = NoCounts /\ served' = NoCounts
    BY <1>4 DEF Start
  <2>2. Treated(at - 1)' = {}
    BY <2>1 DEF Treated
  <2>3. Accounts(NoCounts, 0)
    BY DEF Accounts, Accounted, NoCounts
  <2>4. Cardinality(Treated(at - 1))' = 0
    BY <2>2, FS_EmptySet
  <2>5. Accounts(counters, Cardinality(Treated(at - 1)))'
    BY <2>1, <2>3, <2>4 DEF Accounts
  <2>6. 1 \in 1 .. Len(Queue) + 1
    BY <1>0
  <2>7. QED
    BY <1>0, <2>1, <2>5, <2>6
<1>5. CASE RunEpisode
  BY <1>5, RunEpisodeAccounts
<1>6. CASE SaveCache
  <2>1. /\ pc = "running" /\ at = Len(Queue) + 1 /\ counters' = counters
        /\ served' = served /\ llm' = llm /\ arm' = arm
    BY <1>0, <1>6 DEF SaveCache, process
  <2>2. at - 1 = Len(Queue) /\ All' = All
    BY <1>0, <2>1 DEF All, Treated
  <2>3. pc' = IF llm THEN "saved" ELSE "rendering"
    BY <1>6 DEF SaveCache
  <2>4. llm => Accounts(counters, All)
    BY <2>1, <2>2 DEF All
  <2>5. QED
    BY <2>1, <2>2, <2>3, <2>4 DEF Accounts
<1>7. CASE Snapshot
  <2>1. All' = All
    BY <1>7 DEF Snapshot, All, Treated
  <2>2. QED
    BY <1>7, <2>1 DEF Snapshot, Accounts
<1>8. CASE HeadToHead
  <2>1. All' = All
    BY <1>8 DEF HeadToHead, All, Treated
  <2>2. counters' \in CountersType
    BY <1>8, DiagnoseTyped DEF HeadToHead
  <2>3. QED
    BY <1>8, <2>1, <2>2 DEF HeadToHead, Accounts
<1>9. CASE Compared \/ BuildReport \/ WriteSummary
  <2>1. All' = All
    BY <1>9 DEF Compared, BuildReport, WriteSummary, process, All, Treated
  <2>2. QED
    BY <1>9, <2>1 DEF Compared, BuildReport, WriteSummary, process, Accounts
<1>10. CASE WriteReport \/ Exit
  BY <1>0, <1>10 DEF WriteReport, Exit, Ended
<1>11. QED
  BY <1>1, <1>2, <1>3, <1>4, <1>5, <1>6, <1>7, <1>8, <1>9, <1>10 DEF Next

(* A summary is by the planner it is named for, and an agent's accounts for   *)
(* its arm, however many runs there were and however they ended.            *)
THEOREM SummariesAlwaysTrue == Spec => []SummariesTrue
<1> DEFINE Inv == BooksInv /\ SummariesTrue
<1>1. Init => Inv
  BY DEF Init, BooksInv, Comparing, SummariesTrue, CountersType, NoCounts
<1>2. Inv /\ [Next]_vars => Inv'
  <2> SUFFICES ASSUME BooksInv, SummariesTrue, [Next]_vars
               PROVE  BooksInv' /\ SummariesTrue'
    OBVIOUS
  <2>1. CASE UNCHANGED vars
    BY <2>1 DEF BooksInv, SummariesTrue, Accounts, All, Treated, vars, process
  <2>2. CASE Next
    <3>1. BooksInv'
      BY <2>2, RunAccounts
    <3>2. ASSUME WriteSummary
          PROVE  SummariesTrue'
      <4>1. llm => Accounts(served, All)
        BY <3>2 DEF WriteSummary, BooksInv, Comparing
      <4>2. /\ Summary.by = Planner /\ Summary.served = served /\ Summary.n = All
        BY DEF Summary, All
      <4>3. /\ results'.summary = IF llm THEN Summary ELSE results.summary
            /\ results'.summaryRules = IF llm THEN results.summaryRules ELSE Summary
        BY <3>2 DEF WriteSummary
      <4>4. QED
        BY <4>1, <4>2, <4>3 DEF SummariesTrue, Planner, Accounts
    <3>3. ASSUME ~ WriteSummary
          PROVE  SummariesTrue'
      <4>1. results'.summary = results.summary /\ results'.summaryRules = results.summaryRules
        BY <2>2, <3>3 DEF Next, Resolve, Prepare, Warm, Start, RunEpisode, SaveCache, Snapshot,
           HeadToHead, Compared, BuildReport, WriteReport, Exit
      <4>2. QED
        BY <4>1 DEF SummariesTrue, Accounts
    <3>4. QED
      BY <3>1, <3>2, <3>3
  <2>3. QED
    BY <2>1, <2>2
<1>3. Inv => SummariesTrue
  OBVIOUS
<1>4. QED
  BY <1>1, <1>2, <1>3, PTL DEF Spec

(***************************************************************************)
(* What a diagnosis rests on.                                              *)
(***************************************************************************)

LEMMA PlacesFinite ==
  ASSUME NEW h \in Seq(Resolved), NEW S \in SUBSET DOMAIN h
  PROVE  /\ S \subseteq Nat /\ IsFiniteSet(S) /\ Cardinality(S) \in Nat
         /\ \A T \in SUBSET S : /\ IsFiniteSet(T) /\ Cardinality(T) \in Nat
                              /\ Cardinality(T) <= Cardinality(S)
<1>1. DOMAIN h = 1 .. Len(h) /\ Len(h) \in Nat
  OBVIOUS
<1>2. IsFiniteSet(1 .. Len(h))
  BY <1>1, FS_Interval
<1>3. S \subseteq Nat /\ IsFiniteSet(S) /\ Cardinality(S) \in Nat
  BY <1>1, <1>2, FS_Subset, FS_CardinalityType
<1>4. QED
  BY <1>3, FS_Subset, FS_CardinalityType

(* The most common cause is one of those it was sought among: of the causes  *)
(* with the largest count, the one that was met first is ahead of all.      *)
LEMMA MostCommonIsOne ==
  ASSUME NEW h \in Seq(Resolved), NEW S \in SUBSET DOMAIN h,
         NEW among \in SUBSET Causes(h, S), among # {}
  PROVE  MostCommon(h, S, among) \in among
<1> DEFINE M == Cardinality(S)
           N(c) == Cardinality(Having(h, S, c))
           D == {M - N(c) : c \in among}
<1>1. M \in Nat /\ S \subseteq Nat
  BY PlacesFinite
<1>2. \A c : N(c) \in Nat /\ N(c) <= M
  BY PlacesFinite DEF Having
<1>3. PICK k \in D : \A j \in D : ~ (j < k)
  <2>1. D \in SUBSET Nat /\ D # {}
    BY <1>1, <1>2
  <2> HIDE DEF D
  <2>2. QED
    BY <2>1, LeastNatural
<1>4. PICK top \in among : k = M - N(top)
  BY <1>3
<1>5. ASSUME NEW d \in among
      PROVE  N(d) <= N(top)
  <2>1. ~ (M - N(d) < M - N(top))
    BY <1>3, <1>4
  <2>2. N(d) \in Nat /\ N(top) \in Nat
    BY <1>2
  <2> HIDE DEF N, M
  <2>3. QED
    BY <1>1, <2>1, <2>2
<1> DEFINE T == {i \in S : h[i].cause \in among /\ N(h[i].cause) = N(top)}
<1>6. T \in SUBSET Nat /\ T # {}
  BY <1>1, <1>4 DEF Causes
<1>7. PICK i \in T : \A j \in T : ~ (j < i)
  <2> HIDE DEF T
  <2>1. QED
    BY <1>6, LeastNatural
<1> DEFINE c == h[i].cause
<1>8. c \in among /\ N(c) = N(top) /\ i \in Having(h, S, c) /\ i \in Nat
  BY <1>1, <1>7 DEF Having
<1>9. ASSUME NEW d \in among \ {c}
      PROVE  Ahead(h, S, c, d)
  <2>1. CASE N(d) < N(c)
    BY <1>2, <2>1 DEF Ahead
  <2>2. CASE N(d) = N(c)
    <3>1. ASSUME NEW j \in Having(h, S, d)
          PROVE  i < j
      <4>1. j \in T /\ j # i /\ j \in Nat
        BY <1>1, <1>8, <1>9, <2>2, <3>1 DEF Having
      <4>2. QED
        BY <1>7, <1>8, <4>1
    <3>2. QED
      BY <1>8, <2>2, <3>1 DEF Ahead
  <2>3. N(d) <= N(c)
    BY <1>5, <1>8
  <2>4. QED
    BY <1>2, <2>1, <2>2, <2>3
<1>10. \E x \in among : \A d \in among \ {x} : Ahead(h, S, x, d)
  BY <1>8, <1>9
<1>11. QED
  BY <1>10 DEF MostCommon

(* More of the same whole is as large a part of it. *)
LEMMA LargerPart ==
  ASSUME NEW h \in Seq(Resolved), NEW whole \in SUBSET DOMAIN h,
         NEW part \in SUBSET whole, NEW smaller \in SUBSET part,
         NEW percent \in Nat, AtLeast(percent, smaller, whole)
  PROVE  AtLeast(percent, part, whole)
<1>1. Cardinality(smaller) <= Cardinality(part)
  BY PlacesFinite
<1>2. /\ Cardinality(smaller) \in Nat /\ Cardinality(part) \in Nat
      /\ Cardinality(whole) \in Nat /\ percent * Cardinality(whole) \in Nat
  BY PlacesFinite
<1>3. QED
  BY <1>1, <1>2 DEF AtLeast

(* A wording that was seldom of a cause not to be retried. *)
LEMMA ExactRests ==
  ASSUME NEW h \in Seq(Resolved), NEW w,
         Exact(h, w) # NoCause, Exact(h, w) \notin NEVER_RETRY
  PROVE  AtLeast(MinPurity, ByText(h, w) \ Risky(h, ByText(h, w)), ByText(h, w))
<1> DEFINE S == ByText(h, w)
           H == Having(h, S, Exact(h, w))
<1>1. AtLeast(MinPurity, H, S)
  BY DEF Exact
<1>2. H \subseteq S \ Risky(h, S) /\ S \in SUBSET DOMAIN h
  BY DEF Having, Risky, ByText
<1>3. MinPurity \in Nat
  BY ThresholdsAssumption
<1> HIDE DEF S, H
<1>4. AtLeast(MinPurity, S \ Risky(h, S), S)
  BY <1>1, <1>2, <1>3, LargerPart
<1>5. QED
  BY <1>4 DEF S

(* The base rates name a cause not to be retried when such causes are likely. *)
LEMMA RiskNamed ==
  ASSUME NEW h \in Seq(Resolved), NEW S \in SUBSET DOMAIN h, S # {},
         AtLeast(MinMass, Risky(h, S), S)
  PROVE  RiskiestAlternative(h, S) \in NEVER_RETRY
<1>1. Risky(h, S) # {}
  <2>1. SUFFICES ASSUME Risky(h, S) = {}
                 PROVE  FALSE
    OBVIOUS
  <2>2. Cardinality(Risky(h, S)) = 0
    BY <2>1, FS_EmptySet
  <2>3. Cardinality(S) \in Nat /\ Cardinality(S) # 0
    BY PlacesFinite, FS_EmptySet
  <2>4. MinMass \in Nat /\ MinMass > 0
    BY ThresholdsAssumption
  <2>5. 100 * Cardinality(Risky(h, S)) >= MinMass * Cardinality(S)
    BY DEF AtLeast
  <2>6. 0 >= MinMass * Cardinality(S)
    BY <2>2, <2>5
  <2>7. \A m \in Nat, n \in Nat : m > 0 /\ n # 0 => ~ (0 >= m * n)
    OBVIOUS
  <2>8. QED
    BY <2>3, <2>4, <2>6, <2>7
<1> DEFINE among == Causes(h, Risky(h, S))
<1>2. among \subseteq Causes(h, S) /\ among \subseteq NEVER_RETRY /\ among # {}
  BY <1>1 DEF Causes, Risky
<1>3. RiskiestAlternative(h, S) = MostCommon(h, S, among)
  BY <1>1 DEF RiskiestAlternative
<1> HIDE DEF among
<1>4. MostCommon(h, S, among) \in among
  BY <1>2, MostCommonIsOne
<1>5. QED
  BY <1>2, <1>3, <1>4

LEMMA RuledCase ==
  ASSUME NEW h, NEW e
  PROVE  /\ Exact(h, e.wording) # NoCause => Rules(h, e) = Sure(Exact(h, e.wording))
         /\ Exact(h, e.wording) = NoCause =>
              /\ Text[e.wording] # Unread => Rules(h, e) = Text[e.wording]
              /\ Text[e.wording] = Unread =>
                   /\ Spiking(e.issuer, e.at) => Rules(h, e) = Sure("issuer_down")
                   /\ ~ Spiking(e.issuer, e.at) /\ Prior(h, e.context) # {} =>
                        Rules(h, e) = FromPrior(h, Prior(h, e.context))
BY DEF Rules

(* What a history of resolved episodes lets be retried, it speaks for. *)
LEMMA HistoryRests ==
  ASSUME history \in Seq(Resolved)
  PROVE  RetryRestsOnEvidence
<1> SUFFICES ASSUME NEW r \in Refs, ~ RetryHeld(Rules(history, Case[r]))
             PROVE  LET e == Case[r]
                        d == Rules(history, e)
                        told == ByText(history, e.wording)
                        near == Prior(history, e.context)
                    IN  /\ Exact(history, e.wording) # NoCause =>
                             AtLeast(MinPurity, told \ Risky(history, told), told)
                        /\ ~ d.confident /\ near # {} =>
                             ~ AtLeast(MinMass, Risky(history, near), near)
  BY DEF RetryRestsOnEvidence
<1> DEFINE e == Case[r]
           d == Rules(history, e)
           told == ByText(history, e.wording)
           near == Prior(history, e.context)
<1>1. d.cause \notin NEVER_RETRY
      /\ (~ d.confident => d.risk \notin NEVER_RETRY)
  BY DEF RetryHeld
<1>2. CASE Exact(history, e.wording) # NoCause
  <2>1. d = Sure(Exact(history, e.wording))
    BY <1>2, RuledCase
  <2>2. d.confident /\ d.cause = Exact(history, e.wording)
    BY <2>1 DEF Sure
  <2>3. AtLeast(MinPurity, told \ Risky(history, told), told)
    BY <1>1, <1>2, <2>2, ExactRests
  <2>4. QED
    BY <2>2, <2>3
<1>3. CASE Exact(history, e.wording) = NoCause /\ Text[e.wording] # Unread
  <2>1. d = Text[e.wording]
    BY <1>3, RuledCase
  <2>2. e.wording \in DOMAIN Text
    BY CaseAssumption
  <2>3. d.confident \/ d.cause \in {"invoice_forgotten", "risk_declined"}
    BY <1>3, <2>1, <2>2, TextAssumption
  <2>4. d.confident
    BY <1>1, <2>3 DEF NEVER_RETRY
  <2>5. QED
    BY <1>3, <2>4
<1>4. CASE Exact(history, e.wording) = NoCause /\ Text[e.wording] = Unread
             /\ Spiking(e.issuer, e.at)
  <2>1. d = Sure("issuer_down")
    BY <1>4, RuledCase
  <2>2. d.confident
    BY <2>1 DEF Sure
  <2>3. QED
    BY <1>4, <2>2
<1>5. CASE Exact(history, e.wording) = NoCause /\ Text[e.wording] = Unread
             /\ ~ Spiking(e.issuer, e.at)
  <2>1. ASSUME near # {}, AtLeast(MinMass, Risky(history, near), near)
        PROVE  FALSE
    <3>1. d = FromPrior(history, near)
      BY <1>5, <2>1, RuledCase
    <3>2. ~ d.confident /\ d.risk = RiskiestAlternative(history, near)
      BY <3>1 DEF FromPrior
    <3>3. near \in SUBSET DOMAIN history
      BY DEF Prior, ByContext
    <3>4. QED
      BY <1>1, <2>1, <3>2, <3>3, RiskNamed
  <2>2. QED
    BY <1>5, <2>1
<1>6. QED
  BY <1>2, <1>3, <1>4, <1>5

(* However long the history and whatever the thresholds: a retry that is let  *)
(* through on history's word is one history speaks for.                     *)
THEOREM RetryAlwaysRests == Spec => []RetryRestsOnEvidence
<1> DEFINE Inv == history \in Seq(Resolved)
<1>1. Init => Inv
  BY DEF Init
<1>2. Inv /\ [Next]_vars => Inv'
  BY DEF Next, vars, process, Resolve, Prepare, Start, RunEpisode, SaveCache, Snapshot,
         HeadToHead, Compared, BuildReport, WriteSummary, WriteReport, Ended, Exit, Warm
<1>3. Inv => RetryRestsOnEvidence
  BY HistoryRests
<1>4. QED
  BY <1>1, <1>2, <1>3, PTL DEF Spec
=============================================================================
