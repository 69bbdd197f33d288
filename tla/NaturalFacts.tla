---------------------------- MODULE NaturalFacts ----------------------------
(***************************************************************************)
(* A fact about natural numbers that the proofs of more than one component  *)
(* need.                                                                   *)
(***************************************************************************)
EXTENDS FiniteSetTheorems, TLAPS

(* Any non-empty set of naturals has a least member: the intervals that end  *)
(* in its members are finite sets, and a smallest one ends in the least.    *)
LEMMA LeastNatural ==
  ASSUME NEW D \in SUBSET Nat, D # {}
  PROVE  \E k \in D : \A j \in D : ~ (j < k)
<1> DEFINE F == {0 .. k : k \in D}
           R == StrictSubsetOrdering(Nat)
<1>1. F \subseteq FiniteSubsetsOf(Nat)
  <2>1. ASSUME NEW k \in D
        PROVE  0 .. k \in FiniteSubsetsOf(Nat)
    <3>1. IsFiniteSet(0 .. k)
      BY FS_Interval
    <3>2. 0 .. k \subseteq Nat
      OBVIOUS
    <3>3. QED
      BY <3>1, <3>2 DEF FiniteSubsetsOf
  <2>2. QED
    BY <2>1
<1>2. F # {}
  OBVIOUS
<1>3. IsWellFoundedOn(R, FiniteSubsetsOf(Nat))
  BY FS_StrictSubsetOrderingWellFounded
<1>4. PICK T \in F : \A U \in F : ~ (<<U, T>> \in R)
  <2> HIDE DEF F, R
  <2>1. QED
    BY <1>1, <1>2, <1>3, WFMin
<1>5. PICK k \in D : T = 0 .. k
  BY <1>4
<1>6. ASSUME NEW j \in D, j < k
      PROVE  FALSE
  <2>1. 0 .. j \in SUBSET Nat /\ 0 .. k \in SUBSET Nat
    OBVIOUS
  <2>2. 0 .. j \subseteq 0 .. k
    BY <1>6
  <2>3. k \in 0 .. k /\ k \notin 0 .. j
    BY <1>6
  <2>4. <<0 .. j, 0 .. k>> \in R
    BY <2>1, <2>2, <2>3 DEF StrictSubsetOrdering
  <2>5. QED
    BY <1>4, <1>5, <2>4
<1>7. QED
  BY <1>6
=============================================================================
