----------------------------- MODULE Assignment -----------------------------
(***************************************************************************)
(* Which arm an episode falls to: stratified_assignment and _apportion of  *)
(* src/wapas/engine/runner.py under whatever shares it is given.         *)
(*                                                                         *)
(* Within a stratum the code orders the episodes by a hash of the seed and *)
(* the reference and deals the apportioned slots in that order: any dealing *)
(* with those counts.                                                      *)
(***************************************************************************)
EXTENDS Integers, FiniteSets

CONSTANTS
  Refs,     \* the episodes, numbered in the order of their references
  Amount,   \* ref -> paise
  Shares,   \* arm -> percent; an arm that is not in the dict has none
  Strata    \* how many strata; ten in the code

ASSUME RefsAssumption == Refs \subseteq Nat /\ IsFiniteSet(Refs)
ASSUME AmountAssumption == Amount \in [Refs -> Nat]
ASSUME StrataAssumption == Strata \in Nat \ {0}

Arm == {"treatment", "control", "baseline_naive", "baseline_blast", "baseline_rules"}

Total(f) ==
  f["treatment"] + f["control"] + f["baseline_naive"] + f["baseline_blast"]
    + f["baseline_rules"]

ASSUME SharesAssumption == Shares \in [Arm -> 0 .. 100] /\ Total(Shares) = 100

(* The shares of the published evaluation. *)
ARM_SHARES ==
  [treatment |-> 40, control |-> 15, baseline_naive |-> 15,
   baseline_blast |-> 15, baseline_rules |-> 15]

ASSUME ArmSharesAssumption == Total(ARM_SHARES) = 100

(* The order of the arms' names. *)
ByName ==
  [baseline_blast |-> 1, baseline_naive |-> 2, baseline_rules |-> 3,
   control |-> 4, treatment |-> 5]

-----------------------------------------------------------------------------
(* Strata: ranked by amount, into groups of equal count.                   *)

Before(q, r) == Amount[q] < Amount[r] \/ (Amount[q] = Amount[r] /\ q < r)

Rank(r) == Cardinality({q \in Refs : Before(q, r)})

Stratum(r) ==
  LET index == (Rank(r) * Strata) \div Cardinality(Refs)
  IN  IF index < Strata THEN index ELSE Strata - 1

Members(k) == {r \in Refs : Stratum(r) = k}

-----------------------------------------------------------------------------
(* Largest-remainder apportionment of `size` slots.                        *)

Floor(size) == [a \in Arm |-> (size * Shares[a]) \div 100]

(* What the floor leaves of an arm's quota, in hundredths of a slot. *)
Remainder(size) == [a \in Arm |-> (size * Shares[a]) % 100]

Leftover(size) == size - Total(Floor(size))

(* Larger remainders first, equals by name.  Two arms of different share    *)
(* whose remainders are equal are ranked by the rounding of a floating-point *)
(* product, which the model leaves open.                                   *)
Precedes(size, a, b) ==
  LET rest == Remainder(size)
  IN  \/ rest[a] > rest[b]
      \/ rest[a] = rest[b] /\ (Shares[a] = Shares[b] => ByName[a] < ByName[b])

\* Mutation of Extras: one arm gets them all.
Extras_ToOne(size) ==
  {[a \in Arm |-> IF a = b THEN Leftover(size) ELSE 0] : b \in Arm}

(* Who gets a leftover slot. *)
Extras(size) ==
  {g \in [Arm -> {0, 1}] :
     /\ Total(g) = Leftover(size)
     /\ \A a, b \in Arm : g[a] > g[b] => Precedes(size, a, b)}

Apportioned(size, g) == [a \in Arm |-> Floor(size)[a] + g[a]]

Dealt(arm, k, a) == Cardinality({r \in Members(k) : arm[r] = a})

Allocation ==
  {arm \in [Refs -> Arm] :
     \A k \in 0 .. Strata - 1 :
       \E g \in Extras(Cardinality(Members(k))) :
         \A a \in Arm : Dealt(arm, k, a) = Apportioned(Cardinality(Members(k)), g)[a]}

(* "Every arm receives the same amount profile to within one episode per     *)
(* decile": in a stratum an arm's count is less than one from its share.    *)
Balanced(arm) ==
  \A k \in 0 .. Strata - 1, a \in Arm :
    LET off == 100 * Dealt(arm, k, a) - Cardinality(Members(k)) * Shares[a]
    IN  -100 < off /\ off < 100
=============================================================================
