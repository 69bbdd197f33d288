----------------------------- MODULE DatabaseMC -----------------------------
(***************************************************************************)
(* Two references' worth of rows, so that a row may be attached to one     *)
(* episode and belong, through another column, to the other.               *)
(***************************************************************************)
EXTENDS Database, TLC

CONSTANTS References, Single

MCNumbers ==
  [t \in Table |->
     IF t \in {"counterparty", "risk_event", "episode"} THEN References ELSE {Single}]

(* The references are treated alike, and so are the sessions.               *)
Symmetry == Permutations(References) \union Permutations(Sessions)
=============================================================================
