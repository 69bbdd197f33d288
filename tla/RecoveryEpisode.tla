-------------------------- MODULE RecoveryEpisode --------------------------
(***************************************************************************)
(* What working an episode comes to, seen from outside: it is open, it is  *)
(* concluded with a verdict and at most one payment, and it is settled,    *)
(* with one last chance for a payment that came unasked.  It promises that *)
(* the counterparty's money is counted once and that every episode ends.   *)
(***************************************************************************)
EXTENDS Domain

CONSTANTS
  Amounts,  \* what an episode can be for
  Sums      \* what a payment can bring

VARIABLES phase, amount, credit, verdict

episode == <<phase, amount, credit, verdict>>

Outcome == TERMINAL_STATES \ RecoveredStates

Open ==
  /\ phase = "open"
  /\ amount \in Amounts
  /\ credit = 0
  /\ verdict = "ingested"

ConcludeUnpaid ==
  /\ phase = "open"
  /\ phase' = "concluded"
  /\ verdict' \in Outcome
  /\ UNCHANGED <<amount, credit>>

(* All of the amount and "recovered", or part and "partially_recovered". *)
ConcludePaid ==
  /\ phase = "open"
  /\ phase' = "concluded"
  /\ credit' \in {s \in Sums : 0 < s /\ s <= amount}
  /\ verdict' = IF credit' = amount THEN "recovered" ELSE "partially_recovered"
  /\ UNCHANGED amount

(* Only an unpaid episode can still be credited, and then in full. *)
Settle ==
  /\ phase = "concluded"
  /\ phase' = "settled"
  /\ \/ UNCHANGED <<credit, verdict>>
     \/ /\ verdict \in Outcome
        /\ credit' = amount
        /\ verdict' = "recovered"
  /\ UNCHANGED amount

Advance == ConcludeUnpaid \/ ConcludePaid \/ Settle

Conduct == Open /\ [][Advance]_episode

(* The end is promised outright: nothing outside brings it about. *)
EpisodeSpec == Conduct /\ <>(phase = "settled")
=============================================================================
