----------------------------- MODULE ShippedMC -----------------------------
(***************************************************************************)
(* The episode loop under the arms and the policy that ship, on ticks of   *)
(* fifteen minutes, its refinement of RecoveryEpisode, and the policy-gate *)
(* scenarios tried at every step it reaches.                               *)
(***************************************************************************)
EXTENDS EpisodeSafety, Strategies, RedTeam

(* Opened a quarter past every third hour. *)
OpeningTimes == {3 * H * k + 1 : k \in 0 .. 7}

Hesitant ==
  [cause |-> "unknown", alternative |-> NoCause, risk |-> "risk_declined",
   confident |-> FALSE]

Confident(c) ==
  [cause |-> c, alternative |-> NoCause, risk |-> NoCause, confident |-> TRUE]

(* Consumers below the voice minimum, businesses above it. *)
ShippedEpisode(arm, opened, business, selfAt) ==
  [arm |-> arm, amount |-> IF business THEN 250000 ELSE 40000,
   business |-> business, disputer |-> business,
   consent |-> {"whatsapp", "email"} \union IF business THEN {"voice"} ELSE {"sms"},
   opened |-> opened,
   selfAt |-> IF selfAt = NoTime THEN NoTime ELSE opened + selfAt,
   trueCause |-> "insufficient_funds"]

ShippedEpisodes ==
  {ShippedEpisode(arm, opened, business, selfAt) :
     arm \in {"do_nothing", "naive_retry", "blast", "agent"},
     opened \in OpeningTimes, business \in BOOLEAN,
     selfAt \in {NoTime, 20 * H, 12 * D}}

ShippedDiagnoses(e) ==
  IF e.arm = "agent" THEN {Confident(c) : c \in RootCause} \union {Hesitant}
                     ELSE {NoDiagnosis}

ShippedTokens(e) == IF e.arm = "agent" THEN {0, 4} ELSE {0}

ShippedPartPayments(e) == {e.amount \div 2}

-----------------------------------------------------------------------------

(* src/redteam/scenarios.py tries each scenario once, in a context of its    *)
(* own; none escapes whatever context an episode has come to by then: its   *)
(* diagnosis, its counters, its history and the time of day are its own,    *)
(* only the facts of the scenario are laid over them.  And the gate is not  *)
(* safe by refusing: the ways out stay open.                                *)
ScenariosContained ==
  pc = "working" =>
    LET reached == GateContext(now)
    IN  /\ \A c \in {reached, FreshContext(reached)} : Escapes(c) = {} /\ ExitAvailable(c)
        /\ DeadCardGetsLink(reached)
=============================================================================
