---------------------------- MODULE DiagnoserMC ----------------------------
(***************************************************************************)
(* The diagnoser over four questions: one history knows, one it finds      *)
(* ambiguous, and two it has not seen, of which one may be a dead card.    *)
(***************************************************************************)
EXTENDS Diagnoser

MCQuestions == {"code_51", "payment_failed", "new_wording", "murky"}

MCReading ==
  [code_51 |-> "known", payment_failed |-> "ambiguous",
   new_wording |-> "unseen", murky |-> "unseen"]

MCRiskSeen ==
  [code_51 |-> NoCause, payment_failed |-> "risk_declined",
   new_wording |-> NoCause, murky |-> "card_expired_or_invalid"]

Says(cause, alternative, risk, confident) ==
  [cause |-> cause, alternative |-> alternative, risk |-> risk,
   confident |-> confident]

MCRulesSay ==
  [code_51        |-> Says("insufficient_funds", NoCause, NoCause, TRUE),
   payment_failed |-> Says("insufficient_funds", "issuer_down", "risk_declined", FALSE),
   new_wording    |-> Says("unknown", NoCause, NoCause, FALSE),
   murky          |-> Says("issuer_down", NoCause, "card_expired_or_invalid", FALSE)]

(* Sure of specific text, unsure with and without a runner-up, and surer     *)
(* than generic text supports.                                             *)
MCReplies ==
  {[quality |-> "specific", cause |-> "issuer_down", alternative |-> NoCause,
    confidence |-> 90],
   [quality |-> "weak", cause |-> "unknown", alternative |-> NoCause,
    confidence |-> 60],
   [quality |-> "weak", cause |-> "insufficient_funds",
    alternative |-> "limit_exceeded", confidence |-> 74],
   [quality |-> "generic", cause |-> "gateway_error", alternative |-> NoCause,
    confidence |-> 95]}

(* The primary supports two modes, the fallback one. *)
MCCandidates == << "primary", "fallback" >>
MCLadder == [primary |-> 2, fallback |-> 1]
MCRate == [primary |-> 2, fallback |-> 1]
=============================================================================
