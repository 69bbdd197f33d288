---------------------------- MODULE EvaluationMC ----------------------------
(***************************************************************************)
(* Five failures in strata of three and two: one of a wording history       *)
(* knows, one of a wording it finds ambiguous, and three of a new wording,  *)
(* in two amount bands.                                                    *)
(***************************************************************************)
EXTENDS Evaluation

MCRefs == 1 .. 5
MCAmount == << 100, 100, 200, 300, 300 >>

(* Three arms, so that five episodes reach each. *)
MCShares ==
  [treatment |-> 40, control |-> 30, baseline_naive |-> 0,
   baseline_blast |-> 0, baseline_rules |-> 30]

Card == << "payment", "card", "authorization", "issuer", "GATEWAY_ERROR" >>
Bank == << "payment", "card", "authentication", "customer", "BAD_REQUEST" >>

Failed(wording, context, issuer, when, band) ==
  [wording |-> wording, context |-> context, issuer |-> issuer, at |-> when, band |-> band]

MCCase ==
  << Failed("code 51", Bank, "SBI", 0, "low"),
     Failed("payment failed", Card, "HDFC", 60, "low"),
     Failed("new", Card, "SBI", 300, "low"),
     Failed("new", Card, "SBI", 500, "low"),
     Failed("new", Bank, "SBI", 520, "high") >>

MCQueue == << 1, 2, 3, 4, 5 >>

MCStream == {[ref |-> r, issuer |-> MCCase[r].issuer, at |-> MCCase[r].at] : r \in MCRefs}

MCText == [w \in {"code 51", "payment failed", "new"} |-> Unread]

(* Two that may be retried and two that may not. *)
MCCauses ==
  {"insufficient_funds", "issuer_down", "card_expired_or_invalid", "risk_declined"}

MCResolved ==
  {Exemplar("code 51", Bank, c) : c \in MCCauses}
    \union {Exemplar("payment failed", Card, c) : c \in MCCauses}

MCTrained ==
  {<< Exemplar("payment failed", Card, "insufficient_funds"),
      Exemplar("payment failed", Card, "risk_declined"),
      Exemplar("code 51", Bank, "insufficient_funds") >>}
=============================================================================
