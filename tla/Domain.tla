------------------------------- MODULE Domain -------------------------------
(***************************************************************************)
(* The closed vocabularies of src/wapas/domain.py: root causes and what    *)
(* may be done about each, episode states and the transition table, tools  *)
(* and channels.  Nothing here has state; every other module extends it.   *)
(***************************************************************************)
EXTENDS Integers, Sequences, FiniteSets

(* An absent instant (None) and an absent rung argument. *)
NoTime == -1
NoRung == -1
Instant == Nat \union {NoTime}

-----------------------------------------------------------------------------
(* Root causes and their dispositions.                                     *)

RootCause ==
  {"insufficient_funds", "authentication_failed", "issuer_down",
   "gateway_error", "technical_timeout", "card_expired_or_invalid",
   "limit_exceeded", "risk_declined", "customer_cancelled",
   "mandate_revoked", "mandate_insufficient", "invoice_disputed",
   "invoice_forgotten", "invoice_cash_crunch", "unknown"}

NoCause == "no_cause"

(* The causes whose Disposition has retry_allowed=False. *)
NEVER_RETRY ==
  {"card_expired_or_invalid", "risk_declined", "customer_cancelled",
   "mandate_revoked", "invoice_disputed", "invoice_forgotten",
   "invoice_cash_crunch"}

(* The causes whose Disposition has verify_before_retry=True. *)
VERIFY_BEFORE_RETRY == {"technical_timeout"}

(* The causes whose Disposition has contact_customer=False. *)
NeverContact ==
  {"issuer_down", "gateway_error", "technical_timeout", "risk_declined",
   "invoice_disputed"}

-----------------------------------------------------------------------------
(* The episode lifecycle.                                                  *)

TERMINAL_STATES ==
  {"recovered", "partially_recovered", "skipped_negative_ev",
   "unrecoverable", "suppressed", "exhausted", "escalated", "failed"}

EpisodeState ==
  {"ingested", "triaged", "diagnosed", "planned", "gated", "acting",
   "waiting", "observed", "promised"} \union TERMINAL_STATES

(* The two states EpisodeResult.recovered counts as money in hand. *)
RecoveredStates == {"recovered", "partially_recovered"}

-----------------------------------------------------------------------------
(* Tools and channels.                                                     *)

AlwaysAllowed == {"escalate_to_human", "close_episode"}

MoneyActions ==
  {"retry_payment", "create_payment_link", "request_mandate_reauth",
   "offer_concession"}

ContactActions == {"send_message", "place_voice_call", "request_mandate_reauth"}

Tool ==
  MoneyActions \union ContactActions \union AlwaysAllowed
    \union {"record_promise_to_pay", "verify_payment_claim"}

Channel == {"whatsapp", "sms", "email", "voice", "none"}

-----------------------------------------------------------------------------
(* A proposed action, as strategies emit it and the gate rules on it.  The  *)
(* fields after `tool` are the args the gate or the engine reads; `at` is   *)
(* scheduled_for.                                                          *)

ProposedAction ==
  [tool : Tool, channel : Channel, rung : Nat \union {NoRung}, at : Instant,
   value : Nat, approved : BOOLEAN, thirdParty : BOOLEAN]

Propose(tool, channel, rung, at) ==
  [tool |-> tool, channel |-> channel, rung |-> rung, at |-> at,
   value |-> 0, approved |-> FALSE, thirdParty |-> FALSE]

(* next_action returned None: the strategy has nothing more to do. *)
NoProposal == [tool |-> "none"]

(* A diagnosis, reduced to what the gate reads.  `confident` is             *)
(* confidence >= 0.75, the one threshold the gate compares with.            *)
Diagnosis ==
  [cause : RootCause, alternative : RootCause \union {NoCause},
   risk : RootCause \union {NoCause}, confident : BOOLEAN]

(* What the gate context holds for a strategy that does not diagnose. *)
NoDiagnosis ==
  [cause |-> "unknown", alternative |-> NoCause, risk |-> NoCause,
   confident |-> TRUE]
=============================================================================
