--------------------------- MODULE ShippedPolicy ---------------------------
(***************************************************************************)
(* The policy files the repository ships (policies/contact.yaml,           *)
(* money.yaml, escalation.yaml) and the channel rates, in ticks of fifteen *)
(* minutes: the finest step any strategy schedules by.                     *)
(***************************************************************************)
EXTENDS Integers

H == 4
D == 24 * H

(* config/rates.yaml, in paise. *)
ShippedPrice ==
  [whatsapp |-> 35, sms |-> 12, email |-> 2, voice |-> 180, none |-> 0]

ShippedLadder ==
  << [channels |-> {"whatsapp", "email"}, cooldown |-> 0,
      needs |-> {"channel_consent"}],
     [channels |-> {"whatsapp", "sms", "email"}, cooldown |-> 3 * D,
      needs |-> {"channel_consent", "no_active_dispute", "no_active_promise"}],
     [channels |-> {"email"}, cooldown |-> 5 * D,
      needs |-> {"b2b_only", "ledger_verified", "no_active_dispute"}],
     [channels |-> {"voice"}, cooldown |-> 5 * D,
      needs |-> {"voice_consent", "business_hours", "min_amount"}],
     [channels |-> {}, cooldown |-> 3 * D, needs |-> {}] >>

ShippedPolicyBundle ==
  [messagingQuiet |-> [start |-> 21 * H, end |-> 8 * H],
   voiceQuiet     |-> [start |-> 19 * H, end |-> 8 * H],
   businessHours  |-> [start |-> 9 * H,  end |-> 18 * H],
   perDay |-> 1, perWeek |-> 3, voicePerWeek |-> 1, contactsPerEpisode |-> 4,
   noResponseCooldown |-> 48 * H, requireConsent |-> TRUE, honourDnd |-> TRUE,
   maxRetries |-> 3, retryGap |-> 4 * H,
   neverRetry |-> {"card_expired_or_invalid", "risk_declined",
                   "mandate_revoked", "customer_cancelled",
                   "invoice_disputed", "invoice_forgotten",
                   "invoice_cash_crunch"},
   verifyBeforeRetry |-> {"technical_timeout"},
   neverRouteAround  |-> {"risk_declined", "invoice_disputed"},
   maxActions |-> 8, maxSpend |-> 15000, concessionPct |-> 10,
   approvalAbove |-> 500000, orgSpendCap |-> 2000000,
   minVoiceAmount |-> 100000, actionWindow |-> 336 * H,
   ladder |-> ShippedLadder]
=============================================================================
