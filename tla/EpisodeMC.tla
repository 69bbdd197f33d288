----------------------------- MODULE EpisodeMC -----------------------------
(***************************************************************************)
(* The episode loop on small ticks under a strategy that may propose       *)
(* anything on its menu at every step.  Three ticks make a day; the policy *)
(* keeps the shape of the shipped one with every limit within reach.       *)
(***************************************************************************)
EXTENDS EpisodeSafety

MCPolicy ==
  [messagingQuiet |-> [start |-> 2, end |-> 1],
   voiceQuiet     |-> [start |-> 2, end |-> 1],
   businessHours  |-> [start |-> 1, end |-> 2],
   perDay |-> 1, perWeek |-> 2, voicePerWeek |-> 1, contactsPerEpisode |-> 3,
   noResponseCooldown |-> 6, requireConsent |-> TRUE, honourDnd |-> TRUE,
   maxRetries |-> 2, retryGap |-> 2,
   neverRetry |-> {"risk_declined"},
   verifyBeforeRetry |-> {"technical_timeout"},
   neverRouteAround  |-> {"risk_declined"},
   maxActions |-> 4, maxSpend |-> 5, concessionPct |-> 10,
   approvalAbove |-> 3, orgSpendCap |-> 9, minVoiceAmount |-> 2,
   actionWindow |-> 24,
   ladder |->
     << [channels |-> {"whatsapp", "voice"}, cooldown |-> 0,
         needs |-> {"channel_consent"}],
        [channels |-> {}, cooldown |-> 7,
         needs |-> {"channel_consent", "no_active_dispute", "no_active_promise"}],
        [channels |-> {}, cooldown |-> 8,
         needs |-> {"voice_consent", "min_amount"}] >>]

MCPrice == [whatsapp |-> 2, sms |-> 1, email |-> 1, voice |-> 3, none |-> 0]

(* A consumer nobody pays for, or who pays within the tick; a business that *)
(* pays unasked days later.                                                *)
MCEpisodes ==
  {[arm |-> "any", amount |-> 2, business |-> selfAt = 13, disputer |-> selfAt = 13,
    consent |-> {"whatsapp", "voice"}, opened |-> 1,
    selfAt |-> selfAt, trueCause |-> "risk_declined"] : selfAt \in {NoTime, 1, 13}}

MCDiagnoses(e) ==
  {[cause |-> c, alternative |-> NoCause, risk |-> NoCause, confident |-> TRUE] :
     c \in {"technical_timeout", "mandate_revoked"}}
  \union
  {[cause |-> "unknown", alternative |-> NoCause, risk |-> r, confident |-> FALSE] :
     r \in {"risk_declined", NoCause}}

MCTokens(e) == {0, 3}

MCPartPayments(e) == {1}

(* Anything, at a time gone by, unspecified, soon or days away. *)
MCStrategy(e, d, n, t, contacts) ==
  {Propose("retry_payment", "none", NoRung, at) : at \in {e.opened, t + 1}}
  \union
  {Propose("send_message", ch, rung, at) :
     ch \in {"whatsapp", "voice"}, rung \in {1, 3}, at \in {e.opened, t + 5, t + 11}}
  \union
  {Propose("request_mandate_reauth", "whatsapp", NoRung, t + 11),
   Propose("verify_payment_claim", "none", NoRung, t + 1),
   Propose("create_payment_link", "none", NoRung, NoTime),
   Propose("escalate_to_human", "none", NoRung, t + 3),
   Propose("close_episode", "none", NoRung, NoTime),
   NoProposal}
=============================================================================
