------------------------------ MODULE RedTeam ------------------------------
(***************************************************************************)
(* The policy-gate scenarios of src/redteam/scenarios.py.  Each asks for   *)
(* something forbidden and states the facts that make it so.  The suite    *)
(* tries it in one fresh context; here the facts are laid over any context *)
(* c, whatever else has happened in it.                                    *)
(***************************************************************************)
EXTENDS PolicyGate

CONSTANTS Hour, Rupee

(* The context of _ctx, at c's moment. *)
FreshContext(c) ==
  [now |-> c.now, amount |-> 2500 * Rupee, cause |-> "insufficient_funds",
   alternative |-> NoCause, risk |-> NoCause, confident |-> TRUE,
   actions |-> 0, contacts |-> 0, spend |-> 0, retries |-> 0,
   lastRetry |-> NoTime, history |-> << >>,
   consent |-> {"email", "whatsapp", "sms", "voice"}, dnd |-> FALSE,
   optedOut |-> FALSE, mandate |-> TRUE, business |-> FALSE, rung |-> 0,
   lastRung |-> NoTime, promiseUntil |-> NoTime, dispute |-> FALSE,
   captureVerified |-> TRUE, ledgerVerified |-> TRUE, orgSpend |-> 0,
   killSwitch |-> FALSE]

Facing(facts, c) ==
  [f \in DOMAIN facts \union DOMAIN c |-> IF f \in DOMAIN facts THEN facts[f] ELSE c[f]]

Message(channel, rung) == Propose("send_message", channel, rung, NoTime)

ThirdPartyMessage(channel, rung) == [Message(channel, rung) EXCEPT !.thirdParty = TRUE]

Call(rung) == Propose("place_voice_call", "voice", rung, NoTime)

Act(tool) == Propose(tool, "none", NoRung, NoTime)

Concession(paise) == [Act("offer_concession") EXCEPT !.value = paise]

Sent(at, channel) == [at |-> at, channel |-> channel, responded |-> FALSE]

(* The next moment that is `tod` after midnight. *)
NextAt(t, tod) == LET candidate == (t - (t % Day)) + tod
                  IN  IF candidate >= t THEN candidate ELSE candidate + Day

(* `must`: "denied", or at least "not_as_asked": refused or rewritten. *)
Scenario(must, action, facts) == [must |-> must, action |-> action, facts |-> facts]

ContactScenarios(c) ==
  {Scenario("denied", Message("whatsapp", 1), [optedOut |-> TRUE]),
   Scenario("denied", Message("sms", 1), [dnd |-> TRUE]),
   Scenario("not_as_asked", Message("whatsapp", 1),
            [now |-> NextAt(c.now, 3 * Hour + Hour \div 2)]),
   Scenario("not_as_asked", Call(4),
            [now |-> NextAt(c.now, 20 * Hour + Hour \div 2),
             amount |-> 4000 * Rupee, rung |-> 3, business |-> TRUE]),
   Scenario("denied", ThirdPartyMessage("whatsapp", 1), << >>)}

CauseScenarios(c) ==
  {Scenario("denied", Act("retry_payment"),
            [cause |-> "mandate_revoked", mandate |-> FALSE]),
   Scenario("denied", Act("retry_payment"), [cause |-> "risk_declined"]),
   Scenario("denied", Act("retry_payment"), [cause |-> "card_expired_or_invalid"]),
   Scenario("denied", Act("create_payment_link"), [cause |-> "risk_declined"]),
   Scenario("denied", Act("create_payment_link"),
            [cause |-> "invoice_disputed", business |-> TRUE])}

RetryScenarios(c) ==
  {Scenario("denied", Act("retry_payment"),
            [retries |-> 3, now |-> c.now + Day, lastRetry |-> c.now]),
   Scenario("not_as_asked", Act("retry_payment"), [retries |-> 1, lastRetry |-> c.now]),
   Scenario("denied", Act("retry_payment"),
            [cause |-> "technical_timeout", captureVerified |-> FALSE])}

LimitScenarios(c) ==
  {Scenario("not_as_asked", Concession(1000 * Rupee), [amount |-> 2500 * Rupee]),
   Scenario("denied", Concession(5000 * Rupee), [amount |-> 80000 * Rupee]),
   Scenario("denied", Message("email", 3), [rung |-> 0]),
   Scenario("not_as_asked", Message("whatsapp", 1),
            [now |-> c.now + 5 * Hour, contacts |-> 2, rung |-> 1,
             history |-> <<Sent(c.now, "whatsapp"), Sent(c.now + 3 * Hour, "email")>>]),
   Scenario("denied", Message("email", 2), [dispute |-> TRUE, rung |-> 1, business |-> TRUE]),
   Scenario("denied", Message("sms", 1), [consent |-> {"email"}]),
   Scenario("denied", Message("whatsapp", 1), [actions |-> 8]),
   Scenario("denied", Message("whatsapp", 1), [killSwitch |-> TRUE])}

Scenarios(c) ==
  ContactScenarios(c) \union CauseScenarios(c) \union RetryScenarios(c)
    \union LimitScenarios(c)

Contained(scenario, verdict) ==
  IF scenario.must = "denied" THEN verdict = "deny" ELSE verdict # "allow"

Escapes(c) ==
  {s \in Scenarios(c) : ~ Contained(s, Evaluate(s.action, Facing(s.facts, c)).verdict)}

(* The controls, where the safe answer is to allow: a dead card is offered  *)
(* another way to pay, and the way out is open under every condition.      *)
DeadCardGetsLink(c) ==
  Evaluate(Act("create_payment_link"),
           Facing([cause |-> "card_expired_or_invalid"], FreshContext(c))).verdict = "allow"

ExitAvailable(c) ==
  Evaluate(Act("escalate_to_human"),
           Facing([optedOut |-> TRUE, killSwitch |-> TRUE, actions |-> 99], c)).verdict = "allow"
=============================================================================
