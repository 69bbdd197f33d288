----------------------------- MODULE PolicyGate -----------------------------
(***************************************************************************)
(* The deterministic policy gate of src/wapas/policy/gate.py, as pure      *)
(* operators.  evaluate() runs an ordered list of checks and returns at    *)
(* the first that objects; here Objections tells which do, by reason code, *)
(* CheckOrder is the order they run in, and the reason reported is the     *)
(* first in that order.                                                    *)
(*                                                                         *)
(* Time is in ticks from a midnight in IST, Day ticks to the day, so       *)
(* t % Day is the local time of day.                                       *)
(***************************************************************************)
EXTENDS Domain

CONSTANTS
  Day,      \* ticks per day
  Policy    \* the PolicyBundle: contact, money and escalation policy

Window == [start : 0 .. Day - 1, end : 0 .. Day - 1]

(* A name the gate does not know is "unrecognised": it is never met. *)
Precondition ==
  {"channel_consent", "voice_consent", "no_active_dispute",
   "no_active_promise", "b2b_only", "ledger_verified", "business_hours",
   "min_amount", "unrecognised"}

Rung == [channels : SUBSET Channel, cooldown : Nat, needs : SUBSET Precondition]

PolicyBundle ==
  [messagingQuiet : Window, voiceQuiet : Window, businessHours : Window,
   perDay : Nat, perWeek : Nat, voicePerWeek : Nat, contactsPerEpisode : Nat,
   noResponseCooldown : Nat, requireConsent : BOOLEAN, honourDnd : BOOLEAN,
   maxRetries : Nat, retryGap : Nat, neverRetry : SUBSET RootCause,
   verifyBeforeRetry : SUBSET RootCause, neverRouteAround : SUBSET RootCause,
   maxActions : Nat \ {0}, maxSpend : Nat, concessionPct : 0 .. 100,
   approvalAbove : Nat, orgSpendCap : Nat, minVoiceAmount : Nat,
   actionWindow : Nat \ {0}, ladder : Seq(Rung)]

ASSUME DayAssumption == Day \in Nat \ {0}
ASSUME PolicyAssumption == Policy \in PolicyBundle

-----------------------------------------------------------------------------
(* Quiet windows.                                                          *)

\* Mutation of InWindow: windows do not wrap past midnight.
InWindow_NoWrap(w, tod) == w.start <= tod /\ tod < w.end

(* A window whose start is after its end wraps past midnight. *)
InWindow(w, tod) ==
  IF w.start <= w.end THEN w.start <= tod /\ tod < w.end
                      ELSE w.start <= tod \/ tod < w.end

QuietWindow(channel) ==
  IF channel = "voice" THEN Policy.voiceQuiet ELSE Policy.messagingQuiet

NextAllowedTime(t, w) ==
  LET candidate == (t - (t % Day)) + w.end
  IN  IF ~ InWindow(w, t % Day) THEN t
      ELSE IF candidate <= t THEN candidate + Day ELSE candidate

-----------------------------------------------------------------------------
(* The gate's context.                                                     *)

ContactRecord == [at : Nat, channel : Channel, responded : BOOLEAN]

ContactsSince(c, since) ==
  {i \in DOMAIN c.history : c.history[i].at >= since}

VoiceCallsSince(c, since) ==
  {i \in ContactsSince(c, since) : c.history[i].channel = "voice"}

(* The latest contact (contacts at the same instant have the same effect). *)
LastContact(history) ==
  history[CHOOSE i \in DOMAIN history :
            \A j \in DOMAIN history : history[j].at <= history[i].at]

Target(p, c) == IF p.at # NoTime THEN p.at ELSE c.now

-----------------------------------------------------------------------------
(* The checks.                                                             *)

\* Mutation of AtCap: one more than the cap is let through.
AtCap_OneMore(used, cap) == used > cap

AtCap(used, cap) == used >= cap

\* Mutation of Doubted: the base-rate risk is not looked at.
Doubted_NoRisk(c) == {c.alternative}

(* The causes a hesitant diagnosis could not rule out. *)
Doubted(c) == {c.alternative, c.risk}

PreconditionMet(pre, p, c) ==
  CASE pre = "channel_consent"   -> p.channel \in c.consent
    [] pre = "voice_consent"     -> "voice" \in c.consent
    [] pre = "no_active_dispute" -> ~ c.dispute
    [] pre = "no_active_promise" -> c.now >= c.promiseUntil
    [] pre = "b2b_only"          -> c.business
    [] pre = "ledger_verified"   -> c.ledgerVerified
    [] pre = "business_hours"    -> InWindow(Policy.businessHours, c.now % Day)
    [] pre = "min_amount"        -> c.amount >= Policy.minVoiceAmount
    [] OTHER                     -> FALSE

RequestedRung(p, reached) == IF p.rung = NoRung THEN reached + 1 ELSE p.rung

\* Mutation of SkipsRungs: a rung may be left out.
SkipsRungs_ByTwo(requested, reached) == requested > reached + 2

SkipsRungs(requested, reached) == requested > reached + 1

(* Which checks object to action p in context c, by reason code.            *)
Objections(p, c) ==
  LET money     == p.tool \in MoneyActions
      retry     == p.tool = "retry_payment"
      concede   == p.tool = "offer_concession"
      contact   == p.tool \in ContactActions
      requested == RequestedRung(p, c.rung)
      onLadder  == contact /\ requested \in DOMAIN Policy.ladder
      rung      == Policy.ladder[requested]
      last      == LastContact(c.history)
  IN
  [kill_switch_engaged      |-> c.killSwitch,
   \* budgets
   budget_actions_exhausted |-> AtCap(c.actions, Policy.maxActions),
   budget_spend_exhausted   |-> AtCap(c.spend, Policy.maxSpend),
   org_daily_spend_cap      |-> AtCap(c.orgSpend, Policy.orgSpendCap),
   \* money actions
   never_route_around_cause |-> money /\ ~ retry /\ c.cause \in Policy.neverRouteAround,
   no_valid_mandate         |-> retry /\ ~ c.mandate,
   never_retry_cause        |-> retry /\ c.cause \in Policy.neverRetry \union NEVER_RETRY,
   alternative_cause_never_retryable |->
     retry /\ ~ c.confident /\ Doubted(c) \intersect Policy.neverRetry # {},
   capture_not_verified     |->
     retry /\ c.cause \in Policy.verifyBeforeRetry /\ ~ c.captureVerified,
   max_retries_reached      |-> retry /\ AtCap(c.retries, Policy.maxRetries),
   mandate_already_valid    |-> p.tool = "request_mandate_reauth" /\ c.mandate,
   concession_exceeds_cap   |->
     concede /\ p.value > (c.amount * Policy.concessionPct) \div 100,
   human_approval_required  |->
     concede /\ c.amount >= Policy.approvalAbove /\ ~ p.approved,
   \* consent and suppression
   opted_out                |-> contact /\ c.optedOut,
   dnd_registry             |-> contact /\ Policy.honourDnd /\ c.dnd,
   no_channel_consent       |->
     contact /\ Policy.requireConsent /\ p.channel \notin c.consent,
   third_party_contact      |-> contact /\ p.thirdParty,
   dispute_open             |-> contact /\ c.dispute,
   promise_to_pay_active    |-> contact /\ c.now < c.promiseUntil,
   contact_not_indicated_for_cause |-> contact /\ c.cause \in NeverContact,
   \* the escalation ladder
   skip_rungs_forbidden     |-> contact /\ SkipsRungs(requested, c.rung),
   ladder_exhausted         |-> contact /\ ~ onLadder,
   channel_not_permitted_at_rung |->
     onLadder /\ rung.channels # {} /\ p.channel \notin rung.channels,
   rung_cooldown_active     |->
     onLadder /\ c.lastRung # NoTime /\ c.now < c.lastRung + rung.cooldown,
   precondition_failed      |->
     onLadder /\ \E pre \in rung.needs : ~ PreconditionMet(pre, p, c),
   \* frequency caps
   episode_contact_cap      |-> contact /\ AtCap(c.contacts, Policy.contactsPerEpisode),
   daily_contact_cap        |->
     contact /\ AtCap(Cardinality(ContactsSince(c, c.now - Day)), Policy.perDay),
   weekly_contact_cap       |->
     contact /\ AtCap(Cardinality(ContactsSince(c, c.now - 7 * Day)), Policy.perWeek),
   weekly_voice_cap         |->
     /\ contact /\ p.channel = "voice"
     /\ AtCap(Cardinality(VoiceCallsSince(c, c.now - 7 * Day)), Policy.voicePerWeek),
   cooldown_after_no_response |->
     /\ contact /\ c.history # << >>
     /\ ~ last.responded
     /\ c.now - last.at < Policy.noResponseCooldown]

(* The order evaluate() runs the checks in: the first objection is reported. *)
CheckOrder ==
  << "kill_switch_engaged", "budget_actions_exhausted",
     "budget_spend_exhausted", "org_daily_spend_cap",
     "never_route_around_cause", "no_valid_mandate", "never_retry_cause",
     "alternative_cause_never_retryable", "capture_not_verified",
     "max_retries_reached", "mandate_already_valid",
     "concession_exceeds_cap", "human_approval_required",
     "opted_out", "dnd_registry", "no_channel_consent",
     "third_party_contact", "dispute_open", "promise_to_pay_active",
     "contact_not_indicated_for_cause", "skip_rungs_forbidden",
     "ladder_exhausted", "channel_not_permitted_at_rung",
     "rung_cooldown_active", "precondition_failed", "episode_contact_cap",
     "daily_contact_cap", "weekly_contact_cap", "weekly_voice_cap",
     "cooldown_after_no_response" >>

FirstObjection(objections) ==
  LET raised == {i \in DOMAIN CheckOrder : objections[CheckOrder[i]]}
  IN  CheckOrder[CHOOSE i \in raised : \A j \in raised : i <= j]

-----------------------------------------------------------------------------
(* The verdict.  Two rules rewrite the time of an action instead of         *)
(* refusing it: the gap between retries and the quiet hours.                *)

RetryTooSoon(p, c) ==
  /\ p.tool = "retry_payment"
  /\ c.lastRetry # NoTime
  /\ Target(p, c) - c.lastRetry < Policy.retryGap

InQuietHours(p, c) ==
  /\ p.tool \in ContactActions
  /\ NextAllowedTime(Target(p, c), QuietWindow(p.channel)) # Target(p, c)

Allow(p)      == [verdict |-> "allow", action |-> p]
Modify(p, t)  == [verdict |-> "modify", action |-> [p EXCEPT !.at = t]]
Deny(reason)  == [verdict |-> "deny", reason |-> reason]

(* Exits are never gated. *)
Evaluate(p, c) ==
  LET objections == Objections(p, c)
  IN  IF p.tool \in AlwaysAllowed THEN Allow(p)
      ELSE IF \E r \in DOMAIN objections : objections[r]
        THEN Deny(FirstObjection(objections))
      ELSE IF RetryTooSoon(p, c) THEN Modify(p, c.lastRetry + Policy.retryGap)
      ELSE IF InQuietHours(p, c)
        THEN Modify(p, NextAllowedTime(Target(p, c), QuietWindow(p.channel)))
      ELSE Allow(p)
=============================================================================
