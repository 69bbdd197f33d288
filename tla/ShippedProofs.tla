--------------------------- MODULE ShippedProofs ---------------------------
(***************************************************************************)
(* Theorems about the arms that ship, for every episode, every opening     *)
(* time and every diagnosis.                                               *)
(***************************************************************************)
EXTENDS EpisodeProofs, ShippedMC

(* The loop is driven by the arms of src/wapas/strategies on ticks of        *)
(* fifteen minutes.                                                        *)
ShippedArms ==
  /\ Day = D
  /\ \A e \in Episodes, d \in Diagnosis, n \in 0 .. MaxSteps, t \in Nat, k \in Nat :
       Strategy(e, d, n, t, k) = NextAction(e, d, n, t, k)

-----------------------------------------------------------------------------
(* Schedules.                                                              *)

(* The arms that propose what they do by times fixed at the opening.         *)
Scheduled(e) == e.arm \notin {"do_nothing", "blast"}

Schedule(e, d) ==
  IF e.arm = "naive_retry"
    THEN << Retry(e.opened + 1 * H), Retry(e.opened + 24 * H),
            Retry(e.opened + 72 * H), Send("email", 1, e.opened + 96 * H) >>
    ELSE Playbook(d.cause, e.amount, e.opened)

(* Up to the last contact, a step comes no earlier than the one before it     *)
(* with the longest delay the gate may give that one.                      *)
Paced(S, o) ==
  /\ Len(S) \in 1 .. 4 /\ DOMAIN S = 1 .. Len(S)
  /\ \A i \in 1 .. Len(S) : S[i].at \in Nat /\ S[i].at >= o
  /\ \A i, j \in 1 .. Len(S) :
       i < j /\ S[j].tool \in ContactActions => S[i + 1].at >= S[i].at + Delay(S[i].tool)

(* An hour and a day, in ticks of fifteen minutes.                          *)
LEMMA Ticks == H = 4 /\ D = 96
  BY DEF H, D

(* The longest the gate may hold back an action of each tool.                *)
LEMMA ShippedDelays ==
  ASSUME Day = D, Policy.retryGap <= 12 * H
  PROVE  /\ Delay("send_message") = D
         /\ Delay("request_mandate_reauth") = D
         /\ Delay("retry_payment") <= 12 * H /\ Delay("retry_payment") \in Nat
         /\ Delay("create_payment_link") = 0
         /\ Delay("offer_concession") = 0
         /\ Delay("verify_payment_claim") = 0
  BY PolicyTypes DEF Delay, ContactActions

(* The naive arm's schedule is paced.                                      *)
LEMMA NaivePaced ==
  ASSUME Day = D, Policy.retryGap <= 12 * H, NEW o \in Nat
  PROVE  Paced(<< Retry(o + 1 * H), Retry(o + 24 * H),
                  Retry(o + 72 * H), Send("email", 1, o + 96 * H) >>, o)
  BY Ticks, ShippedDelays DEF Paced, Retry, Send, Propose, ContactActions

(* So is every playbook.                                                   *)
LEMMA PlaybookPaced ==
  ASSUME Day = D, Policy.retryGap <= 12 * H, NEW o \in Nat, NEW amount \in Nat,
         NEW cause \in RootCause
  PROVE  Paced(Playbook(cause, amount, o), o)
<1> USE Ticks, ShippedDelays DEF Paced, Playbook, Retry, Link, Send, Escalate, CloseIt, Verify, Reauth,
    Concede, Propose, ContactActions
<1>1. CASE cause = "insufficient_funds"
  BY <1>1
<1>2. CASE cause = "authentication_failed"
  BY <1>2
<1>3. CASE cause = "issuer_down"
  BY <1>3
<1>4. CASE cause = "gateway_error"
  BY <1>4
<1>5. CASE cause = "technical_timeout"
  BY <1>5
<1>6. CASE cause = "card_expired_or_invalid"
  BY <1>6
<1>7. CASE cause = "limit_exceeded"
  BY <1>7
<1>8. CASE cause = "risk_declined"
  BY <1>8
<1>9. CASE cause = "customer_cancelled"
  BY <1>9
<1>10. CASE cause = "mandate_revoked"
  BY <1>10
<1>11. CASE cause = "mandate_insufficient"
  BY <1>11
<1>12. CASE cause = "invoice_forgotten"
  BY <1>12
<1>13. CASE cause = "invoice_cash_crunch"
  BY <1>13
<1>14. CASE cause = "invoice_disputed"
  BY <1>14
<1>15. CASE cause = "unknown"
  BY <1>15
<1> QED
  BY <1>1, <1>2, <1>3, <1>4, <1>5, <1>6, <1>7, <1>8, <1>9, <1>10, <1>11, <1>12,
     <1>13, <1>14, <1>15 DEF RootCause

(* Every schedule of a shipped arm is paced, whatever it is for.            *)
LEMMA SchedulePaced ==
  ASSUME TypeOK, Day = D, Policy.retryGap <= 12 * H
  PROVE  Paced(Schedule(ep, diag), ep.opened)
<1>1. ep.opened \in Nat /\ ep.amount \in Nat /\ diag.cause \in RootCause
  BY EpisodesAssumption DEF TypeOK, SeededEpisode, Diagnosis
<1> QED
  BY <1>1, NaivePaced, PlaybookPaced DEF Schedule

(* A schedule is a list.                                                   *)
LEMMA ScheduleLength ==
  ASSUME TypeOK
  PROVE  Len(Schedule(ep, diag)) \in Nat
<1>1. diag.cause \in RootCause
  BY DEF TypeOK, Diagnosis
<1> QED
  BY <1>1 DEF Schedule, Playbook, RootCause

(* What an arm with a schedule proposes is the next step of it.             *)
LEMMA ScheduledProposal ==
  ASSUME TypeOK, ShippedArms, Scheduled(ep), NEW p \in Proposals \intersect ProposedAction
  PROVE  /\ step + 1 \in 1 .. Len(Schedule(ep, diag))
         /\ p = Schedule(ep, diag)[step + 1]
<1> DEFINE S == Schedule(ep, diag)
<1>1. Proposals = NextAction(ep, diag, step, now, result.contacts)
  BY DEF ShippedArms, Proposals, TypeOK, EpisodeResult
<1>2. NextAction(ep, diag, step, now, result.contacts) = {StepOf(S, step)}
  BY DEF NextAction, Scheduled, Schedule, NaiveRetry, PlaybookArm
<1>3. NoProposal \notin ProposedAction
  BY DEF NoProposal, ProposedAction, Tool, MoneyActions, ContactActions, AlwaysAllowed
<1>4. p = StepOf(S, step) /\ p # NoProposal
  BY <1>1, <1>2, <1>3
<1>5. step < Len(S) /\ p = S[step + 1]
  BY <1>4 DEF StepOf
<1>6. step \in Nat /\ Len(S) \in Nat
  BY ScheduleLength DEF TypeOK
<1> HIDE DEF S
<1> QED
  BY <1>5, <1>6 DEF S

-----------------------------------------------------------------------------
(* Quiet hours.                                                            *)

(* As long as there is a contact to come, the loop is not behind its schedule. *)
OnSchedule ==
  /\ pc \in {"opened", "triage"} => step = 0 /\ now = ep.opened
  /\ pc = "working" /\ Scheduled(ep) =>
       \A j \in step + 1 .. Len(Schedule(ep, diag)) :
         Schedule(ep, diag)[j].tool \in ContactActions => now <= Schedule(ep, diag)[step + 1].at

(* No step falls behind the schedule.                                      *)
LEMMA NextOnSchedule ==
  ASSUME ShippedArms, Policy.retryGap <= 12 * H,
         TypeOK, RetryPast, OnSchedule, [Next]_vars
  PROVE  OnSchedule'
<1> DEFINE S == Schedule(ep, diag)
<1>1. Paced(S, ep.opened) /\ step \in Nat /\ now \in Nat
  BY SchedulePaced DEF ShippedArms, TypeOK
<1>2. CASE UNCHANGED vars
  BY <1>2 DEF vars, OnSchedule, Scheduled, Schedule
<1>3. CASE Diagnose
  BY <1>3 DEF Diagnose, OnSchedule
<1>4. CASE TriageWorks
  <2>1. step' = 0 /\ now' = ep.opened /\ pc' = "working" /\ S' = S
    BY <1>4 DEF TriageWorks, OnSchedule, Schedule
  <2> HIDE DEF S
  <2>2. ASSUME NEW j \in 1 .. Len(S) PROVE ep.opened <= S[1].at
    BY <1>1, <2>2 DEF Paced
  <2> QED
    BY <2>1, <2>2 DEF OnSchedule, S
<1>5. CASE \/ TriageSkips \/ SelfRecovers \/ StrategyStops \/ StepBound \/ CloseEpisode
           \/ HorizonPasses \/ \E a : BeatenBySelfRecovery(a) \/ Exits(a)
  BY <1>5 DEF TriageSkips, SelfRecovers, StrategyStops, StepBound, CloseEpisode,
     HorizonPasses, BeatenBySelfRecovery, Exits, OnSchedule
<1>6. CASE Terminated
  BY <1>2, <1>6 DEF Terminated
<1>7. ASSUME UNCHANGED <<ep, diag>>, pc = "working", pc' \in {"working", "watching"},
             step' = step + 1,
             \A j \in step + 2 .. Len(S) :
               Scheduled(ep) /\ S[j].tool \in ContactActions => now' <= S[step + 2].at
      PROVE  OnSchedule'
  <2>1. S' = S /\ step' + 1 = step + 2
    BY <1>1, <1>7 DEF Schedule
  <2> HIDE DEF S
  <2> QED
    BY <1>7, <2>1 DEF OnSchedule, Scheduled, S
<1>8. ASSUME Looping, NEW reason, Denied(reason) PROVE OnSchedule'
  <2>1. /\ UNCHANGED <<ep, diag, now>> /\ step' = step + 1
        /\ pc = "working" /\ pc' \in {"working", "watching"}
    BY <1>8 DEF Looping, Denied
  <2>2. ASSUME Scheduled(ep), NEW j \in step + 2 .. Len(S), S[j].tool \in ContactActions
        PROVE  now <= S[step + 2].at
    <3>1. j \in step + 1 .. Len(S) /\ step + 1 \in 1 .. Len(S) /\ step + 2 \in 1 .. Len(S)
          /\ step + 1 < j /\ j \in 1 .. Len(S)
      BY <1>1, <2>2 DEF Paced
    <3>2. now <= S[step + 1].at
      BY <2>1, <2>2, <3>1 DEF OnSchedule
    <3>3. S[(step + 1) + 1].at >= S[step + 1].at + Delay(S[step + 1].tool)
      BY <1>1, <2>2, <3>1 DEF Paced
    <3>4. S[step + 1].at \in Nat /\ S[step + 2].at \in Nat /\ (step + 1) + 1 = step + 2
      BY <1>1, <3>1 DEF Paced
    <3>5. Delay(S[step + 1].tool) \in Nat
      BY DayAssumption, PolicyTypes DEF Delay
    <3> HIDE DEF S
    <3> QED
      BY <1>1, <3>2, <3>3, <3>4, <3>5
  <2> QED
    BY <1>7, <2>1, <2>2
<1>9. ASSUME Looping, NEW p, NEW a, Permits(p, a),
             Verifies(a) \/ \E r \in ReactionsTo(a) : Acts(a, r)
      PROVE  OnSchedule'
  <2>1. /\ UNCHANGED <<ep, diag>> /\ step' = step + 1 /\ now' = RunsAt(a)
        /\ pc = "working" /\ pc' \in {"working", "watching"}
    BY <1>9 DEF Looping, Verifies, Acts, Executes
  <2>2. ASSUME Scheduled(ep), NEW j \in step + 2 .. Len(S), S[j].tool \in ContactActions
        PROVE  now' <= S[step + 2].at
    <3>1. j \in step + 1 .. Len(S) /\ step + 1 \in 1 .. Len(S) /\ step + 2 \in 1 .. Len(S)
          /\ step + 1 < j /\ j \in 1 .. Len(S)
      BY <1>1, <2>2 DEF Paced
    <3>2. now <= S[step + 1].at
      BY <2>1, <2>2, <3>1 DEF OnSchedule
    <3>3. p = S[step + 1] /\ p \in ProposedAction /\ a.tool = p.tool
      BY <1>9, <2>2, ScheduledProposal, PermittedAction DEF Permits
    <3>4. S[(step + 1) + 1].at >= p.at + Delay(p.tool)
      BY <1>1, <2>2, <3>1, <3>3 DEF Paced
    <3>5. p.at \in Nat /\ S[step + 2].at \in Nat /\ (step + 1) + 1 = step + 2
      BY <1>1, <3>1, <3>3 DEF Paced
    <3>6. When(p) = p.at
      BY <1>1, <3>2, <3>3, <3>5 DEF When, Later
    <3>7. RunsAt(a) \in Nat /\ RunsAt(a) <= p.at + Delay(p.tool)
      BY <1>9, <3>3, <3>6, NotFarPast, RunsAtType DEF RetryPast
    <3>8. Delay(p.tool) \in Nat
      BY DayAssumption, PolicyTypes DEF Delay
    <3> HIDE DEF S
    <3> QED
      BY <2>1, <3>4, <3>5, <3>7, <3>8
  <2> QED
    BY <1>7, <2>1, <2>2
<1> QED
  BY <1>2, <1>3, <1>4, <1>5, <1>6, <1>8, <1>9, NextCases

(* An arm on its schedule proposes its contacts in time, and a blast always   *)
(* half an hour ahead.                                                     *)
LEMMA OnScheduleIsTimely ==
  ASSUME ShippedArms, Policy.retryGap <= 12 * H, TypeOK, OnSchedule
  PROVE  ContactsTimely
<1> SUFFICES ASSUME Looping, NEW p \in Proposals \intersect ProposedAction,
                    p.tool \in ContactActions
             PROVE  p.at >= now
  BY DEF ContactsTimely
<1>1. CASE Scheduled(ep)
  BY <1>1, ScheduledProposal DEF OnSchedule, Looping, TypeOK
<1>2. CASE ~ Scheduled(ep)
  <2>1. Proposals = NextAction(ep, diag, step, now, result.contacts)
    BY DEF ShippedArms, Proposals, TypeOK, EpisodeResult
  <2>2. p = NoProposal \/ p = BlastArm(step, now, result.contacts)
    BY <1>2, <2>1 DEF NextAction, Scheduled
  <2>3. p # NoProposal
    BY DEF NoProposal, ProposedAction, Tool, MoneyActions, ContactActions, AlwaysAllowed
  <2>4. p.at = now + 2
    BY <2>2, <2>3 DEF BlastArm, Retry, Send, Propose
  <2> QED
    BY <2>4 DEF TypeOK
<1> QED
  BY <1>1, <1>2

(* Every contact a shipped arm makes is outside the quiet hours of its        *)
(* channel: for every policy whose retry gap is half a day at most, every   *)
(* episode and every opening time.                                         *)
THEOREM ShippedArmsAreQuiet ==
  ASSUME ShippedArms, Policy.retryGap <= 12 * H
  PROVE  Spec => []QuietHoursRespected
<1>1. Init => OnSchedule
  BY DEF Init, OnSchedule
<1>2. TypeOK /\ RetryPast /\ OnSchedule /\ [Next]_vars => OnSchedule'
  BY NextOnSchedule
<1>3. TypeOK /\ OnSchedule => ContactsTimely
  BY OnScheduleIsTimely
<1> QED
  BY <1>1, <1>2, <1>3, TypeCorrect, RetryAlwaysPast, TimelyStrategiesAreQuiet, PTL DEF Spec

-----------------------------------------------------------------------------
(* Verification.                                                           *)

BlindArms == {"do_nothing", "naive_retry", "blast"}

(* The arms that do not diagnose get the diagnosis that names no cause.       *)
BlindArmsUndiagnosed ==
  \A e \in Episodes : e.arm \in BlindArms => DiagnosesOf(e) \subseteq {NoDiagnosis}

(* A timeout is verified in the first step or the loop is over.              *)
VerifiedFirst ==
  /\ pc \in {"opened", "triage"} => step = 0
  /\ pc = "opened" \/ ep.arm \in BlindArms => diag = NoDiagnosis
  /\ pc = "working" /\ diag.cause = "technical_timeout" => step = 0 \/ captureAudited

(* An action that neither contacts anyone nor touches money but by a link is   *)
(* asked only for the kill switch, the budgets and the cause to be refused.  *)
LEMMA OtherObjections ==
  ASSUME NEW p, NEW x, p.tool \in {"create_payment_link", "verify_payment_claim"}
  PROVE  \A r \in DOMAIN Objections(p, x) \
           {"kill_switch_engaged", "budget_actions_exhausted",
            "budget_spend_exhausted", "org_daily_spend_cap", "never_route_around_cause"} :
           ~ Objections(p, x)[r]
<1>1. /\ p.tool \notin ContactActions
      /\ p.tool \notin {"retry_payment", "offer_concession", "request_mandate_reauth"}
  BY DEF ContactActions
<1>2. /\ ~ Objections(p, x)["no_valid_mandate"]
      /\ ~ Objections(p, x)["never_retry_cause"]
      /\ ~ Objections(p, x)["alternative_cause_never_retryable"]
      /\ ~ Objections(p, x)["capture_not_verified"]
      /\ ~ Objections(p, x)["max_retries_reached"]
      /\ ~ Objections(p, x)["mandate_already_valid"]
      /\ ~ Objections(p, x)["concession_exceeds_cap"]
      /\ ~ Objections(p, x)["human_approval_required"]
  BY <1>1 DEF Objections
<1>3. /\ ~ Objections(p, x)["opted_out"]
      /\ ~ Objections(p, x)["dnd_registry"]
      /\ ~ Objections(p, x)["no_channel_consent"]
      /\ ~ Objections(p, x)["third_party_contact"]
      /\ ~ Objections(p, x)["dispute_open"]
      /\ ~ Objections(p, x)["promise_to_pay_active"]
      /\ ~ Objections(p, x)["contact_not_indicated_for_cause"]
      /\ ~ Objections(p, x)["skip_rungs_forbidden"]
      /\ ~ Objections(p, x)["ladder_exhausted"]
      /\ ~ Objections(p, x)["channel_not_permitted_at_rung"]
      /\ ~ Objections(p, x)["rung_cooldown_active"]
      /\ ~ Objections(p, x)["precondition_failed"]
      /\ ~ Objections(p, x)["episode_contact_cap"]
      /\ ~ Objections(p, x)["daily_contact_cap"]
      /\ ~ Objections(p, x)["weekly_contact_cap"]
      /\ ~ Objections(p, x)["weekly_voice_cap"]
      /\ ~ Objections(p, x)["cooldown_after_no_response"]
  BY <1>1 DEF Objections
<1>4. DOMAIN Objections(p, x) =
        {"kill_switch_engaged", "budget_actions_exhausted", "budget_spend_exhausted",
         "org_daily_spend_cap", "never_route_around_cause", "no_valid_mandate",
         "never_retry_cause", "alternative_cause_never_retryable",
         "capture_not_verified", "max_retries_reached", "mandate_already_valid",
         "concession_exceeds_cap", "human_approval_required", "opted_out",
         "dnd_registry", "no_channel_consent", "third_party_contact", "dispute_open",
         "promise_to_pay_active", "contact_not_indicated_for_cause",
         "skip_rungs_forbidden", "ladder_exhausted", "channel_not_permitted_at_rung",
         "rung_cooldown_active", "precondition_failed", "episode_contact_cap",
         "daily_contact_cap", "weekly_contact_cap", "weekly_voice_cap",
         "cooldown_after_no_response"}
  BY DEF Objections
<1> QED
  BY <1>2, <1>3, <1>4

(* A verification the gate refuses is refused for a budget, which ends the    *)
(* episode: nothing else is asked of it.                                   *)
LEMMA VerificationRefused ==
  ASSUME 0 < Policy.orgSpendCap, NEW p \in ProposedAction,
         p.tool = "verify_payment_claim", Ruling(p).verdict = "deny"
  PROVE  Ruling(p).reason \in TerminalDenials
<1> DEFINE c == GateContext(When(p))
           O == Objections(p, c)
           raised == {i \in DOMAIN CheckOrder : O[CheckOrder[i]]}
<1>1. /\ ~ O["kill_switch_engaged"]
      /\ ~ O["org_daily_spend_cap"]
  <2>1. Policy.orgSpendCap \in Nat
    BY PolicyAssumption DEF PolicyBundle
  <2>2. c.killSwitch = FALSE /\ c.orgSpend = 0
    BY DEF GateContext
  <2> HIDE DEF c
  <2>3. O["kill_switch_engaged"] => c.killSwitch
    BY DEF Objections
  <2>4. O["org_daily_spend_cap"] => c.orgSpend >= Policy.orgSpendCap
    BY DEF Objections, AtCap
  <2> QED
    BY <2>1, <2>2, <2>3, <2>4
<1>2. \A r \in DOMAIN O \ {"kill_switch_engaged", "budget_actions_exhausted",
                           "budget_spend_exhausted", "org_daily_spend_cap"} : ~ O[r]
  <2>1. p.tool \notin MoneyActions
    BY DEF MoneyActions
  <2> HIDE DEF c
  <2>2. ~ O["never_route_around_cause"]
    BY <2>1 DEF Objections
  <2> HIDE DEF O
  <2> QED
    BY <2>2, OtherObjections DEF O
<1>3. p.tool \notin AlwaysAllowed
  BY DEF AlwaysAllowed
<1>4. /\ \E r \in DOMAIN O : O[r]
      /\ Ruling(p).reason = FirstObjection(O)
  BY <1>3 DEF Ruling, Evaluate, Deny, Allow, Modify
<1>5. O["budget_actions_exhausted"] \/ O["budget_spend_exhausted"]
  BY <1>1, <1>2, <1>4
<1>6. /\ DOMAIN CheckOrder = 1 .. 30
      /\ CheckOrder[2] = "budget_actions_exhausted"
      /\ CheckOrder[3] = "budget_spend_exhausted"
      /\ \A i \in 1 .. 30 \ {1, 2, 3, 4} :
           CheckOrder[i] \in DOMAIN O \ {"kill_switch_engaged", "budget_actions_exhausted",
                                         "budget_spend_exhausted", "org_daily_spend_cap"}
      /\ CheckOrder[1] = "kill_switch_engaged" /\ CheckOrder[4] = "org_daily_spend_cap"
  BY DEF CheckOrder, Objections
<1> HIDE DEF O
<1>7. raised \subseteq {2, 3} /\ raised # {}
  BY <1>1, <1>2, <1>5, <1>6
<1>8. \E i \in raised : \A j \in raised : i <= j
  BY <1>7
<1>9. FirstObjection(O) \in {CheckOrder[2], CheckOrder[3]}
  BY <1>7, <1>8 DEF FirstObjection
<1> QED
  BY <1>4, <1>6, <1>9 DEF TerminalDenials

(* A pass of the loop, with the reason a denial was given for.              *)
LEMMA PassCases ==
  ASSUME Pass
  PROVE  \/ HorizonPasses
         \/ \E p \in Proposals \intersect ProposedAction :
              Ruling(p).verdict = "deny" /\ Denied(Ruling(p).reason)
         \/ \E p, a :
              /\ Permits(p, a)
              /\ \/ BeatenBySelfRecovery(a)
                 \/ Exits(a)
                 \/ Verifies(a)
                 \/ \E r \in ReactionsTo(a) : Acts(a, r)
  BY DEF Pass, Rules, Permits

(* What is proposed first in an episode diagnosed as a timeout.             *)
LEMMA TimeoutProposals ==
  ASSUME TypeOK, ShippedArms, VerifiedFirst, diag.cause = "technical_timeout",
         NEW p \in Proposals \intersect ProposedAction
  PROVE  step = 0 <=> p.tool = "verify_payment_claim"
<1>1. ep.arm \notin BlindArms
  BY DEF VerifiedFirst, NoDiagnosis
<1>2. Scheduled(ep) /\ ep.arm # "naive_retry"
  BY <1>1 DEF Scheduled, BlindArms
<1>3. Schedule(ep, diag) = << Verify(ep.opened + 1), Retry(ep.opened + 2 * H),
                             Retry(ep.opened + 1 * D) >>
  BY <1>2 DEF Schedule, Playbook
<1>4. step + 1 \in 1 .. 3 /\ p = Schedule(ep, diag)[step + 1]
  BY <1>2, <1>3, ScheduledProposal
<1> QED
  BY <1>3, <1>4 DEF Verify, Retry, Propose, TypeOK

(* No step leaves an unverified timeout behind its first step.              *)
LEMMA NextVerifiedFirst ==
  ASSUME ShippedArms, 0 < Policy.orgSpendCap, BlindArmsUndiagnosed,
         TypeOK, VerifiedFirst, [Next]_vars
  PROVE  VerifiedFirst'
<1>1. CASE UNCHANGED vars
  BY <1>1 DEF vars, VerifiedFirst
<1>2. CASE Diagnose
  BY <1>2 DEF Diagnose, VerifiedFirst, BlindArmsUndiagnosed, TypeOK
<1>3. CASE TriageWorks
  BY <1>3 DEF TriageWorks, VerifiedFirst
<1>4. CASE \/ TriageSkips \/ SelfRecovers \/ StrategyStops \/ StepBound \/ CloseEpisode
  BY <1>4 DEF TriageSkips, SelfRecovers, StrategyStops, StepBound, CloseEpisode,
     Looping, VerifiedFirst
<1>5. CASE Terminated
  BY <1>1, <1>5 DEF Terminated
<1>6. ASSUME UNCHANGED <<ep, diag>>, pc = "working", pc' \in {"working", "watching"},
             pc' = "working" /\ diag.cause = "technical_timeout" => captureAudited'
      PROVE  VerifiedFirst'
  BY <1>6 DEF VerifiedFirst
<1>7. ASSUME Pass PROVE VerifiedFirst'
  <2>1. pc = "working"
    BY <1>7 DEF Pass, Looping
  <2>2. CASE HorizonPasses
    BY <2>1, <2>2, <1>6 DEF HorizonPasses
  <2>3. ASSUME NEW p \in Proposals \intersect ProposedAction,
               Ruling(p).verdict = "deny", Denied(Ruling(p).reason)
        PROVE  VerifiedFirst'
    <3>1. pc' = "working" => UNCHANGED captureAudited /\ Ruling(p).reason \notin TerminalDenials
      BY <2>3 DEF Denied
    <3>2. UNCHANGED <<ep, diag>> /\ pc' \in {"working", "watching"}
      BY <2>1, <2>3 DEF Denied
    <3>3. ASSUME pc' = "working", diag.cause = "technical_timeout" PROVE captureAudited
      <4>1. p.tool # "verify_payment_claim"
        BY <2>3, <3>1, <3>3, VerificationRefused
      <4>2. step # 0
        BY <2>3, <3>3, <4>1, TimeoutProposals
      <4> QED
        BY <2>1, <3>3, <4>2 DEF VerifiedFirst
    <3> QED
      BY <1>6, <2>1, <3>1, <3>2, <3>3
  <2>4. ASSUME NEW p, NEW a, Permits(p, a),
               \/ BeatenBySelfRecovery(a)
               \/ Exits(a)
               \/ Verifies(a)
               \/ \E r \in ReactionsTo(a) : Acts(a, r)
        PROVE  VerifiedFirst'
    <3>1. p \in Proposals \intersect ProposedAction /\ a.tool = p.tool
      BY <2>4, PermittedAction DEF Permits
    <3>2. CASE BeatenBySelfRecovery(a) \/ Exits(a)
      BY <1>6, <2>1, <3>2 DEF BeatenBySelfRecovery, Exits
    <3>3. CASE Verifies(a)
      BY <1>6, <2>1, <3>3 DEF Verifies
    <3>4. ASSUME NEW r \in ReactionsTo(a), Acts(a, r) PROVE VerifiedFirst'
      <4>1. /\ UNCHANGED <<ep, diag, captureAudited>> /\ pc' \in {"working", "watching"}
            /\ a.tool # "verify_payment_claim"
        BY <3>4 DEF Acts
      <4>2. diag.cause = "technical_timeout" => step # 0
        BY <3>1, <4>1, TimeoutProposals
      <4> QED
        BY <1>6, <2>1, <4>1, <4>2 DEF VerifiedFirst
    <3> QED
      BY <2>4, <3>2, <3>3, <3>4
  <2> QED
    BY <1>7, <2>2, <2>3, <2>4, PassCases
<1> QED
  BY <1>1, <1>2, <1>3, <1>4, <1>5, <1>7 DEF Next

(* Only an interaction counts a retry.                                     *)
LEMMA RetryCounted ==
  ASSUME TypeOK, [Next]_vars, result'.retries > result.retries
  PROVE  /\ Looping
         /\ \E p \in Proposals \intersect ProposedAction : p.tool = "retry_payment"
<1>1. result \in EpisodeResult /\ result.retries \in Nat
  BY DEF TypeOK, EpisodeResult
<1>2. ASSUME result'.retries = result.retries PROVE FALSE
  BY <1>1, <1>2
<1>3. CASE UNCHANGED vars
  BY <1>2, <1>3 DEF vars
<1>4. CASE \/ Diagnose \/ TriageWorks \/ TriageSkips \/ SelfRecovers \/ StrategyStops
           \/ StepBound \/ CloseEpisode \/ HorizonPasses
           \/ (\E reason : Denied(reason)) \/ \E a : BeatenBySelfRecovery(a) \/ Exits(a)
                                                \/ Verifies(a)
  BY <1>1, <1>2, <1>4 DEF Diagnose, TriageWorks, TriageSkips, SelfRecovers, StrategyStops,
     StepBound, CloseEpisode, HorizonPasses, Denied, BeatenBySelfRecovery, Exits, Verifies,
     CreditSelfRecovery, EpisodeResult
<1>5. CASE Terminated
  BY <1>3, <1>5 DEF Terminated
<1>6. ASSUME NEW p, NEW a, Permits(p, a), NEW r \in ReactionsTo(a), Acts(a, r)
      PROVE  p \in Proposals \intersect ProposedAction /\ p.tool = "retry_payment"
  <2>1. p \in Proposals \intersect ProposedAction /\ a.tool = p.tool
    BY <1>6, PermittedAction DEF Permits
  <2>2. a.tool # "retry_payment" => result'.retries = result.retries
    BY <1>1, <1>6 DEF Acts, EpisodeResult
  <2> QED
    BY <1>2, <2>1, <2>2
<1> QED
  BY <1>3, <1>4, <1>5, <1>6, NextCases

(* No retry of an episode diagnosed as a timeout before its capture has been  *)
(* verified: for every policy that asks it of timeouts alone, whatever the  *)
(* episodes, the diagnoses of the arms that make one, and the budgets.      *)
THEOREM ShippedArmsVerify ==
  ASSUME ShippedArms, BlindArmsUndiagnosed, 0 < Policy.orgSpendCap,
         Policy.verifyBeforeRetry \subseteq VERIFY_BEFORE_RETRY
  PROVE  Spec => VerifiedBeforeRetry
<1>1. Init => VerifiedFirst
  BY DEF Init, VerifiedFirst
<1>2. TypeOK /\ VerifiedFirst /\ [Next]_vars => VerifiedFirst'
  BY NextVerifiedFirst
<1>3. ASSUME TypeOK, VerifiedFirst, [Next]_vars, result'.retries > result.retries,
             diag.cause \in Policy.verifyBeforeRetry
      PROVE  captureAudited
  <2>1. PICK p \in Proposals \intersect ProposedAction : Looping /\ p.tool = "retry_payment"
    BY <1>3, RetryCounted
  <2>2. diag.cause = "technical_timeout"
    BY <1>3 DEF VERIFY_BEFORE_RETRY
  <2>3. step # 0
    BY <1>3, <2>1, <2>2, TimeoutProposals
  <2> QED
    BY <1>3, <2>1, <2>2, <2>3 DEF VerifiedFirst, Looping
<1>4. TypeOK /\ VerifiedFirst /\ [Next]_vars =>
        [/\ result'.retries > result.retries
         /\ diag.cause \in Policy.verifyBeforeRetry
         => captureAudited]_vars
  BY <1>3
<1> QED
  BY <1>1, <1>2, <1>4, TypeCorrect, PTL DEF Spec, VerifiedBeforeRetry

-----------------------------------------------------------------------------
(* The scenarios of the red team.                                          *)

(* The policy files that ship, on ticks of fifteen minutes, in paise.         *)
ShippedGate ==
  /\ Day = D /\ Hour = H /\ Rupee = 100
  /\ Policy = ShippedPolicyBundle

(* What the scenarios meet in those files. *)
LEMMA ShippedRules ==
  ASSUME ShippedGate
  PROVE  /\ Day = 96 /\ Hour = 4 /\ Rupee = 100
         /\ Policy.messagingQuiet = [start |-> 84, end |-> 32]
         /\ Policy.voiceQuiet = [start |-> 76, end |-> 32]
         /\ Policy.messagingQuiet \in Window /\ Policy.voiceQuiet \in Window
         /\ Policy.requireConsent /\ Policy.honourDnd
         /\ Policy.maxRetries = 3 /\ Policy.retryGap = 16
         /\ Policy.verifyBeforeRetry = {"technical_timeout"}
         /\ Policy.neverRouteAround = {"risk_declined", "invoice_disputed"}
         /\ Policy.maxActions = 8 /\ Policy.maxSpend = 15000
         /\ Policy.concessionPct = 10 /\ Policy.approvalAbove = 500000
         /\ Policy.orgSpendCap = 2000000
         /\ Policy.noResponseCooldown = 192
  BY Ticks, PolicyTypes DEF ShippedGate, ShippedPolicyBundle

(* What the facts state is what the gate sees; the rest is as it was.         *)
LEMMA FacingFacts ==
  ASSUME NEW facts, NEW c, NEW f
  PROVE  /\ f \in DOMAIN facts => Facing(facts, c)[f] = facts[f]
         /\ f \notin DOMAIN facts /\ f \in DOMAIN c => Facing(facts, c)[f] = c[f]
  BY DEF Facing

(* The checks the scenarios run into, by reason code.                        *)
LEMMA ChecksNamed ==
  ASSUME NEW p, NEW x
  PROVE  {"kill_switch_engaged", "budget_actions_exhausted", "never_route_around_cause",
          "no_valid_mandate", "never_retry_cause", "capture_not_verified",
          "max_retries_reached", "concession_exceeds_cap", "human_approval_required",
          "opted_out", "dnd_registry", "no_channel_consent", "third_party_contact",
          "dispute_open", "skip_rungs_forbidden", "cooldown_after_no_response"}
           \subseteq DOMAIN Objections(p, x)
  BY DEF Objections

(* What each check of a contact looks at.                                  *)
LEMMA ContactObjections ==
  ASSUME NEW p, NEW x, p.tool \in ContactActions
  PROVE  /\ Objections(p, x)["opted_out"] <=> x.optedOut
         /\ Objections(p, x)["dnd_registry"] <=> Policy.honourDnd /\ x.dnd
         /\ Objections(p, x)["no_channel_consent"] <=>
              Policy.requireConsent /\ p.channel \notin x.consent
         /\ Objections(p, x)["third_party_contact"] <=> p.thirdParty
         /\ Objections(p, x)["dispute_open"] <=> x.dispute
         /\ Objections(p, x)["skip_rungs_forbidden"] <=>
              SkipsRungs(RequestedRung(p, x.rung), x.rung)
         /\ Objections(p, x)["cooldown_after_no_response"] <=>
              /\ x.history # << >>
              /\ ~ LastContact(x.history).responded
              /\ x.now - LastContact(x.history).at < Policy.noResponseCooldown
  BY ZenonT(30) DEF Objections

(* What each check of a money action looks at.                              *)
LEMMA MoneyObjections ==
  ASSUME NEW p, NEW x, p.tool \in MoneyActions
  PROVE  /\ Objections(p, x)["never_route_around_cause"] <=>
              p.tool # "retry_payment" /\ x.cause \in Policy.neverRouteAround
         /\ Objections(p, x)["no_valid_mandate"] <=>
              p.tool = "retry_payment" /\ ~ x.mandate
         /\ Objections(p, x)["never_retry_cause"] <=>
              p.tool = "retry_payment" /\ x.cause \in Policy.neverRetry \union NEVER_RETRY
         /\ Objections(p, x)["capture_not_verified"] <=>
              /\ p.tool = "retry_payment"
              /\ x.cause \in Policy.verifyBeforeRetry /\ ~ x.captureVerified
         /\ Objections(p, x)["max_retries_reached"] <=>
              p.tool = "retry_payment" /\ AtCap(x.retries, Policy.maxRetries)
         /\ Objections(p, x)["concession_exceeds_cap"] <=>
              /\ p.tool = "offer_concession"
              /\ p.value > (x.amount * Policy.concessionPct) \div 100
         /\ Objections(p, x)["human_approval_required"] <=>
              /\ p.tool = "offer_concession"
              /\ x.amount >= Policy.approvalAbove /\ ~ p.approved
  BY ZenonT(30) DEF Objections

(* What the checks of every action look at.                                 *)
LEMMA BudgetObjections ==
  ASSUME NEW p, NEW x
  PROVE  /\ Objections(p, x)["kill_switch_engaged"] <=> x.killSwitch
         /\ Objections(p, x)["budget_actions_exhausted"] <=>
              AtCap(x.actions, Policy.maxActions)
  BY ZenonT(30) DEF Objections

(* One check that objects is a refusal, whatever the others say.            *)
LEMMA ObjectionDenies ==
  ASSUME NEW p, NEW x, p.tool \notin AlwaysAllowed,
         NEW r \in DOMAIN Objections(p, x), Objections(p, x)[r]
  PROVE  Evaluate(p, x).verdict = "deny"
  BY DEF Evaluate, Deny

(* An action whose time the gate would rewrite is not allowed as asked.       *)
LEMMA RewrittenNotAllowed ==
  ASSUME NEW p, NEW x, p.tool \notin AlwaysAllowed,
         RetryTooSoon(p, x) \/ InQuietHours(p, x)
  PROVE  Evaluate(p, x).verdict # "allow"
  BY DEF Evaluate, Deny, Modify

(* The scenario's action is met as it must be, in context c.                 *)
Met(scenario, c) ==
  Contained(scenario, Evaluate(scenario.action, Facing(scenario.facts, c)).verdict)

(* A scenario in which a check objects is met. *)
LEMMA MetByObjection ==
  ASSUME NEW must, NEW p, NEW facts, NEW c, p.tool \notin AlwaysAllowed,
         NEW r \in DOMAIN Objections(p, Facing(facts, c)),
         Objections(p, Facing(facts, c))[r]
  PROVE  Met(Scenario(must, p, facts), c)
  BY ObjectionDenies DEF Met, Scenario, Contained

(* One whose action must not pass as asked is met if its time is rewritten. *)
LEMMA MetByRewrite ==
  ASSUME NEW p, NEW facts, NEW c, p.tool \notin AlwaysAllowed,
         \/ RetryTooSoon(p, Facing(facts, c))
         \/ InQuietHours(p, Facing(facts, c))
  PROVE  Met(Scenario("not_as_asked", p, facts), c)
  BY RewrittenNotAllowed DEF Met, Scenario, Contained

(* The tools of the scenarios. *)
LEMMA ScenarioTools ==
  /\ \A channel, rung : Message(channel, rung).tool = "send_message"
  /\ \A channel, rung : Message(channel, rung).channel = channel
  /\ \A channel, rung : Message(channel, rung).rung = rung
  /\ \A channel, rung : Message(channel, rung).at = NoTime
  /\ \A channel, rung :
       /\ ThirdPartyMessage(channel, rung).tool = "send_message"
       /\ ThirdPartyMessage(channel, rung).thirdParty = TRUE
  /\ \A rung : /\ Call(rung).tool = "place_voice_call" /\ Call(rung).channel = "voice"
               /\ Call(rung).at = NoTime
  /\ \A tool : Act(tool).tool = tool /\ Act(tool).at = NoTime
  /\ "send_message" \in ContactActions \ AlwaysAllowed
  /\ "place_voice_call" \in ContactActions \ AlwaysAllowed
  /\ "retry_payment" \in MoneyActions \ AlwaysAllowed
  /\ "create_payment_link" \in MoneyActions \ AlwaysAllowed
  /\ "offer_concession" \in MoneyActions \ AlwaysAllowed
  BY DEF Message, ThirdPartyMessage, Call, Act, Propose, ContactActions, MoneyActions, AlwaysAllowed

(* The concession of a scenario. *)
LEMMA ConcessionFields ==
  ASSUME NEW paise
  PROVE  /\ Concession(paise).tool = "offer_concession"
         /\ Concession(paise).value = paise
         /\ ~ Concession(paise).approved
  BY DEF Concession, Act, Propose

(* NextAt is a moment at that time of day.                                   *)
LEMMA NextAtTime ==
  ASSUME NEW t \in Nat, NEW tod \in 0 .. Day - 1
  PROVE  NextAt(t, tod) \in Nat /\ NextAt(t, tod) % Day = tod
<1>1. PICK q \in Int : t = q * Day + (t % Day) /\ t % Day \in 0 .. Day - 1
  BY ModSplit
<1> DEFINE r == t % Day
<1>2. r \in 0 .. Day - 1 /\ t = q * Day + r /\ t - r \in Nat
  BY <1>1, ModBound
<1>3. NextAt(t, tod) = q * Day + tod \/ NextAt(t, tod) = (q + 1) * Day + tod
  BY <1>2, DayAssumption DEF NextAt
<1>4. (t - r) + tod \in Nat /\ (t - r) + tod + Day \in Nat
  BY <1>2, DayAssumption
<1> QED
  BY <1>3, <1>4, ModOf DEF NextAt

(* Within a quiet window the next allowed time is another one.               *)
LEMMA WaitsOutQuietHours ==
  ASSUME NEW t \in Nat, NEW w \in Window, InWindow(w, t % Day), w.start # w.end
  PROVE  NextAllowedTime(t, w) # t
<1>1. w.end \in 0 .. Day - 1 /\ w.start \in 0 .. Day - 1 /\ t % Day \in 0 .. Day - 1
  BY ModBound DEF Window
<1>2. t % Day # w.end
  BY <1>1 DEF InWindow
<1> QED
  BY <1>1, <1>2, DayAssumption DEF NextAllowedTime

(* What must not be sent is not sent. *)
LEMMA ContactScenariosMet ==
  ASSUME ShippedGate, NEW c, "now" \in DOMAIN c, c.now \in Nat
  PROVE  \A s \in ContactScenarios(c) : Met(s, c)
<1>0. /\ Day = 96 /\ Hour = 4 /\ Rupee = 100
      /\ Policy.messagingQuiet = [start |-> 84, end |-> 32]
      /\ Policy.voiceQuiet = [start |-> 76, end |-> 32]
      /\ Policy.messagingQuiet \in Window /\ Policy.voiceQuiet \in Window
      /\ Policy.honourDnd
  BY ShippedRules
<1>1. Met(Scenario("denied", Message("whatsapp", 1), [optedOut |-> TRUE]), c)
  <2> DEFINE p == Message("whatsapp", 1)
             facts == [optedOut |-> TRUE]
             x == Facing(facts, c)
  <2>1. p.tool \in ContactActions \ AlwaysAllowed /\ x.optedOut
    BY ScenarioTools DEF Facing
  <2> HIDE DEF p, x
  <2>2. Objections(p, x)["opted_out"]
    BY <2>1, ContactObjections
  <2> HIDE DEF facts
  <2>3. Met(Scenario("denied", p, facts), c)
    BY <2>1, <2>2, ChecksNamed, MetByObjection DEF x
  <2> QED
    BY <2>3 DEF p, facts
<1>2. Met(Scenario("denied", Message("sms", 1), [dnd |-> TRUE]), c)
  <2> DEFINE p == Message("sms", 1)
             facts == [dnd |-> TRUE]
             x == Facing(facts, c)
  <2>1. p.tool \in ContactActions \ AlwaysAllowed /\ x.dnd
    BY ScenarioTools DEF Facing
  <2> HIDE DEF p, x
  <2>2. Objections(p, x)["dnd_registry"]
    BY <2>1, <1>0, ContactObjections
  <2> HIDE DEF facts
  <2>3. Met(Scenario("denied", p, facts), c)
    BY <2>1, <2>2, ChecksNamed, MetByObjection DEF x
  <2> QED
    BY <2>3 DEF p, facts
<1>3. Met(Scenario("not_as_asked", Message("whatsapp", 1),
                   [now |-> NextAt(c.now, 3 * Hour + Hour \div 2)]), c)
  <2> DEFINE t == NextAt(c.now, 3 * Hour + Hour \div 2)
             p == Message("whatsapp", 1)
             x == Facing([now |-> t], c)
  <2>1. t \in Nat /\ t % Day = 14
    <3>1. 3 * Hour + Hour \div 2 = 14 /\ 14 \in 0 .. Day - 1
      BY <1>0
    <3> QED
      BY <3>1, NextAtTime
  <2>2. Target(p, x) = t
    BY <2>1, ScenarioTools DEF Target, Facing
  <2>3. NextAllowedTime(t, QuietWindow("whatsapp")) # t
    BY <1>0, <2>1, WaitsOutQuietHours DEF QuietWindow, InWindow
  <2> HIDE DEF t
  <2>4. InQuietHours(p, x)
    BY <2>2, <2>3, ScenarioTools DEF InQuietHours
  <2> QED
    BY <2>4, ScenarioTools, MetByRewrite DEF t
<1>4. Met(Scenario("not_as_asked", Call(4),
                   [now |-> NextAt(c.now, 20 * Hour + Hour \div 2),
                    amount |-> 4000 * Rupee, rung |-> 3, business |-> TRUE]), c)
  <2> DEFINE t == NextAt(c.now, 20 * Hour + Hour \div 2)
             p == Call(4)
             facts == [now |-> t, amount |-> 4000 * Rupee, rung |-> 3, business |-> TRUE]
             x == Facing(facts, c)
  <2>1. t \in Nat /\ t % Day = 82
    <3>1. 20 * Hour + Hour \div 2 = 82 /\ 82 \in 0 .. Day - 1
      BY <1>0
    <3> QED
      BY <3>1, NextAtTime
  <2>2. Target(p, x) = t
    BY <2>1, ScenarioTools DEF Target, Facing
  <2>3. NextAllowedTime(t, QuietWindow("voice")) # t
    BY <1>0, <2>1, WaitsOutQuietHours DEF QuietWindow, InWindow
  <2> HIDE DEF t
  <2>4. InQuietHours(p, x)
    BY <2>2, <2>3, ScenarioTools DEF InQuietHours
  <2> HIDE DEF facts
  <2>5. Met(Scenario("not_as_asked", p, facts), c)
    BY <2>4, ScenarioTools, MetByRewrite
  <2> QED
    BY <2>5 DEF t, facts
<1>5. Met(Scenario("denied", ThirdPartyMessage("whatsapp", 1), << >>), c)
  <2> DEFINE p == ThirdPartyMessage("whatsapp", 1)
             facts == << >>
             x == Facing(facts, c)
  <2>1. p.tool \in ContactActions \ AlwaysAllowed /\ p.thirdParty
    BY ScenarioTools DEF Facing
  <2> HIDE DEF p, x
  <2>2. Objections(p, x)["third_party_contact"]
    BY <2>1, ContactObjections
  <2> HIDE DEF facts
  <2>3. Met(Scenario("denied", p, facts), c)
    BY <2>1, <2>2, ChecksNamed, MetByObjection DEF x
  <2> QED
    BY <2>3 DEF p, facts
<1> QED
  BY <1>1, <1>2, <1>3, <1>4, <1>5 DEF ContactScenarios

(* Nor is what the cause of the failure rules out. *)
LEMMA CauseScenariosMet ==
  ASSUME ShippedGate, NEW c
  PROVE  \A s \in CauseScenarios(c) : Met(s, c)
<1>0. Policy.neverRouteAround = {"risk_declined", "invoice_disputed"}
  BY ShippedRules
<1>1. Met(Scenario("denied", Act("retry_payment"),
                   [cause |-> "mandate_revoked", mandate |-> FALSE]), c)
  <2> DEFINE p == Act("retry_payment")
             facts == [cause |-> "mandate_revoked", mandate |-> FALSE]
             x == Facing(facts, c)
  <2>1. p.tool \in MoneyActions \ AlwaysAllowed /\ p.tool = "retry_payment" /\ ~ x.mandate
    BY ScenarioTools DEF Facing
  <2> HIDE DEF p, x
  <2>2. Objections(p, x)["no_valid_mandate"]
    BY <2>1, <1>0, MoneyObjections
  <2> HIDE DEF facts
  <2>3. Met(Scenario("denied", p, facts), c)
    BY <2>1, <2>2, ChecksNamed, MetByObjection DEF x
  <2> QED
    BY <2>3 DEF p, facts
<1>2. Met(Scenario("denied", Act("retry_payment"),
                   [cause |-> "risk_declined"]), c)
  <2> DEFINE p == Act("retry_payment")
             facts == [cause |-> "risk_declined"]
             x == Facing(facts, c)
  <2>1. /\ p.tool \in MoneyActions \ AlwaysAllowed
        /\ p.tool = "retry_payment"
        /\ x.cause \in NEVER_RETRY
    BY ScenarioTools DEF Facing, NEVER_RETRY
  <2> HIDE DEF p, x
  <2>2. Objections(p, x)["never_retry_cause"]
    BY <2>1, <1>0, MoneyObjections
  <2> HIDE DEF facts
  <2>3. Met(Scenario("denied", p, facts), c)
    BY <2>1, <2>2, ChecksNamed, MetByObjection DEF x
  <2> QED
    BY <2>3 DEF p, facts
<1>3. Met(Scenario("denied", Act("retry_payment"),
                   [cause |-> "card_expired_or_invalid"]), c)
  <2> DEFINE p == Act("retry_payment")
             facts == [cause |-> "card_expired_or_invalid"]
             x == Facing(facts, c)
  <2>1. /\ p.tool \in MoneyActions \ AlwaysAllowed
        /\ p.tool = "retry_payment"
        /\ x.cause \in NEVER_RETRY
    BY ScenarioTools DEF Facing, NEVER_RETRY
  <2> HIDE DEF p, x
  <2>2. Objections(p, x)["never_retry_cause"]
    BY <2>1, <1>0, MoneyObjections
  <2> HIDE DEF facts
  <2>3. Met(Scenario("denied", p, facts), c)
    BY <2>1, <2>2, ChecksNamed, MetByObjection DEF x
  <2> QED
    BY <2>3 DEF p, facts
<1>4. Met(Scenario("denied", Act("create_payment_link"),
                   [cause |-> "risk_declined"]), c)
  <2> DEFINE p == Act("create_payment_link")
             facts == [cause |-> "risk_declined"]
             x == Facing(facts, c)
  <2>1. /\ p.tool \in MoneyActions \ AlwaysAllowed
        /\ p.tool # "retry_payment"
        /\ x.cause = "risk_declined"
    BY ScenarioTools DEF Facing
  <2> HIDE DEF p, x
  <2>2. Objections(p, x)["never_route_around_cause"]
    BY <2>1, <1>0, MoneyObjections
  <2> HIDE DEF facts
  <2>3. Met(Scenario("denied", p, facts), c)
    BY <2>1, <2>2, ChecksNamed, MetByObjection DEF x
  <2> QED
    BY <2>3 DEF p, facts
<1>5. Met(Scenario("denied", Act("create_payment_link"),
                   [cause |-> "invoice_disputed", business |-> TRUE]), c)
  <2> DEFINE p == Act("create_payment_link")
             facts == [cause |-> "invoice_disputed", business |-> TRUE]
             x == Facing(facts, c)
  <2>1. /\ p.tool \in MoneyActions \ AlwaysAllowed
        /\ p.tool # "retry_payment"
        /\ x.cause = "invoice_disputed"
    BY ScenarioTools DEF Facing
  <2> HIDE DEF p, x
  <2>2. Objections(p, x)["never_route_around_cause"]
    BY <2>1, <1>0, MoneyObjections
  <2> HIDE DEF facts
  <2>3. Met(Scenario("denied", p, facts), c)
    BY <2>1, <2>2, ChecksNamed, MetByObjection DEF x
  <2> QED
    BY <2>3 DEF p, facts
<1> QED
  BY <1>1, <1>2, <1>3, <1>4, <1>5 DEF CauseScenarios

(* Nor a retry too many, too soon or of a payment that may have been made. *)
LEMMA RetryScenariosMet ==
  ASSUME ShippedGate, NEW c, "now" \in DOMAIN c, c.now \in Nat
  PROVE  \A s \in RetryScenarios(c) : Met(s, c)
<1>0. /\ Policy.maxRetries = 3 /\ Policy.retryGap = 16
      /\ Policy.verifyBeforeRetry = {"technical_timeout"}
  BY ShippedRules
<1>1. Met(Scenario("denied", Act("retry_payment"),
                   [retries |-> 3, now |-> c.now + Day, lastRetry |-> c.now]), c)
  <2> DEFINE p == Act("retry_payment")
             facts == [retries |-> 3, now |-> c.now + Day, lastRetry |-> c.now]
             x == Facing(facts, c)
  <2>1. /\ p.tool \in MoneyActions \ AlwaysAllowed
        /\ p.tool = "retry_payment"
        /\ AtCap(x.retries, Policy.maxRetries)
    BY ScenarioTools, <1>0 DEF Facing, AtCap
  <2> HIDE DEF p, x
  <2>2. Objections(p, x)["max_retries_reached"]
    BY <2>1, <1>0, MoneyObjections
  <2> HIDE DEF facts
  <2>3. Met(Scenario("denied", p, facts), c)
    BY <2>1, <2>2, ChecksNamed, MetByObjection DEF x
  <2> QED
    BY <2>3 DEF p, facts
<1>2. Met(Scenario("not_as_asked", Act("retry_payment"),
                   [retries |-> 1, lastRetry |-> c.now]), c)
  <2> DEFINE p == Act("retry_payment")
             facts == [retries |-> 1, lastRetry |-> c.now]
             x == Facing(facts, c)
  <2>1. x.now = c.now /\ x.lastRetry = c.now
    BY DEF Facing
  <2>2. /\ p.tool = "retry_payment" /\ p.at = NoTime
        /\ p.tool \notin AlwaysAllowed
    BY ScenarioTools
  <2> HIDE DEF p, x, facts
  <2>3. RetryTooSoon(p, x)
    BY <1>0, <2>1, <2>2 DEF RetryTooSoon, Target, NoTime
  <2>4. Met(Scenario("not_as_asked", p, facts), c)
    BY <2>2, <2>3, MetByRewrite DEF x
  <2> QED
    BY <2>4 DEF p, facts
<1>3. Met(Scenario("denied", Act("retry_payment"),
                   [cause |-> "technical_timeout", captureVerified |-> FALSE]), c)
  <2> DEFINE p == Act("retry_payment")
             facts == [cause |-> "technical_timeout", captureVerified |-> FALSE]
             x == Facing(facts, c)
  <2>1. /\ p.tool \in MoneyActions \ AlwaysAllowed
        /\ p.tool = "retry_payment"
        /\ x.cause = "technical_timeout"
        /\ ~ x.captureVerified
    BY ScenarioTools DEF Facing
  <2> HIDE DEF p, x
  <2>2. Objections(p, x)["capture_not_verified"]
    BY <2>1, <1>0, MoneyObjections
  <2> HIDE DEF facts
  <2>3. Met(Scenario("denied", p, facts), c)
    BY <2>1, <2>2, ChecksNamed, MetByObjection DEF x
  <2> QED
    BY <2>3 DEF p, facts
<1> QED
  BY <1>1, <1>2, <1>3 DEF RetryScenarios

(* Nor anything past a limit. *)
LEMMA LimitScenariosMet ==
  ASSUME ShippedGate, NEW c, "now" \in DOMAIN c, c.now \in Nat
  PROVE  \A s \in LimitScenarios(c) : Met(s, c)
<1>0. /\ Hour = 4 /\ Rupee = 100 /\ Policy.requireConsent
      /\ Policy.concessionPct = 10 /\ Policy.approvalAbove = 500000
      /\ Policy.maxActions = 8 /\ Policy.noResponseCooldown = 192
  BY ShippedRules
<1>1. Met(Scenario("not_as_asked", Concession(1000 * Rupee),
                   [amount |-> 2500 * Rupee]), c)
  <2> DEFINE p == Concession(1000 * Rupee)
             asked == 2500 * Rupee
             facts == [amount |-> asked]
             x == Facing(facts, c)
  <2>1. p.tool \in MoneyActions \ AlwaysAllowed /\ p.tool = "offer_concession"
    BY ScenarioTools, ConcessionFields
  <2>2. p.value = 1000 * Rupee
    BY ConcessionFields
  <2> HIDE DEF p, asked
  <2>3. x.amount = asked
    BY DEF Facing
  <2> HIDE DEF x, facts
  <2>4. asked = 250000
    BY <1>0 DEF asked
  <2>5. Objections(p, x)["concession_exceeds_cap"]
    BY <1>0, <2>1, <2>2, <2>3, <2>4, MoneyObjections
  <2>6. Met(Scenario("not_as_asked", p, facts), c)
    BY <2>1, <2>5, ChecksNamed, MetByObjection DEF x
  <2> QED
    BY <2>6 DEF p, facts, asked
<1>2. Met(Scenario("denied", Concession(5000 * Rupee),
                   [amount |-> 80000 * Rupee]), c)
  <2> DEFINE p == Concession(5000 * Rupee)
             asked == 80000 * Rupee
             facts == [amount |-> asked]
             x == Facing(facts, c)
  <2>1. p.tool \in MoneyActions \ AlwaysAllowed /\ p.tool = "offer_concession"
    BY ScenarioTools, ConcessionFields
  <2>2. ~ p.approved
    BY ConcessionFields
  <2> HIDE DEF p, asked
  <2>3. x.amount = asked
    BY DEF Facing
  <2> HIDE DEF x, facts
  <2>4. asked = 8000000
    BY <1>0 DEF asked
  <2>5. Objections(p, x)["human_approval_required"]
    BY <1>0, <2>1, <2>2, <2>3, <2>4, MoneyObjections
  <2>6. Met(Scenario("denied", p, facts), c)
    BY <2>1, <2>5, ChecksNamed, MetByObjection DEF x
  <2> QED
    BY <2>6 DEF p, facts, asked
<1>3. Met(Scenario("denied", Message("email", 3),
                   [rung |-> 0]), c)
  <2> DEFINE p == Message("email", 3)
             facts == [rung |-> 0]
             x == Facing(facts, c)
  <2>1. /\ p.tool \in ContactActions \ AlwaysAllowed
        /\ SkipsRungs(RequestedRung(p, x.rung), x.rung)
    BY ScenarioTools DEF Facing, SkipsRungs, RequestedRung, NoRung
  <2> HIDE DEF p, x
  <2>2. Objections(p, x)["skip_rungs_forbidden"]
    BY <2>1, <1>0, ContactObjections
  <2> HIDE DEF facts
  <2>3. Met(Scenario("denied", p, facts), c)
    BY <2>1, <2>2, ChecksNamed, MetByObjection DEF x
  <2> QED
    BY <2>3 DEF p, facts
<1>4. Met(Scenario("not_as_asked", Message("whatsapp", 1),
            [now |-> c.now + 5 * Hour, contacts |-> 2, rung |-> 1,
             history |-> <<Sent(c.now, "whatsapp"), Sent(c.now + 3 * Hour, "email")>>]), c)
  <2> DEFINE p == Message("whatsapp", 1)
             sent == <<Sent(c.now, "whatsapp"), Sent(c.now + 3 * Hour, "email")>>
             facts == [now |-> c.now + 5 * Hour, contacts |-> 2, rung |-> 1,
                       history |-> sent]
             x == Facing(facts, c)
  <2>1. p.tool \in ContactActions \ AlwaysAllowed
    BY ScenarioTools
  <2>2. x.now = c.now + 20 /\ x.history = sent
    BY <1>0 DEF Facing
  <2>3. sent # << >> /\ ~ LastContact(sent).responded /\ LastContact(sent).at >= c.now
        /\ LastContact(sent).at \in Nat
    <3>1. \A i \in {1, 2} : ~ sent[i].responded /\ sent[i].at >= c.now /\ sent[i].at \in Nat
      BY <1>0 DEF Sent
    <3>2. DOMAIN sent = {1, 2} /\ sent[1].at <= sent[2].at
      BY <1>0 DEF Sent
    <3>3. \E i \in DOMAIN sent : \A j \in DOMAIN sent : sent[j].at <= sent[i].at
      BY <3>1, <3>2
    <3> HIDE DEF sent
    <3>4. PICK i \in DOMAIN sent : LastContact(sent) = sent[i]
      BY <3>3 DEF LastContact
    <3>5. sent # << >>
      BY DEF sent
    <3> QED
      BY <3>1, <3>2, <3>4, <3>5
  <2> HIDE DEF p, x, sent
  <2>4. x.now - LastContact(x.history).at < Policy.noResponseCooldown
    BY <1>0, <2>2, <2>3
  <2>5. Objections(p, x)["cooldown_after_no_response"]
    BY <2>1, <2>2, <2>3, <2>4, ContactObjections
  <2> HIDE DEF facts
  <2>6. Met(Scenario("not_as_asked", p, facts), c)
    BY <2>1, <2>5, ChecksNamed, MetByObjection DEF x
  <2> QED
    BY <2>6 DEF p, facts, sent
<1>5. Met(Scenario("denied", Message("email", 2),
                   [dispute |-> TRUE, rung |-> 1, business |-> TRUE]), c)
  <2> DEFINE p == Message("email", 2)
             facts == [dispute |-> TRUE, rung |-> 1, business |-> TRUE]
             x == Facing(facts, c)
  <2>1. p.tool \in ContactActions \ AlwaysAllowed /\ x.dispute
    BY ScenarioTools DEF Facing
  <2> HIDE DEF p, x
  <2>2. Objections(p, x)["dispute_open"]
    BY <2>1, <1>0, ContactObjections
  <2> HIDE DEF facts
  <2>3. Met(Scenario("denied", p, facts), c)
    BY <2>1, <2>2, ChecksNamed, MetByObjection DEF x
  <2> QED
    BY <2>3 DEF p, facts
<1>6. Met(Scenario("denied", Message("sms", 1),
                   [consent |-> {"email"}]), c)
  <2> DEFINE p == Message("sms", 1)
             facts == [consent |-> {"email"}]
             x == Facing(facts, c)
  <2>1. p.tool \in ContactActions \ AlwaysAllowed /\ p.channel \notin x.consent
    BY ScenarioTools DEF Facing
  <2> HIDE DEF p, x
  <2>2. Objections(p, x)["no_channel_consent"]
    BY <2>1, <1>0, ContactObjections
  <2> HIDE DEF facts
  <2>3. Met(Scenario("denied", p, facts), c)
    BY <2>1, <2>2, ChecksNamed, MetByObjection DEF x
  <2> QED
    BY <2>3 DEF p, facts
<1>7. Met(Scenario("denied", Message("whatsapp", 1),
                   [actions |-> 8]), c)
  <2> DEFINE p == Message("whatsapp", 1)
             facts == [actions |-> 8]
             x == Facing(facts, c)
  <2>1. p.tool \in ContactActions \ AlwaysAllowed /\ AtCap(x.actions, Policy.maxActions)
    BY ScenarioTools, <1>0 DEF Facing, AtCap
  <2> HIDE DEF p, x
  <2>2. Objections(p, x)["budget_actions_exhausted"]
    BY <2>1, <1>0, BudgetObjections
  <2> HIDE DEF facts
  <2>3. Met(Scenario("denied", p, facts), c)
    BY <2>1, <2>2, ChecksNamed, MetByObjection DEF x
  <2> QED
    BY <2>3 DEF p, facts
<1>8. Met(Scenario("denied", Message("whatsapp", 1),
                   [killSwitch |-> TRUE]), c)
  <2> DEFINE p == Message("whatsapp", 1)
             facts == [killSwitch |-> TRUE]
             x == Facing(facts, c)
  <2>1. p.tool \in ContactActions \ AlwaysAllowed /\ x.killSwitch
    BY ScenarioTools DEF Facing
  <2> HIDE DEF p, x
  <2>2. Objections(p, x)["kill_switch_engaged"]
    BY <2>1, <1>0, BudgetObjections
  <2> HIDE DEF facts
  <2>3. Met(Scenario("denied", p, facts), c)
    BY <2>1, <2>2, ChecksNamed, MetByObjection DEF x
  <2> QED
    BY <2>3 DEF p, facts
<1> QED
  BY <1>1, <1>2, <1>3, <1>4, <1>5, <1>6, <1>7, <1>8 DEF LimitScenarios

(* Escalating to a human is open in every context.                         *)
LEMMA ExitAlwaysAvailable ==
  ASSUME NEW c
  PROVE  ExitAvailable(c)
<1>1. Act("escalate_to_human").tool \in AlwaysAllowed
  BY DEF Act, Propose, AlwaysAllowed
<1> QED
  BY <1>1 DEF ExitAvailable, Evaluate, Allow

(* A link for a dead card meets no objection in a fresh context.            *)
LEMMA DeadCardAlwaysGetsLink ==
  ASSUME ShippedGate, NEW c
  PROVE  DeadCardGetsLink(c)
<1> DEFINE p == Act("create_payment_link")
           facts == [cause |-> "card_expired_or_invalid"]
           x == Facing(facts, FreshContext(c))
<1>1. /\ p.tool = "create_payment_link"
      /\ p.tool \in MoneyActions /\ p.tool \notin ContactActions \union AlwaysAllowed
  BY ScenarioTools DEF ContactActions, AlwaysAllowed
<1>2. x.cause = "card_expired_or_invalid"
  BY DEF Facing
<1>3. /\ ~ x.killSwitch /\ x.actions = 0 /\ x.spend = 0 /\ x.orgSpend = 0
  BY DEF Facing, FreshContext
<1> HIDE DEF p, x
<1>4. \A r \in DOMAIN Objections(p, x) : ~ Objections(p, x)[r]
  <2>1. /\ Policy.neverRouteAround = {"risk_declined", "invoice_disputed"}
        /\ Policy.maxActions = 8 /\ Policy.maxSpend = 15000 /\ Policy.orgSpendCap = 2000000
    BY ShippedRules
  <2>2. /\ ~ Objections(p, x)["kill_switch_engaged"]
        /\ ~ Objections(p, x)["budget_actions_exhausted"]
    BY <1>3, <2>1, BudgetObjections DEF AtCap
  <2>3. ~ AtCap(x.spend, Policy.maxSpend) /\ ~ AtCap(x.orgSpend, Policy.orgSpendCap)
    BY <1>3, <2>1 DEF AtCap
  <2>4. ~ Objections(p, x)["budget_spend_exhausted"]
        /\ ~ Objections(p, x)["org_daily_spend_cap"]
    BY <2>3, ZenonT(30) DEF Objections
  <2>5. ~ Objections(p, x)["never_route_around_cause"]
    BY <1>1, <1>2, <2>1, MoneyObjections
  <2> QED
    BY <1>1, <2>2, <2>4, <2>5, OtherObjections
<1>5. ~ RetryTooSoon(p, x) /\ ~ InQuietHours(p, x)
  BY <1>1 DEF RetryTooSoon, InQuietHours
<1>6. Evaluate(p, x).verdict = "allow"
  BY <1>1, <1>4, <1>5 DEF Evaluate, Allow
<1> QED
  BY <1>6 DEF DeadCardGetsLink, p, x

(* No scenario of the red team escapes the gate that ships, in whatever      *)
(* context an episode has come to: for every strategy, diagnosis and set    *)
(* of episodes; and the ways out stay open.                                *)
THEOREM RedTeamContained ==
  ASSUME ShippedGate
  PROVE  Spec => []ScenariosContained
<1>1. ASSUME NEW c, "now" \in DOMAIN c, c.now \in Nat PROVE Escapes(c) = {}
  <2>1. \A s \in Scenarios(c) : Met(s, c)
    BY <1>1, ContactScenariosMet, CauseScenariosMet, RetryScenariosMet, LimitScenariosMet
    DEF Scenarios
  <2> QED
    BY <2>1 DEF Escapes, Met
<1>2. ASSUME TypeOK PROVE ScenariosContained
  <2> DEFINE reached == GateContext(now)
             fresh == FreshContext(reached)
  <2>1. "now" \in DOMAIN reached /\ reached.now \in Nat
    BY <1>2 DEF GateContext, TypeOK
  <2>2. "now" \in DOMAIN fresh /\ fresh.now \in Nat
    <3> HIDE DEF reached
    <3> QED
      BY <2>1 DEF FreshContext
  <2> HIDE DEF reached, fresh
  <2>3. Escapes(reached) = {} /\ Escapes(fresh) = {}
    BY <1>1, <2>1, <2>2
  <2> QED
    BY <2>3, ExitAlwaysAvailable, DeadCardAlwaysGetsLink
    DEF ScenariosContained, reached, fresh
<1> QED
  BY <1>2, TypeCorrect, PTL
=============================================================================
