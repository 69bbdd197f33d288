--------------------------- MODULE EpisodeProofs ---------------------------
(***************************************************************************)
(* Theorems about the episode loop, for every policy, strategy, diagnosis, *)
(* price list and set of episodes: what the gate lets through, type        *)
(* correctness, the safety properties, and that the loop conducts the      *)
(* abstract episode.                                                       *)
(***************************************************************************)
EXTENDS EpisodeSafety, FiniteSetTheorems, TLAPS

(* The time of day, and the midnight before.                               *)
LEMMA ModBound ==
  ASSUME NEW t \in Nat
  PROVE  /\ t % Day \in 0 .. Day - 1
         /\ t - (t % Day) \in Nat
  BY DayAssumption

(* next_allowed_time never goes back, and waits at most a day.             *)
LEMMA NextAllowedTimeType ==
  ASSUME NEW t \in Nat, NEW w \in Window
  PROVE  /\ NextAllowedTime(t, w) \in Nat
         /\ NextAllowedTime(t, w) >= t
         /\ NextAllowedTime(t, w) <= t + Day
<1> DEFINE midnight == t - (t % Day)
<1>1. /\ midnight \in Nat
      /\ midnight <= t
      /\ t < midnight + Day
  BY ModBound, DayAssumption
<1>2. w.end \in 0 .. Day - 1
  BY DEF Window
<1>3. NextAllowedTime(t, w) \in {t, midnight + w.end, midnight + w.end + Day}
  BY DEF NextAllowedTime
<1>4. NextAllowedTime(t, w) = midnight + w.end => NextAllowedTime(t, w) >= t
  BY <1>1, <1>2, DayAssumption DEF NextAllowedTime
<1>5. NextAllowedTime(t, w) = midnight + w.end + Day => midnight + w.end <= t
  BY <1>1, <1>2, DayAssumption DEF NextAllowedTime
<1> QED
  BY <1>1, <1>2, <1>3, <1>4, <1>5, DayAssumption

(* A gated action that is not denied met with no objection: permission is  *)
(* the conjunction of the checks, whatever order they run in.              *)
LEMMA EvaluateAllows ==
  ASSUME NEW p \in ProposedAction, NEW c, Evaluate(p, c).verdict # "deny",
         p.tool \notin AlwaysAllowed, NEW r \in DOMAIN Objections(p, c)
  PROVE  ~ Objections(p, c)[r]
  BY DEF Evaluate, Deny

(* The fields of the policy, typed.                                        *)
LEMMA PolicyTypes ==
  /\ Policy.retryGap \in Nat
  /\ Policy.maxRetries \in Nat
  /\ Policy.maxActions \in Nat \ {0}
  /\ Policy.maxSpend \in Nat
  /\ Policy.contactsPerEpisode \in Nat
  /\ Policy.noResponseCooldown \in Nat
  /\ Policy.actionWindow \in Nat
  /\ Policy.messagingQuiet \in Window
  /\ Policy.voiceQuiet \in Window
  /\ Policy.ladder \in Seq(Rung)
  BY PolicyAssumption DEF PolicyBundle

(* The fields of the gate context, one by one.                             *)
LEMMA ContextFields ==
  ASSUME NEW t
  PROVE  /\ GateContext(t).now = t
         /\ GateContext(t).lastRetry = lastRetry
         /\ GateContext(t).history = history
         /\ GateContext(t).actions = result.actions
         /\ GateContext(t).contacts = result.contacts
         /\ GateContext(t).retries = result.retries
         /\ GateContext(t).spend = result.cost
         /\ GateContext(t).rung = Len(history)
  BY DEF GateContext

-----------------------------------------------------------------------------
(* What the gate lets through.                                             *)

(* _context_time: not before now, and now if no time was proposed.         *)
LEMMA WhenType ==
  ASSUME TypeOK, NEW p \in ProposedAction
  PROVE  When(p) \in Nat /\ When(p) >= now /\ (p.at = NoTime => When(p) = now)
  BY DEF When, Later, TypeOK, ProposedAction, Instant, NoTime

(* A permitted action is the one proposed, but for its time.               *)
LEMMA PermittedAction ==
  ASSUME TypeOK, NEW p \in ProposedAction, Ruling(p).verdict # "deny"
  PROVE  /\ Ruling(p).action \in ProposedAction
         /\ Ruling(p).action.tool = p.tool
         /\ Ruling(p).action.channel = p.channel
         /\ Ruling(p).action.rung = p.rung
         /\ \/ Ruling(p).action = p
            \/ Ruling(p).action.at \in Nat
<1> DEFINE c == GateContext(When(p))
           t1 == c.lastRetry + Policy.retryGap
           t2 == NextAllowedTime(Target(p, c), QuietWindow(p.channel))
<1>1. CASE Ruling(p) = Allow(p)
  BY <1>1 DEF Allow
<1>2. ASSUME NEW t \in Nat, Ruling(p) = Modify(p, t)
      PROVE  /\ Ruling(p).action = [p EXCEPT !.at = t]
             /\ [p EXCEPT !.at = t] \in ProposedAction
             /\ [p EXCEPT !.at = t].at = t
             /\ [p EXCEPT !.at = t].tool = p.tool
             /\ [p EXCEPT !.at = t].channel = p.channel
             /\ [p EXCEPT !.at = t].rung = p.rung
  BY <1>2 DEF Modify, ProposedAction, Instant
<1>3. \/ Ruling(p) = Allow(p)
      \/ RetryTooSoon(p, c) /\ Ruling(p) = Modify(p, t1)
      \/ Ruling(p) = Modify(p, t2)
  BY DEF Ruling, Evaluate, Deny
<1>4. RetryTooSoon(p, c) => t1 \in Nat
  <2>1. lastRetry \in Nat \union {NoTime}
    BY DEF TypeOK, Instant
  <2> QED
    BY <2>1, PolicyTypes, ContextFields DEF RetryTooSoon
<1>5. t2 \in Nat
  <2>1. Target(p, c) \in Nat
    BY WhenType, ContextFields DEF Target, ProposedAction, Instant
  <2>2. QuietWindow(p.channel) \in Window
    BY PolicyTypes DEF QuietWindow
  <2> QED
    BY <2>1, <2>2, NextAllowedTimeType
<1> QED
  BY <1>1, <1>2, <1>3, <1>4, <1>5

-----------------------------------------------------------------------------
(* What is known of an action the gate let through.                        *)

Permits(p, a) ==
  /\ p \in Proposals \intersect ProposedAction
  /\ ~ PastHorizon(p)
  /\ Ruling(p).verdict # "deny"
  /\ a = Ruling(p).action

(* The steps of the loop, one per action, with what is known of the action *)
(* the gate let through.                                                   *)
LEMMA NextCases ==
  ASSUME Next
  PROVE  \/ Diagnose \/ TriageWorks \/ TriageSkips
         \/ SelfRecovers \/ StrategyStops \/ StepBound
         \/ CloseEpisode \/ Terminated
         \/ Looping /\ HorizonPasses
         \/ Looping /\ \E reason : Denied(reason)
         \/ /\ Looping
            /\ \E p, a :
                 /\ Permits(p, a)
                 /\ \/ BeatenBySelfRecovery(a)
                    \/ Exits(a)
                    \/ Verifies(a)
                    \/ \E r \in ReactionsTo(a) : Acts(a, r)
  BY DEF Next, Pass, Rules, Permits

(* A permitted action runs at an instant that is not in the past.          *)
LEMMA RunsAtType ==
  ASSUME TypeOK, NEW p, NEW a, Permits(p, a)
  PROVE  RunsAt(a) \in Nat /\ RunsAt(a) >= now
  BY PermittedAction DEF Permits, RunsAt, Later, TypeOK, ProposedAction, Instant, NoTime

(* react() pays at most the amount, and nothing with an opt-out or dispute. *)
LEMMA ReactionTypes ==
  ASSUME TypeOK, NEW a, NEW r \in ReactionsTo(a)
  PROVE  /\ r.paid \in 0 .. ep.amount
         /\ r.optedOut \in BOOLEAN
         /\ r.disputed \in BOOLEAN
         /\ r.optedOut \/ r.disputed => r.paid = 0
<1>1. ep \in Episodes /\ ep.amount \in Nat
  BY EpisodesAssumption DEF TypeOK, SeededEpisode
<1>2. \A part \in PartPayments(ep) : part \in 0 .. ep.amount
  BY <1>1, PartPaymentsAssumption
<1> QED
  BY <1>1, <1>2 DEF ReactionsTo

(* A verdict keeps the type of the result.                                 *)
LEMMA ResultUpdate ==
  ASSUME result \in EpisodeResult, NEW s \in EpisodeState
  PROVE  [result EXCEPT !.state = s] \in EpisodeResult
  BY DEF EpisodeResult

(* A self-recovery keeps the type of the result.                           *)
LEMMA CreditType ==
  ASSUME TypeOK, CreditSelfRecovery
  PROVE  result' \in EpisodeResult
<1>1. ep.amount \in Nat
  BY EpisodesAssumption DEF TypeOK, SeededEpisode
<1>2. result.recovered + ep.amount \in Nat
  BY <1>1 DEF TypeOK, EpisodeResult
<1>3. "recovered" \in EpisodeState
  BY DEF EpisodeState, TERMINAL_STATES
<1> QED
  BY <1>2, <1>3 DEF TypeOK, CreditSelfRecovery, EpisodeResult

-----------------------------------------------------------------------------
(* Type correctness.                                                       *)

(* The initial states are well typed.                                      *)
LEMMA InitTypeOK == Init => TypeOK
<1> SUFFICES ASSUME Init PROVE TypeOK
  OBVIOUS
<1>1. NoDiagnosis \in Diagnosis
  BY DEF NoDiagnosis, Diagnosis, RootCause
<1>2. ep.opened \in Nat
  BY EpisodesAssumption DEF Init, SeededEpisode
<1>3. FreshResult \in EpisodeResult
  BY DEF FreshResult, EpisodeResult, EpisodeState
<1>4. << >> \in Seq(ContactEntry) /\ 0 \in 0 .. MaxSteps
  BY BoundsAssumption
<1> QED
  BY <1>1, <1>2, <1>3, <1>4 DEF Init, TypeOK, Instant

(* An interaction keeps the types.                                         *)
LEMMA ActsTypeOK ==
  ASSUME TypeOK, Looping, NEW p, NEW a, Permits(p, a),
         NEW r \in ReactionsTo(a), Acts(a, r)
  PROVE  TypeOK'
<1>1. a \in ProposedAction
  BY PermittedAction DEF Permits
<1>2. RunsAt(a) \in Nat
  BY RunsAtType
<1>3. step + 1 \in 0 .. MaxSteps
  BY BoundsAssumption DEF TypeOK, Looping
<1>4. result' \in EpisodeResult
  <2>1. Price[a.channel] \in Nat
    BY <1>1, PriceAssumption DEF ProposedAction
  <2>2. StateAfter(r) \in EpisodeState
    BY DEF StateAfter, TypeOK, EpisodeResult, EpisodeState, TERMINAL_STATES
  <2>3. r.paid \in Nat /\ r.optedOut \in BOOLEAN /\ r.disputed \in BOOLEAN
    BY ReactionTypes
  <2> DEFINE ac == result.actions + 1
             re == IF a.tool = "retry_payment" THEN result.retries + 1
                                               ELSE result.retries
             fo == IF a.tool = "retry_payment" /\ ep.trueCause \in NEVER_RETRY
                   THEN result.forbidden + 1 ELSE result.forbidden
             ct == IF IsContact(a) THEN result.contacts + 1 ELSE result.contacts
             co == IF IsContact(a) THEN result.cost + Price[a.channel] ELSE result.cost
             op == r.optedOut /\ ~ r.disputed
             di == r.disputed
             st == StateAfter(r)
             rc == result.recovered + r.paid
  <2>4. result \in EpisodeResult
    BY DEF TypeOK
  <2>5. /\ ac \in Nat /\ re \in Nat /\ fo \in Nat /\ ct \in Nat /\ co \in Nat
        /\ rc \in Nat
    BY <2>1, <2>3, <2>4 DEF EpisodeResult
  <2>6. op \in BOOLEAN
    BY <2>3
  <2>7. result' =
          [result EXCEPT !.actions = ac, !.retries = re, !.forbidden = fo,
                         !.contacts = ct, !.cost = co, !.disputed = di,
                         !.optedOut = op, !.recovered = rc, !.state = st]
    BY DEF Acts
  <2>9. di \in BOOLEAN /\ st \in EpisodeState
    BY <2>2, <2>3
  <2> HIDE DEF ac, re, fo, ct, co, op, rc, di, st
  <2>8. [result EXCEPT !.actions = ac, !.retries = re, !.forbidden = fo,
                       !.contacts = ct, !.cost = co, !.disputed = di,
                       !.optedOut = op, !.recovered = rc, !.state = st]
          \in EpisodeResult
    BY <2>4, <2>5, <2>6, <2>9 DEF EpisodeResult
  <2> QED
    BY <2>7, <2>8
<1>5. history' \in Seq(ContactEntry)
  <2>1. Contact(a, r) \in ContactEntry
    BY <1>1, <1>2, ReactionTypes
    DEF Contact, ContactEntry, ProposedAction, RequestedRung, TypeOK, NoRung
  <2> QED
    BY <2>1 DEF Acts, TypeOK
<1>6. now' \in Nat /\ lastRetry' \in Instant
  BY <1>2 DEF Acts, Executes, TypeOK, Instant
<1> QED
  BY <1>3, <1>4, <1>5, <1>6 DEF Acts, Executes, TypeOK, Looping

(* So does every other step a permitted action takes.                      *)
LEMMA PermittedTypeOK ==
  ASSUME TypeOK, Looping, NEW p, NEW a, Permits(p, a)
  PROVE  /\ BeatenBySelfRecovery(a) => TypeOK'
         /\ Exits(a) => TypeOK'
         /\ Verifies(a) => TypeOK'
<1>1. RunsAt(a) \in Nat
  BY RunsAtType
<1>2. step + 1 \in 0 .. MaxSteps
  BY BoundsAssumption DEF TypeOK, Looping
<1>3. ASSUME BeatenBySelfRecovery(a) PROVE TypeOK'
  <2>1. result' \in EpisodeResult
    BY <1>3, CreditType DEF BeatenBySelfRecovery
  <2> QED
    BY <1>1, <1>3, <2>1 DEF BeatenBySelfRecovery, TypeOK
<1>4. ASSUME Exits(a) PROVE TypeOK'
  <2>1. result' \in EpisodeResult
    <3>1. PICK s \in {"unrecoverable", "escalated"} :
            result' = [result EXCEPT !.state = s]
      BY <1>4 DEF Exits
    <3>2. s \in EpisodeState
      BY DEF EpisodeState, TERMINAL_STATES
    <3> QED
      BY <3>1, <3>2, ResultUpdate DEF TypeOK
  <2> QED
    BY <1>1, <1>2, <1>4, <2>1 DEF Exits, Executes, TypeOK, Instant
<1>5. ASSUME Verifies(a) PROVE TypeOK'
  <2>1. result' \in EpisodeResult
    BY <1>5 DEF Verifies, TypeOK, EpisodeResult
  <2> QED
    BY <1>1, <1>2, <1>5, <2>1 DEF Verifies, Executes, TypeOK, Instant
<1> QED
  BY <1>3, <1>4, <1>5

(* The states a denial, the horizon or the step bound can leave. *)
LEMMA VerdictStates ==
  /\ \A reason : BlockedState(reason) \in EpisodeState
  /\ {"exhausted", "skipped_negative_ev"} \subseteq EpisodeState
  BY DEF BlockedState, EpisodeState, TERMINAL_STATES

(* And so does every step.                                                 *)
LEMMA NextTypeOK == TypeOK /\ [Next]_vars => TypeOK'
<1> SUFFICES ASSUME TypeOK, [Next]_vars PROVE TypeOK'
  OBVIOUS
<1>1. CASE UNCHANGED vars
  BY <1>1 DEF vars, TypeOK
<1>2. CASE Diagnose
  <2>1. PICK tokens \in TokensOf(ep), d \in DiagnosesOf(ep) :
          diag' = d /\ result' = [result EXCEPT !.cost = @ + tokens]
    BY <1>2 DEF Diagnose
  <2>2. tokens \in Nat /\ d \in Diagnosis
    BY DiagnosesAssumption DEF TypeOK
  <2>3. result' \in EpisodeResult
    BY <2>1, <2>2 DEF TypeOK, EpisodeResult
  <2> QED
    BY <1>2, <2>1, <2>2, <2>3 DEF Diagnose, TypeOK
<1>3. CASE TriageWorks
  BY <1>3 DEF TriageWorks, TypeOK
<1>4. CASE TriageSkips
  BY <1>4, VerdictStates, ResultUpdate DEF TriageSkips, TypeOK
<1>5. CASE SelfRecovers
  BY <1>5, CreditType DEF SelfRecovers, TypeOK
<1>6. CASE StrategyStops
  <2>1. PICK s \in {"exhausted", "skipped_negative_ev"} :
          result' = [result EXCEPT !.state = s]
    BY <1>6 DEF StrategyStops
  <2> QED
    BY <1>6, <2>1, VerdictStates, ResultUpdate DEF StrategyStops, TypeOK
<1>7. CASE StepBound
  BY <1>7, VerdictStates, ResultUpdate DEF StepBound, TypeOK
<1>8. CASE CloseEpisode
  <2>1. result' \in EpisodeResult
    <3>1. CASE Unrecovered /\ SelfRecoveryDue(WatchUntil)
      BY <1>8, <3>1, CreditType DEF CloseEpisode
    <3>2. CASE ~ (Unrecovered /\ SelfRecoveryDue(WatchUntil))
      <4>1. PICK s \in {result.state, "exhausted"} :
              result' = [result EXCEPT !.state = s]
        BY <1>8, <3>2 DEF CloseEpisode
      <4>2. s \in EpisodeState
        BY VerdictStates DEF TypeOK, EpisodeResult
      <4> QED
        BY <4>1, <4>2, ResultUpdate DEF TypeOK
    <3> QED
      BY <3>1, <3>2
  <2> QED
    BY <1>8, <2>1 DEF CloseEpisode, TypeOK
<1>9. CASE Terminated
  BY <1>9 DEF Terminated, vars, TypeOK
<1>10. CASE Looping /\ HorizonPasses
  BY <1>10, VerdictStates, ResultUpdate DEF HorizonPasses, TypeOK
<1>11. ASSUME Looping, NEW reason, Denied(reason) PROVE TypeOK'
  <2>1. step' \in 0 .. MaxSteps
    BY <1>11, BoundsAssumption DEF Looping, Denied, TypeOK
  <2>2. result' \in EpisodeResult /\ pc' \in {pc, "watching"}
    BY <1>11, VerdictStates, ResultUpdate DEF Denied, TypeOK
  <2> QED
    BY <1>11, <2>1, <2>2 DEF Denied, TypeOK
<1>12. ASSUME Looping, NEW p, NEW a, Permits(p, a),
              \/ BeatenBySelfRecovery(a)
              \/ Exits(a)
              \/ Verifies(a)
              \/ \E r \in ReactionsTo(a) : Acts(a, r)
       PROVE  TypeOK'
  BY <1>12, PermittedTypeOK, ActsTypeOK
<1> QED
  BY <1>1, <1>2, <1>3, <1>4, <1>5, <1>6, <1>7, <1>8, <1>9, <1>10, <1>11,
     <1>12, NextCases

(* Every variable of the loop keeps its type, for every policy, strategy,   *)
(* diagnosis and episode.                                                  *)
THEOREM TypeCorrect == Spec => []TypeOK
<1>1. Init => TypeOK
  BY InitTypeOK
<1>2. TypeOK /\ [Next]_vars => TypeOK'
  BY NextTypeOK
<1> QED
  BY <1>1, <1>2, PTL DEF Spec

-----------------------------------------------------------------------------
(* What a step can do to the counters and the history.                     *)

(* What an action the gate let through has been measured against. *)
LEMMA PermittedChecks ==
  ASSUME TypeOK, NEW p, NEW a, Permits(p, a), a.tool \notin AlwaysAllowed
  PROVE  /\ ~ AtCap(result.actions, Policy.maxActions)
         /\ ~ AtCap(result.cost, Policy.maxSpend)
         /\ a.tool = "retry_payment" =>
              /\ ~ AtCap(result.retries, Policy.maxRetries)
              /\ diag.cause \notin NEVER_RETRY
              /\ ~ diag.confident =>
                   {diag.alternative, diag.risk} \intersect Policy.neverRetry = {}
         /\ a.tool \in ContactActions =>
              ~ AtCap(result.contacts, Policy.contactsPerEpisode)
<1> DEFINE c == GateContext(When(p))
<1>1. p \in ProposedAction /\ a.tool = p.tool
  BY PermittedAction DEF Permits
<1>2. \A r \in DOMAIN Objections(p, c) : ~ Objections(p, c)[r]
  BY <1>1, EvaluateAllows DEF Permits, Ruling
<1>3. ~ AtCap(c.actions, Policy.maxActions) /\ ~ AtCap(c.spend, Policy.maxSpend)
  BY <1>2 DEF Objections
<1>4. a.tool = "retry_payment" => ~ AtCap(c.retries, Policy.maxRetries)
  BY <1>1, <1>2 DEF Objections
<1>5. a.tool = "retry_payment" => c.cause \notin NEVER_RETRY
  BY <1>1, <1>2 DEF Objections
<1>6. a.tool = "retry_payment" /\ ~ c.confident =>
        Doubted(c) \intersect Policy.neverRetry = {}
  BY <1>1, <1>2 DEF Objections
<1>7. a.tool \in ContactActions => ~ AtCap(c.contacts, Policy.contactsPerEpisode)
  BY <1>1, <1>2 DEF Objections
<1>8. /\ c.cause = diag.cause /\ c.confident = diag.confident
      /\ Doubted(c) = {diag.alternative, diag.risk}
  BY DEF GateContext, Doubted
<1> HIDE DEF c
<1>9. c = GateContext(When(p))
  BY DEF c
<1> QED
  BY <1>3, <1>4, <1>5, <1>6, <1>7, <1>8, <1>9, ContextFields

-----------------------------------------------------------------------------
(* The fields an interaction writes, one by one. *)
LEMMA ActsFields ==
  ASSUME TypeOK, NEW a, NEW r, Acts(a, r)
  PROVE  /\ result'.actions = result.actions + 1
         /\ result'.retries =
              IF a.tool = "retry_payment" THEN result.retries + 1 ELSE result.retries
         /\ result'.contacts =
              IF IsContact(a) THEN result.contacts + 1 ELSE result.contacts
         /\ result'.forbidden =
              IF a.tool = "retry_payment" /\ ep.trueCause \in NEVER_RETRY
              THEN result.forbidden + 1 ELSE result.forbidden
         /\ result'.cost =
              IF IsContact(a) THEN result.cost + Price[a.channel] ELSE result.cost
         /\ result'.recovered = result.recovered + r.paid
         /\ result'.selfRecovered = result.selfRecovered
         /\ result'.state = StateAfter(r)
  BY DEF Acts, TypeOK, EpisodeResult

(* A step that is neither an interaction nor a verification. *)
Untouched ==
  /\ UNCHANGED <<history, lastRetry>>
  /\ result'.actions = result.actions
  /\ result'.retries = result.retries
  /\ result'.contacts = result.contacts
  /\ result'.forbidden = result.forbidden

(* The fields a self-recovery writes.                                      *)
LEMMA CreditFields ==
  ASSUME TypeOK, CreditSelfRecovery
  PROVE  /\ result'.actions = result.actions
         /\ result'.retries = result.retries
         /\ result'.contacts = result.contacts
         /\ result'.forbidden = result.forbidden
         /\ result'.cost = result.cost
         /\ result'.recovered = result.recovered + ep.amount
         /\ result'.selfRecovered = TRUE
         /\ result'.state = "recovered"
  BY DEF CreditSelfRecovery, TypeOK, EpisodeResult

(* The fields a verdict leaves alone.                                      *)
LEMMA VerdictFields ==
  ASSUME TypeOK, NEW s, result' = [result EXCEPT !.state = s]
  PROVE  /\ result'.actions = result.actions
         /\ result'.retries = result.retries
         /\ result'.contacts = result.contacts
         /\ result'.forbidden = result.forbidden
         /\ result'.cost = result.cost
         /\ result'.recovered = result.recovered
         /\ result'.selfRecovered = result.selfRecovered
         /\ result'.state = s
  BY DEF TypeOK, EpisodeResult

(* Every step works on the episode, verifies a claim, or leaves the         *)
(* counters and the history alone.                                         *)
LEMMA StepCases ==
  ASSUME TypeOK, [Next]_vars
  PROVE  \/ Untouched
         \/ /\ Looping
            /\ \E p, a :
                 /\ Permits(p, a)
                 /\ Verifies(a) \/ \E r \in ReactionsTo(a) : Acts(a, r)
<1>1. CASE UNCHANGED vars
  BY <1>1 DEF vars, Untouched
<1>2. CASE Diagnose
  BY <1>2 DEF Diagnose, Untouched, TypeOK, EpisodeResult
<1>3. CASE TriageWorks \/ Terminated
  BY <1>3 DEF TriageWorks, Terminated, vars, Untouched
<1>4. CASE TriageSkips
  BY <1>4, VerdictFields DEF TriageSkips, Untouched
<1>5. CASE SelfRecovers
  BY <1>5, CreditFields DEF SelfRecovers, Untouched
<1>6. CASE StrategyStops
  BY <1>6, VerdictFields DEF StrategyStops, Untouched
<1>7. CASE StepBound \/ HorizonPasses
  BY <1>7, VerdictFields DEF StepBound, HorizonPasses, Untouched
<1>8. CASE CloseEpisode
  BY <1>8, CreditFields, VerdictFields DEF CloseEpisode, Untouched
<1>9. ASSUME NEW reason, Denied(reason) PROVE Untouched
  BY <1>9, VerdictFields DEF Denied, Untouched
<1>10. ASSUME NEW a, BeatenBySelfRecovery(a) PROVE Untouched
  BY <1>10, CreditFields DEF BeatenBySelfRecovery, Untouched
<1>11. ASSUME NEW a, Exits(a) PROVE Untouched
  <2>1. a.tool # "retry_payment"
    BY <1>11 DEF Exits, AlwaysAllowed
  <2> QED
    BY <1>11, <2>1, VerdictFields DEF Exits, Executes, Untouched
<1> QED
  BY <1>1, <1>2, <1>3, <1>4, <1>5, <1>6, <1>7, <1>8, <1>9, <1>10, <1>11, NextCases

-----------------------------------------------------------------------------
(* Caps.                                                                   *)

(* The counters start at zero.                                             *)
LEMMA InitCaps == Init => CapsHold
  BY PolicyTypes DEF Init, FreshResult, CapsHold

(* A counter the gate found below its cap may advance by one.               *)
LEMMA BelowCap ==
  ASSUME NEW n \in Nat, NEW cap \in Nat, ~ AtCap(n, cap)
  PROVE  n + 1 <= cap
  BY DEF AtCap

(* The gate measures each counter before the loop advances it.             *)
LEMMA NextCaps == TypeOK /\ CapsHold /\ [Next]_vars => CapsHold'
<1> SUFFICES ASSUME TypeOK, CapsHold, [Next]_vars PROVE CapsHold'
  OBVIOUS
<1> USE PolicyTypes
<1>1. CASE Untouched
  BY <1>1 DEF Untouched, CapsHold
<1>2. result \in EpisodeResult
  BY DEF TypeOK
<1>3. ASSUME NEW p, NEW a, Permits(p, a), Verifies(a) PROVE CapsHold'
  <2>1. ~ AtCap(result.actions, Policy.maxActions)
    BY <1>3, PermittedChecks DEF Verifies, AlwaysAllowed
  <2>2. /\ result'.actions = result.actions + 1
        /\ result'.retries = result.retries
        /\ result'.contacts = result.contacts
        /\ history' = history
    BY <1>2, <1>3 DEF Verifies, EpisodeResult
  <2> QED
    BY <1>2, <2>1, <2>2 DEF CapsHold, AtCap, EpisodeResult
<1>4. ASSUME NEW p, NEW a, Permits(p, a), NEW r \in ReactionsTo(a), Acts(a, r)
      PROVE  CapsHold'
  <2>1. a.tool \notin AlwaysAllowed
    BY <1>4 DEF Acts
  <2>2. result'.actions <= Policy.maxActions
    <3>1. ~ AtCap(result.actions, Policy.maxActions)
      BY <1>4, <2>1, PermittedChecks
    <3>2. result'.actions = result.actions + 1
      BY <1>4, ActsFields
    <3>3. result.actions \in Nat
      BY <1>2 DEF EpisodeResult
    <3> QED
      BY <3>1, <3>2, <3>3, BelowCap
  <2>3. result'.retries <= Policy.maxRetries
    <3>1. result.retries \in Nat /\ result.retries <= Policy.maxRetries
      BY <1>2 DEF EpisodeResult, CapsHold
    <3>2. CASE a.tool = "retry_payment"
      <4>1. ~ AtCap(result.retries, Policy.maxRetries)
        BY <1>4, <2>1, <3>2, PermittedChecks
      <4>2. result'.retries = result.retries + 1
        BY <1>4, <3>2, ActsFields
      <4> QED
        BY <3>1, <4>1, <4>2, BelowCap
    <3>3. CASE a.tool # "retry_payment"
      <4>1. result'.retries = result.retries
        BY <1>4, <3>3, ActsFields
      <4> QED
        BY <3>1, <4>1
    <3> QED
      BY <3>2, <3>3
  <2>4. result'.contacts <= Policy.contactsPerEpisode
    <3>1. result.contacts \in Nat /\ result.contacts <= Policy.contactsPerEpisode
      BY <1>2 DEF EpisodeResult, CapsHold
    <3>2. CASE IsContact(a)
      <4>1. ~ AtCap(result.contacts, Policy.contactsPerEpisode)
        BY <1>4, <2>1, <3>2, PermittedChecks DEF IsContact
      <4>2. result'.contacts = result.contacts + 1
        BY <1>4, <3>2, ActsFields
      <4> QED
        BY <3>1, <4>1, <4>2, BelowCap
    <3>3. CASE ~ IsContact(a)
      <4>1. result'.contacts = result.contacts
        BY <1>4, <3>3, ActsFields
      <4> QED
        BY <3>1, <4>1
    <3> QED
      BY <3>2, <3>3
  <2>5. result'.contacts = Len(history')
    <3>1. history' = IF IsContact(a) THEN Append(history, Contact(a, r)) ELSE history
      BY <1>4 DEF Acts
    <3>2. history \in Seq(ContactEntry)
      BY DEF TypeOK
    <3>3. Len(history') = IF IsContact(a) THEN Len(history) + 1 ELSE Len(history)
      BY <3>1, <3>2
    <3> QED
      BY <1>4, <3>3, ActsFields DEF CapsHold
  <2> QED
    BY <2>2, <2>3, <2>4, <2>5 DEF CapsHold
<1> QED
  BY <1>1, <1>3, <1>4, StepCases

(* No strategy, however it proposes, gets past the caps on actions, retries *)
(* and contacts of any policy.                                             *)
THEOREM CapsAlwaysHold == Spec => []CapsHold
<1>1. Init => CapsHold
  BY InitCaps
<1>2. TypeOK /\ CapsHold /\ [Next]_vars => CapsHold'
  BY NextCaps
<1> QED
  BY <1>1, <1>2, TypeCorrect, PTL DEF Spec

-----------------------------------------------------------------------------
(* Money.                                                                  *)

(* CreditedOnce alone is not inductive: that a credit is the first needs    *)
(* that nothing is on the books, and no verdict given, while work goes on. *)
CreditInv ==
  /\ CreditedOnce
  /\ pc \in {"opened", "triage", "working"} =>
       result.state = "ingested" /\ result.recovered = 0

(* Nothing is on the books at the open.                                    *)
LEMMA InitCredit == Init => CreditInv
  BY EpisodesAssumption
  DEF Init, FreshResult, CreditInv, CreditedOnce, RecoveredStates, SeededEpisode

(* Crediting the whole amount to an episode not yet credited. *)
LEMMA CreditOnce ==
  ASSUME TypeOK, result.recovered = 0, CreditSelfRecovery, UNCHANGED ep
  PROVE  CreditedOnce'
<1>1. ep.amount \in Nat \ {0}
  BY EpisodesAssumption DEF TypeOK, SeededEpisode
<1>2. /\ result'.recovered = ep.amount
      /\ result'.state = "recovered"
  BY <1>1, CreditFields
<1> QED
  BY <1>1, <1>2 DEF CreditedOnce, RecoveredStates

(* A verdict that is not a recovery, on an episode not yet credited. *)
LEMMA UncreditedVerdict ==
  ASSUME TypeOK, CreditInv, result.recovered = 0, UNCHANGED ep,
         NEW s, s \notin RecoveredStates, result' = [result EXCEPT !.state = s]
  PROVE  CreditedOnce'
<1>1. ep.amount \in Nat
  BY EpisodesAssumption DEF TypeOK, SeededEpisode
<1> QED
  BY <1>1, VerdictFields DEF CreditInv, CreditedOnce

(* Every step keeps the books.                                             *)
LEMMA NextCredit == TypeOK /\ CreditInv /\ [Next]_vars => CreditInv'
<1> SUFFICES ASSUME TypeOK, CreditInv, [Next]_vars PROVE CreditInv'
  OBVIOUS
<1> USE DEF RecoveredStates
<1>1. CASE UNCHANGED vars
  BY <1>1 DEF vars, CreditInv, CreditedOnce
<1>2. CASE Diagnose
  <2>1. /\ result'.recovered = result.recovered
        /\ result'.state = result.state
        /\ result'.selfRecovered = result.selfRecovered
    BY <1>2 DEF Diagnose, TypeOK, EpisodeResult
  <2> QED
    BY <1>2, <2>1 DEF Diagnose, CreditInv, CreditedOnce
<1>3. CASE TriageWorks \/ Terminated
  BY <1>3 DEF TriageWorks, Terminated, vars, CreditInv, CreditedOnce
<1>4. CASE TriageSkips
  BY <1>4, UncreditedVerdict DEF TriageSkips, CreditInv
<1>5. CASE SelfRecovers
  BY <1>5, CreditOnce DEF SelfRecovers, Looping, CreditInv
<1>6. CASE StrategyStops
  BY <1>6, UncreditedVerdict DEF StrategyStops, Looping, CreditInv
<1>7. CASE StepBound \/ (Looping /\ HorizonPasses)
  BY <1>7, UncreditedVerdict DEF StepBound, HorizonPasses, Looping, CreditInv
<1>8. CASE CloseEpisode
  <2>1. CASE Unrecovered /\ SelfRecoveryDue(WatchUntil)
    <3>1. result.recovered = 0
      BY <2>1 DEF Unrecovered, CreditInv, CreditedOnce, TypeOK, EpisodeResult
    <3> QED
      BY <1>8, <2>1, <3>1, CreditOnce DEF CloseEpisode, CreditInv
  <2>2. CASE ~ (Unrecovered /\ SelfRecoveryDue(WatchUntil))
    <3>1. PICK s \in EpisodeState :
            /\ result' = [result EXCEPT !.state = s]
            /\ s = result.state \/
               (result.state \in {"ingested", "observed"} /\ s = "exhausted")
      BY <1>8, <2>2, VerdictStates DEF CloseEpisode, TypeOK, EpisodeResult
    <3> QED
      BY <1>8, <3>1, VerdictFields DEF CloseEpisode, CreditInv, CreditedOnce
  <2> QED
    BY <2>1, <2>2
<1>9. ASSUME Looping, NEW reason, Denied(reason) PROVE CreditInv'
  <2>1. CASE reason \in TerminalDenials
    <3>1. BlockedState(reason) \notin RecoveredStates
      BY DEF BlockedState
    <3> QED
      BY <1>9, <2>1, <3>1, UncreditedVerdict DEF Denied, Looping, CreditInv
  <2>2. CASE reason \notin TerminalDenials
    BY <1>9, <2>2 DEF Denied, CreditInv, CreditedOnce
  <2> QED
    BY <2>1, <2>2
<1>10. ASSUME Looping, NEW a, BeatenBySelfRecovery(a) PROVE CreditInv'
  BY <1>10, CreditOnce DEF BeatenBySelfRecovery, Looping, CreditInv
<1>11. ASSUME Looping, NEW a, Exits(a) PROVE CreditInv'
  BY <1>11, UncreditedVerdict DEF Exits, Looping, CreditInv
<1>12. ASSUME NEW a, Verifies(a) PROVE CreditInv'
  <2>1. /\ result'.recovered = result.recovered
        /\ result'.state = result.state
        /\ result'.selfRecovered = result.selfRecovered
    BY <1>12 DEF Verifies, TypeOK, EpisodeResult
  <2> QED
    BY <1>12, <2>1 DEF Verifies, CreditInv, CreditedOnce
<1>13. ASSUME Looping, NEW a, NEW r \in ReactionsTo(a), Acts(a, r) PROVE CreditInv'
  <2>1. /\ r.paid \in 0 .. ep.amount
        /\ r.optedOut \/ r.disputed => r.paid = 0
    BY ReactionTypes
  <2>2. ep.amount \in Nat \ {0} /\ ep' = ep
    BY <1>13, EpisodesAssumption DEF TypeOK, SeededEpisode, Acts
  <2>3. /\ result.state = "ingested" /\ result.recovered = 0
        /\ ~ result.selfRecovered
    BY <1>13, <2>2 DEF Looping, CreditInv, CreditedOnce
  <2>4. /\ result'.recovered = r.paid
        /\ ~ result'.selfRecovered
        /\ result'.state = StateAfter(r)
    BY <1>13, <2>1, <2>3, ActsFields
  <2>5. r.paid > 0 <=> StateAfter(r) \in RecoveredStates
    BY <2>1, <2>2, <2>3 DEF StateAfter
  <2>6. pc' \in {"opened", "triage", "working"} =>
          r.paid = 0 /\ StateAfter(r) = "ingested"
    BY <1>13, <2>1, <2>3 DEF Acts, StateAfter
  <2> QED
    BY <2>1, <2>2, <2>4, <2>5, <2>6 DEF CreditInv, CreditedOnce
<1>14. ASSUME Looping, NEW p, NEW a, Permits(p, a),
              \/ BeatenBySelfRecovery(a)
              \/ Exits(a)
              \/ Verifies(a)
              \/ \E r \in ReactionsTo(a) : Acts(a, r)
       PROVE  CreditInv'
  BY <1>10, <1>11, <1>12, <1>13, <1>14
<1> QED
  BY <1>1, <1>2, <1>3, <1>4, <1>5, <1>6, <1>7, <1>8, <1>9, <1>14, NextCases

(* The books: an episode is credited once, at most with its amount, and     *)
(* holds money exactly when it is in a recovered state.                    *)
THEOREM CreditedAtMostOnce == Spec => []CreditedOnce
<1>1. Init => CreditInv
  BY InitCredit
<1>2. TypeOK /\ CreditInv /\ [Next]_vars => CreditInv'
  BY NextCredit
<1>3. CreditInv => CreditedOnce
  BY DEF CreditInv
<1> QED
  BY <1>1, <1>2, <1>3, TypeCorrect, PTL DEF Spec

-----------------------------------------------------------------------------
(* What a step may not do.                                                 *)

(* The agent and a customer who pays unasked race for the episode: the      *)
(* payment is always looked for at the moment the action runs.             *)
THEOREM PayersLeftAlone == Spec => ActsOnlyBeforeSelfRecovery
<1>1. TypeOK /\ [Next]_vars =>
        [result'.actions > result.actions => ~ SelfRecoveryDue(now')]_vars
  <2> SUFFICES ASSUME TypeOK, [Next]_vars, result'.actions > result.actions
               PROVE  ~ SelfRecoveryDue(now')
    OBVIOUS
  <2>1. ~ Untouched
    BY DEF Untouched, TypeOK, EpisodeResult
  <2>2. PICK a : Executes(a)
    BY <2>1, StepCases DEF Verifies, Acts
  <2> QED
    BY <2>2 DEF Executes
<1> QED
  BY <1>1, TypeCorrect, PTL DEF Spec, ActsOnlyBeforeSelfRecovery

(* The gap between retries is kept by the time a retry runs at, also when   *)
(* the time it was proposed for had gone by.                               *)
THEOREM RetriesAlwaysSpaced == Spec => RetriesSpaced
<1>1. TypeOK /\ [Next]_vars =>
        [result'.retries > result.retries /\ lastRetry # NoTime
           => now' - lastRetry >= Policy.retryGap]_vars
  <2> SUFFICES ASSUME TypeOK, [Next]_vars, result'.retries > result.retries,
                      lastRetry # NoTime
               PROVE  now' - lastRetry >= Policy.retryGap
    OBVIOUS
  <2>1. result \in EpisodeResult
    BY DEF TypeOK
  <2>2. ~ Untouched
    BY <2>1 DEF Untouched, EpisodeResult
  <2>3. PICK p, a : Permits(p, a) /\ (Verifies(a) \/ \E r \in ReactionsTo(a) : Acts(a, r))
    BY <2>2, StepCases
  <2>4. ~ Verifies(a)
    BY <2>1 DEF Verifies, EpisodeResult
  <2>5. a.tool = "retry_payment" /\ now' = RunsAt(a)
    <3>1. PICK r \in ReactionsTo(a) : Acts(a, r)
      BY <2>3, <2>4
    <3>2. result'.retries # result.retries
      BY <2>1 DEF EpisodeResult
    <3>3. a.tool = "retry_payment"
      BY <3>1, <3>2, ActsFields
    <3> QED
      BY <3>1, <3>3 DEF Acts, Executes
  <2> DEFINE c == GateContext(When(p))
  <2>6. /\ p \in ProposedAction /\ p.tool = "retry_payment"
        /\ a = Ruling(p).action /\ Ruling(p).verdict # "deny"
    BY <2>3, <2>5, PermittedAction DEF Permits
  <2>7. RunsAt(a) \in Nat /\ RunsAt(a) >= now /\ lastRetry \in Nat
    BY <2>3, RunsAtType DEF TypeOK, Instant
  <2>8. CASE RetryTooSoon(p, c)
    <3>1. Ruling(p).action = [p EXCEPT !.at = c.lastRetry + Policy.retryGap]
      BY <2>6, <2>8 DEF Ruling, Evaluate, Deny, Modify, AlwaysAllowed
    <3>2. a.at = lastRetry + Policy.retryGap
      BY <2>6, <3>1, ContextFields DEF ProposedAction
    <3> QED
      BY <2>5, <2>7, <3>2, PolicyTypes DEF RunsAt, Later, TypeOK
  <2>9. CASE ~ RetryTooSoon(p, c)
    <3>1. ~ InQuietHours(p, c)
      BY <2>6 DEF InQuietHours, ContactActions
    <3>2. a = p
      BY <2>6, <2>9, <3>1 DEF Ruling, Evaluate, Deny, Allow
    <3>3. Target(p, c) - lastRetry >= Policy.retryGap
      <4>1. Target(p, c) \in Nat
        BY <2>6, WhenType, ContextFields DEF Target, ProposedAction, Instant
      <4> QED
        BY <2>6, <2>7, <2>9, <4>1, PolicyTypes, ContextFields DEF RetryTooSoon
    <3>4. RunsAt(a) >= Target(p, c)
      BY <2>6, <2>7, <3>2, WhenType, ContextFields
      DEF Target, RunsAt, Later, TypeOK, ProposedAction, Instant
    <3>5. Target(p, c) \in Nat
      BY <2>6, WhenType, ContextFields DEF Target, ProposedAction, Instant
    <3> QED
      BY <2>5, <2>7, <3>3, <3>4, <3>5, PolicyTypes
  <2> QED
    BY <2>8, <2>9
<1> QED
  BY <1>1, TypeCorrect, PTL DEF Spec, RetriesSpaced

(* After the verdict nothing more is done: the loop has no step that works  *)
(* on an episode it is only watching.                                      *)
THEOREM VerdictEndsWork == Spec => NoWorkAfterVerdict
<1>1. TypeOK /\ [Next]_vars =>
        [(pc \in {"watching", "closed"}) =>
           UNCHANGED <<history, lastRetry, step, result.actions, result.cost>>]_vars
  <2> SUFFICES ASSUME TypeOK, [Next]_vars, pc \in {"watching", "closed"}
               PROVE  UNCHANGED <<history, lastRetry, step, result.actions, result.cost>>
    OBVIOUS
  <2>1. CASE UNCHANGED vars
    BY <2>1 DEF vars
  <2>2. CASE CloseEpisode
    <3>1. /\ result'.actions = result.actions
          /\ result'.cost = result.cost
      BY <2>2 DEF CloseEpisode, CreditSelfRecovery, TypeOK, EpisodeResult
    <3> QED
      BY <2>2, <3>1 DEF CloseEpisode
  <2>3. CASE Terminated
    BY <2>3 DEF Terminated, vars
  <2> QED
    BY <2>1, <2>2, <2>3, NextCases
    DEF Diagnose, TriageWorks, TriageSkips, SelfRecovers, StrategyStops,
        StepBound, Looping
<1> QED
  BY <1>1, TypeCorrect, PTL DEF Spec, NoWorkAfterVerdict

(* A policy that lists every cause of NEVER_RETRY (as the shipped one does) *)
(* retries a payment that must not be retried only when the diagnosis was   *)
(* wrong, and, if it was hesitant, had not even named the true cause as its *)
(* doubt.                                                                  *)
ForbiddenInv ==
  /\ ForbiddenOnlyByMisdiagnosis
  /\ pc = "opened" => result.forbidden = 0

(* Every step keeps harm to misdiagnosed episodes.                         *)
LEMMA NextForbidden ==
  ASSUME NEVER_RETRY \subseteq Policy.neverRetry
  PROVE  TypeOK /\ ForbiddenInv /\ [Next]_vars => ForbiddenInv'
<1> SUFFICES ASSUME TypeOK, ForbiddenInv, [Next]_vars PROVE ForbiddenInv'
  OBVIOUS
<1>1. CASE Diagnose
  BY <1>1 DEF Diagnose, ForbiddenInv, ForbiddenOnlyByMisdiagnosis, TypeOK, EpisodeResult
<1>2. CASE UNCHANGED vars
  BY <1>2 DEF vars, ForbiddenInv, ForbiddenOnlyByMisdiagnosis
<1>3. ASSUME UNCHANGED <<ep, diag>>, Untouched, pc' # "opened" PROVE ForbiddenInv'
  BY <1>3 DEF Untouched, ForbiddenInv, ForbiddenOnlyByMisdiagnosis
<1>4. ASSUME NEW p, NEW a, Permits(p, a), Looping, Verifies(a) PROVE ForbiddenInv'
  <2>1. result'.forbidden = result.forbidden
    BY <1>4 DEF Verifies, TypeOK, EpisodeResult
  <2> QED
    BY <1>4, <2>1
    DEF Verifies, Looping, ForbiddenInv, ForbiddenOnlyByMisdiagnosis
<1>5. ASSUME NEW p, NEW a, Permits(p, a), Looping, NEW r \in ReactionsTo(a), Acts(a, r)
      PROVE  ForbiddenInv'
  <2>1. UNCHANGED <<ep, diag>> /\ pc' # "opened" /\ a.tool \notin AlwaysAllowed
    BY <1>5 DEF Acts
  <2>2. CASE a.tool = "retry_payment" /\ ep.trueCause \in NEVER_RETRY
    <3>1. ep.trueCause # diag.cause
      BY <1>5, <2>1, <2>2, PermittedChecks
    <3>2. ~ diag.confident => ep.trueCause \notin {diag.alternative, diag.risk}
      BY <1>5, <2>1, <2>2, PermittedChecks
    <3> QED
      BY <2>1, <3>1, <3>2 DEF ForbiddenInv, ForbiddenOnlyByMisdiagnosis
  <2>3. CASE ~ (a.tool = "retry_payment" /\ ep.trueCause \in NEVER_RETRY)
    <3>1. result'.forbidden = result.forbidden
      BY <1>5, <2>3, ActsFields
    <3> QED
      BY <2>1, <3>1 DEF ForbiddenInv, ForbiddenOnlyByMisdiagnosis
  <2> QED
    BY <2>2, <2>3
<1>6. Untouched =>
        \/ Diagnose \/ UNCHANGED vars
        \/ UNCHANGED <<ep, diag>> /\ pc' # "opened"
  <2>1. CASE UNCHANGED vars
    BY <2>1
  <2>2. CASE Next /\ ~ Diagnose
    BY <2>2, NextCases
    DEF TriageWorks, TriageSkips, SelfRecovers, StrategyStops, StepBound,
        CloseEpisode, Terminated, HorizonPasses, Denied, Looping,
        BeatenBySelfRecovery, Exits, Verifies, Acts
  <2> QED
    BY <2>1, <2>2
<1> QED
  BY <1>1, <1>2, <1>3, <1>4, <1>5, <1>6, StepCases

(* Harm done by a retry is harm done by a misdiagnosis (ForbiddenInv).     *)
THEOREM HarmOnlyByMisdiagnosis ==
  ASSUME NEVER_RETRY \subseteq Policy.neverRetry
  PROVE  Spec => []ForbiddenOnlyByMisdiagnosis
<1>1. Init => ForbiddenInv
  BY DEF Init, FreshResult, ForbiddenInv, ForbiddenOnlyByMisdiagnosis
<1>2. TypeOK /\ ForbiddenInv /\ [Next]_vars => ForbiddenInv'
  BY NextForbidden
<1>3. ForbiddenInv => ForbiddenOnlyByMisdiagnosis
  BY DEF ForbiddenInv
<1> QED
  BY <1>1, <1>2, <1>3, TypeCorrect, PTL DEF Spec

-----------------------------------------------------------------------------
(* The distance between contacts.  The gate measures it at the time the     *)
(* contact was proposed for; the contact is made at a time of its own.      *)

(* The contact history, entry by entry.                                    *)
LEMMA HistoryEntries ==
  ASSUME TypeOK
  PROVE  /\ Len(history) \in Nat
         /\ DOMAIN history = 1 .. Len(history)
         /\ history # << >> => Len(history) \in DOMAIN history
         /\ \A i \in DOMAIN history :
              history[i] \in ContactEntry /\ history[i].at \in Nat
<1>1. history \in Seq(ContactEntry)
  BY DEF TypeOK
<1>2. ASSUME NEW i \in DOMAIN history PROVE history[i] \in ContactEntry
  BY <1>1
<1>3. \A e \in ContactEntry : e.at \in Nat
  BY DEF ContactEntry
<1> QED
  BY <1>1, <1>2, <1>3

(* A gap from the latest of several instants is one from each of them.     *)
LEMMA GapCarries ==
  ASSUME NEW runs \in Nat, NEW when \in Nat, runs >= when,
         NEW earlier \in Nat, NEW latest \in Nat, earlier <= latest,
         NEW gap \in Nat, ~ (when - latest < gap)
  PROVE  runs - earlier >= gap
  OBVIOUS

(* The cooldowns of the ladder are numbers.                                *)
LEMMA LadderCooldown ==
  ASSUME NEW i \in DOMAIN Policy.ladder
  PROVE  Policy.ladder[i].cooldown \in Nat
<1>1. Policy.ladder[i] \in Rung
  BY PolicyTypes
<1>2. \A rung \in Rung : rung.cooldown \in Nat
  BY DEF Rung
<1> QED
  BY <1>1, <1>2

(* A contact is made no earlier than the time the gate measured it at.     *)
LEMMA ContactNotEarly ==
  ASSUME TypeOK, NEW p, NEW a, Permits(p, a), a.tool \in ContactActions
  PROVE  RunsAt(a) >= When(p)
<1> DEFINE c == GateContext(When(p))
           t == NextAllowedTime(Target(p, c), QuietWindow(p.channel))
<1>1. /\ p \in ProposedAction /\ p.tool = a.tool
      /\ a = Ruling(p).action /\ Ruling(p).verdict # "deny"
  BY PermittedAction DEF Permits
<1>2. ~ RetryTooSoon(p, c)
  BY <1>1 DEF RetryTooSoon, ContactActions
<1>3. Target(p, c) \in Nat /\ t \in Nat /\ t >= Target(p, c)
  <2>1. Target(p, c) \in Nat
    BY <1>1, WhenType, ContextFields DEF Target, ProposedAction, Instant
  <2>2. QuietWindow(p.channel) \in Window
    BY PolicyTypes DEF QuietWindow
  <2> QED
    BY <2>1, <2>2, NextAllowedTimeType
<1>4. a = p \/ a = [p EXCEPT !.at = t]
  BY <1>1, <1>2 DEF Ruling, Evaluate, Deny, Allow, Modify
<1>5. CASE a = p
  BY <1>1, <1>5, WhenType DEF RunsAt, When, Later, TypeOK, ProposedAction, Instant, NoTime
<1>6. CASE a = [p EXCEPT !.at = t]
  <2>1. a.at = t
    BY <1>1, <1>6 DEF ProposedAction
  <2>2. t >= p.at
    BY <1>1, <1>3 DEF Target, ProposedAction, Instant, NoTime
  <2> HIDE DEF t
  <2> QED
    BY <1>1, <1>3, <2>1, <2>2 DEF RunsAt, When, Later, TypeOK, ProposedAction, Instant, NoTime
<1> QED
  BY <1>4, <1>5, <1>6

(* What a permitted contact has been measured against.                     *)
LEMMA ContactChecks ==
  ASSUME TypeOK, NEW p, NEW a, Permits(p, a), a.tool \in ContactActions,
         history # << >>
  PROVE  LET rung == RequestedRung(a, Len(history))
             last == LastContact(history)
         IN  /\ rung \in DOMAIN Policy.ladder
             /\ ~ (When(p) < history[Len(history)].at + Policy.ladder[rung].cooldown)
             /\ ~ last.responded =>
                  ~ (When(p) - last.at < Policy.noResponseCooldown)
<1> DEFINE c == GateContext(When(p))
           rung == RequestedRung(p, c.rung)
<1>1. /\ p \in ProposedAction /\ a.tool = p.tool /\ a.rung = p.rung
      /\ a.tool \notin AlwaysAllowed
  BY PermittedAction DEF Permits, ContactActions, AlwaysAllowed
<1>2. \A r \in DOMAIN Objections(p, c) : ~ Objections(p, c)[r]
  BY <1>1, EvaluateAllows DEF Permits, Ruling
<1>3. rung \in DOMAIN Policy.ladder
  BY <1>1, <1>2 DEF Objections
<1>4. c.lastRung # NoTime => ~ (c.now < c.lastRung + Policy.ladder[rung].cooldown)
  BY <1>1, <1>2, <1>3 DEF Objections
<1>5. c.history # << >> /\ ~ LastContact(c.history).responded =>
        ~ (c.now - LastContact(c.history).at < Policy.noResponseCooldown)
  BY <1>1, <1>2 DEF Objections
<1>6. rung = RequestedRung(a, Len(history))
  BY <1>1, ContextFields DEF RequestedRung
<1>7. history[Len(history)].at \in Nat
  BY HistoryEntries
<1>8. c.lastRung = history[Len(history)].at /\ c.lastRung # NoTime
  BY <1>7 DEF GateContext, NoTime
<1> HIDE DEF c, rung
<1>9. c = GateContext(When(p))
  BY DEF c
<1> QED
  BY <1>3, <1>4, <1>5, <1>6, <1>8, <1>9, ContextFields

(* Strengthening: the record is in order and not ahead of the clock, and a  *)
(* counterparty who responded is worked no more.                           *)
SpacingInv ==
  /\ ContactSpacing
  /\ \A i \in DOMAIN history : history[i].at <= now
  /\ pc = "working" => \A i \in DOMAIN history : ~ history[i].responded
  /\ pc \in {"opened", "triage"} => history = << >>

(* The latest contact is the last recorded. *)
LEMMA LastContactLatest ==
  ASSUME TypeOK, ContactSpacing, history # << >>
  PROVE  \E i \in DOMAIN history :
           /\ LastContact(history) = history[i]
           /\ \A j \in DOMAIN history : history[j].at <= history[i].at
<1>1. Len(history) \in DOMAIN history /\ DOMAIN history = 1 .. Len(history)
  BY HistoryEntries
<1>2. \A i \in DOMAIN history : history[i].at \in Nat
  BY HistoryEntries
<1>3. \A j \in DOMAIN history : history[j].at <= history[Len(history)].at
  <2> SUFFICES ASSUME NEW j \in DOMAIN history
               PROVE  history[j].at <= history[Len(history)].at
    OBVIOUS
  <2>1. j = Len(history) \/ j < Len(history)
    BY <1>1
  <2> QED
    BY <1>1, <1>2, <2>1, PolicyTypes DEF ContactSpacing
<1>4. \E i \in DOMAIN history : \A j \in DOMAIN history : history[j].at <= history[i].at
  BY <1>1, <1>3
<1> QED
  BY <1>4 DEF LastContact

(* No contact yet.                                                         *)
LEMMA InitSpacing == Init => SpacingInv
  BY DEF Init, SpacingInv, ContactSpacing

(* Steps that make no contact. *)
LEMMA NoContactSpacing ==
  ASSUME TypeOK, SpacingInv, UNCHANGED history, now' \in Nat, now' >= now,
         pc' \in {"opened", "triage"} => pc \in {"opened", "triage"},
         pc' = "working" => pc \in {"triage", "working"}
  PROVE  SpacingInv'
<1>1. ContactSpacing'
  BY DEF SpacingInv, ContactSpacing
<1>2. \A i \in DOMAIN history : history[i].at <= now'
  BY HistoryEntries DEF SpacingInv, TypeOK
<1>3. pc' = "working" => \A i \in DOMAIN history : ~ history[i].responded
  BY DEF SpacingInv
<1> QED
  BY <1>1, <1>2, <1>3 DEF SpacingInv

(* An interaction keeps the distances: the case the theorem is about.      *)
LEMMA ActsSpacing ==
  ASSUME TypeOK, SpacingInv, Looping, NEW p, NEW a, Permits(p, a),
         NEW r \in ReactionsTo(a), Acts(a, r)
  PROVE  SpacingInv'
<1>1. RunsAt(a) \in Nat /\ RunsAt(a) >= now /\ now' = RunsAt(a)
  BY RunsAtType DEF Acts, Executes
<1>2. pc' \in {"working", "watching"} /\ pc = "working"
  BY DEF Acts, Looping
<1>3. CASE ~ IsContact(a)
  BY <1>1, <1>2, <1>3, NoContactSpacing DEF Acts
<1>4. CASE IsContact(a)
  <2> DEFINE n == Len(history)
             e == Contact(a, r)
  <2>1. /\ history' = Append(history, e)
        /\ history \in Seq(ContactEntry)
    BY <1>4 DEF Acts, TypeOK
  <2>2. /\ e.at = RunsAt(a)
        /\ e.responded = (r.paid > 0)
        /\ e.rung = RequestedRung(a, n)
    BY DEF Contact
  <2> HIDE DEF e
  <2>3. /\ n \in Nat
        /\ DOMAIN history = 1 .. n
        /\ DOMAIN history' = 1 .. n + 1
        /\ history'[n + 1] = e
        /\ \A i \in 1 .. n : history'[i] = history[i]
    BY <2>1, HistoryEntries
  <2>4. \A i \in 1 .. n : /\ history[i].at \in Nat
                          /\ history[i].at <= now
                          /\ ~ history[i].responded
    BY <1>2, <2>3, HistoryEntries DEF SpacingInv
  <2>5. a.tool \in ContactActions /\ RunsAt(a) >= When(p) /\ When(p) \in Nat
    BY <1>4, ContactNotEarly, WhenType DEF IsContact, Permits
  <2>6. \A i \in 1 .. n : RunsAt(a) - history[i].at >= Policy.noResponseCooldown
    <3> SUFFICES ASSUME NEW i \in 1 .. n
                 PROVE  RunsAt(a) - history[i].at >= Policy.noResponseCooldown
      OBVIOUS
    <3>1. history # << >>
      BY <2>3
    <3>2. PICK k \in 1 .. n : /\ LastContact(history) = history[k]
                              /\ history[i].at <= history[k].at
      BY <2>3, <3>1, LastContactLatest DEF SpacingInv
    <3>3. ~ LastContact(history).responded
      BY <2>4, <3>2
    <3>4. ~ (When(p) - LastContact(history).at < Policy.noResponseCooldown)
      BY <2>5, <3>1, <3>3, ContactChecks
    <3>5. /\ history[k].at \in Nat /\ history[i].at \in Nat
          /\ ~ (When(p) - history[k].at < Policy.noResponseCooldown)
      BY <2>4, <3>2, <3>4
    <3>6. Policy.noResponseCooldown \in Nat
      BY PolicyTypes
    <3> QED
      BY <1>1, <2>5, <3>2, <3>5, <3>6, GapCarries
  <2>7. n > 0 => RunsAt(a) - history[n].at >= Policy.ladder[e.rung].cooldown
    <3> SUFFICES ASSUME n > 0
                 PROVE  RunsAt(a) - history[n].at >= Policy.ladder[e.rung].cooldown
      OBVIOUS
    <3>1. history # << >> /\ n \in 1 .. n
      BY <2>3
    <3>2. /\ e.rung \in DOMAIN Policy.ladder
          /\ ~ (When(p) < history[n].at + Policy.ladder[e.rung].cooldown)
      BY <2>2, <2>5, <3>1, ContactChecks
    <3>3. Policy.ladder[e.rung].cooldown \in Nat
      BY <3>2, LadderCooldown
    <3> QED
      BY <1>1, <2>4, <2>5, <3>1, <3>2, <3>3
  <2>8. ContactSpacing'
    <3>1. ASSUME NEW i \in DOMAIN history', NEW j \in DOMAIN history', i < j
          PROVE  history'[j].at - history'[i].at >= Policy.noResponseCooldown
      <4>1. CASE j = n + 1
        BY <2>2, <2>3, <2>6, <3>1, <4>1
      <4>2. CASE j # n + 1
        BY <2>3, <3>1, <4>2 DEF SpacingInv, ContactSpacing
      <4> QED
        BY <4>1, <4>2
    <3>2. Len(history') = n + 1
      BY <2>1
    <3>3. ASSUME NEW i \in 2 .. n + 1
          PROVE  history'[i].at - history'[i - 1].at
                   >= Policy.ladder[history'[i].rung].cooldown
      <4>1. CASE i = n + 1
        BY <2>2, <2>3, <2>7, <3>3, <4>1
      <4>2. CASE i # n + 1
        <5>1. i \in 2 .. n /\ i - 1 \in 1 .. n /\ i \in 1 .. n
          BY <2>3, <3>3, <4>2
        <5> QED
          BY <2>3, <5>1 DEF SpacingInv, ContactSpacing
      <4> QED
        BY <4>1, <4>2
    <3> QED
      BY <3>1, <3>2, <3>3 DEF ContactSpacing
  <2>9. \A i \in 1 .. n + 1 : history'[i].at <= now'
    BY <1>1, <2>2, <2>3, <2>4 DEF TypeOK
  <2>10. pc' = "working" => \A i \in 1 .. n + 1 : ~ history'[i].responded
    <3>1. SUFFICES ASSUME pc' = "working", NEW i \in 1 .. n + 1
                   PROVE  ~ history'[i].responded
      OBVIOUS
    <3>2. ~ (r.paid > 0)
      BY <3>1 DEF Acts
    <3>3. CASE i = n + 1
      BY <2>2, <2>3, <3>2, <3>3
    <3>4. CASE i # n + 1
      <4>1. i \in 1 .. n
        BY <2>3, <3>1, <3>4
      <4> QED
        BY <2>3, <2>4, <4>1
    <3> QED
      BY <3>3, <3>4
  <2> QED
    BY <1>2, <2>3, <2>8, <2>9, <2>10 DEF SpacingInv
<1> QED
  BY <1>3, <1>4

(* Every step keeps the distances.                                         *)
LEMMA NextSpacing == TypeOK /\ SpacingInv /\ [Next]_vars => SpacingInv'
<1> SUFFICES ASSUME TypeOK, SpacingInv, [Next]_vars PROVE SpacingInv'
  OBVIOUS
<1>1. now \in Nat
  BY DEF TypeOK
<1>2. CASE UNCHANGED vars
  BY <1>1, <1>2, NoContactSpacing DEF vars
<1>3. CASE \/ Diagnose \/ TriageWorks \/ TriageSkips \/ SelfRecovers
           \/ StrategyStops \/ StepBound \/ CloseEpisode
  BY <1>1, <1>3, NoContactSpacing
  DEF Diagnose, TriageWorks, TriageSkips, SelfRecovers, StrategyStops,
      StepBound, CloseEpisode, Looping
<1>4. CASE Terminated
  BY <1>2, <1>4 DEF Terminated
<1>5. CASE Looping /\ HorizonPasses
  BY <1>1, <1>5, NoContactSpacing DEF HorizonPasses, Looping
<1>6. ASSUME Looping, NEW reason, Denied(reason) PROVE SpacingInv'
  BY <1>1, <1>6, NoContactSpacing DEF Denied, Looping
<1>7. ASSUME Looping, NEW p, NEW a, Permits(p, a),
             BeatenBySelfRecovery(a) \/ Exits(a) \/ Verifies(a)
      PROVE  SpacingInv'
  BY <1>7, RunsAtType, NoContactSpacing
  DEF BeatenBySelfRecovery, Exits, Verifies, Executes, Looping
<1>8. ASSUME Looping, NEW p, NEW a, Permits(p, a),
             \/ BeatenBySelfRecovery(a)
             \/ Exits(a)
             \/ Verifies(a)
             \/ \E r \in ReactionsTo(a) : Acts(a, r)
      PROVE  SpacingInv'
  BY <1>7, <1>8, ActsSpacing
<1> QED
  BY <1>2, <1>3, <1>4, <1>5, <1>6, <1>8, NextCases

(* No two contacts are closer than the policy's cooldown, nor a contact      *)
(* closer to the one before it than its rung's, although the gate only ever *)
(* compares a proposed time with the latest contact.                       *)
THEOREM ContactsAlwaysSpaced == Spec => []ContactSpacing
<1>1. Init => SpacingInv
  BY InitSpacing
<1>2. TypeOK /\ SpacingInv /\ [Next]_vars => SpacingInv'
  BY NextSpacing
<1>3. SpacingInv => ContactSpacing
  BY DEF SpacingInv
<1> QED
  BY <1>1, <1>2, <1>3, TypeCorrect, PTL DEF Spec

-----------------------------------------------------------------------------
(* The ladder.                                                             *)

(* Rungs are numbered.                                                     *)
LEMMA LadderRungs == DOMAIN Policy.ladder \subseteq Nat
<1>1. Policy.ladder \in Seq(Rung)
  BY PolicyAssumption DEF PolicyBundle
<1> QED
  BY <1>1

(* The rung a permitted contact asks for exists and is the next or lower.   *)
LEMMA RungChecks ==
  ASSUME TypeOK, NEW p, NEW a, Permits(p, a), a.tool \in ContactActions
  PROVE  /\ RequestedRung(a, Len(history)) \in DOMAIN Policy.ladder
         /\ ~ SkipsRungs(RequestedRung(a, Len(history)), Len(history))
<1> DEFINE c == GateContext(When(p))
           rung == RequestedRung(p, c.rung)
<1>1. /\ p \in ProposedAction /\ a.tool = p.tool /\ a.rung = p.rung
      /\ a.tool \notin AlwaysAllowed
  BY PermittedAction DEF Permits, ContactActions, AlwaysAllowed
<1>2. \A r \in DOMAIN Objections(p, c) : ~ Objections(p, c)[r]
  BY <1>1, EvaluateAllows DEF Permits, Ruling
<1>3. rung \in DOMAIN Policy.ladder
  BY <1>1, <1>2 DEF Objections
<1>4. ~ SkipsRungs(rung, c.rung)
  BY <1>1, <1>2 DEF Objections
<1>5. c.rung = Len(history) /\ rung = RequestedRung(a, Len(history))
  BY <1>1 DEF GateContext, RequestedRung
<1> HIDE DEF c, rung
<1> QED
  BY <1>3, <1>4, <1>5

(* A contact appended to the record is on a rung within its place.         *)
LEMMA ActsRungs ==
  ASSUME TypeOK, RungsWithinContacts, NEW p, NEW a, Permits(p, a),
         NEW r, Acts(a, r)
  PROVE  RungsWithinContacts'
<1>1. CASE ~ IsContact(a)
  BY <1>1 DEF Acts, RungsWithinContacts
<1>2. CASE IsContact(a)
  <2> DEFINE n == Len(history)
             e == Contact(a, r)
  <2>1. history' = Append(history, e) /\ history \in Seq(ContactEntry)
    BY <1>2 DEF Acts, TypeOK
  <2>2. /\ e.rung \in DOMAIN Policy.ladder
        /\ ~ SkipsRungs(e.rung, n)
    BY <1>2, RungChecks DEF IsContact, Contact
  <2> HIDE DEF e
  <2>3. /\ n \in Nat
        /\ DOMAIN history = 1 .. n
        /\ DOMAIN history' = 1 .. n + 1
        /\ history'[n + 1] = e
        /\ \A i \in 1 .. n : history'[i] = history[i]
    BY <2>1, HistoryEntries
  <2>4. DOMAIN Policy.ladder \subseteq Int
    BY LadderRungs
  <2>5. e.rung <= n + 1
    BY <2>2, <2>3, <2>4 DEF SkipsRungs
  <2> QED
    BY <2>2, <2>3, <2>5 DEF RungsWithinContacts
<1> QED
  BY <1>1, <1>2

(* No strategy is let onto rung n of the ladder before n - 1 contacts were   *)
(* made, whatever rungs it asks for and however many are denied it.        *)
THEOREM RungsAlwaysWithinContacts == Spec => []RungsWithinContacts
<1>1. Init => RungsWithinContacts
  BY DEF Init, RungsWithinContacts
<1>2. TypeOK /\ RungsWithinContacts /\ [Next]_vars => RungsWithinContacts'
  <2> SUFFICES ASSUME TypeOK, RungsWithinContacts, [Next]_vars
               PROVE  RungsWithinContacts'
    OBVIOUS
  <2>1. CASE Untouched
    BY <2>1 DEF Untouched, RungsWithinContacts
  <2>2. ASSUME NEW a, Verifies(a) PROVE RungsWithinContacts'
    BY <2>2 DEF Verifies, RungsWithinContacts
  <2> QED
    BY <2>1, <2>2, ActsRungs, StepCases
<1> QED
  BY <1>1, <1>2, TypeCorrect, PTL DEF Spec

-----------------------------------------------------------------------------
(* Spend.                                                                  *)

(* Cost is booked by the diagnosis, before there is any contact, and by     *)
(* contacts.                                                               *)
LEMMA CostCases ==
  ASSUME TypeOK, [Next]_vars
  PROVE  \/ pc = "opened" /\ pc' = "triage" /\ history' = history
         \/ /\ result'.cost = result.cost
            /\ history' = history
            /\ pc' = "opened" => pc = "opened"
         \/ /\ Looping
            /\ \E p, a : Permits(p, a) /\ \E r \in ReactionsTo(a) : Acts(a, r)
<1> DEFINE Free == /\ result'.cost = result.cost
                   /\ history' = history
                   /\ pc' = "opened" => pc = "opened"
<1>1. CASE UNCHANGED vars
  BY <1>1 DEF vars
<1>2. CASE Diagnose
  BY <1>2 DEF Diagnose
<1>3. CASE TriageWorks \/ Terminated
  BY <1>3 DEF TriageWorks, Terminated, vars
<1>4. CASE TriageSkips \/ StrategyStops \/ StepBound \/ HorizonPasses
  BY <1>4, VerdictFields DEF TriageSkips, StrategyStops, StepBound, HorizonPasses
<1>5. CASE SelfRecovers
  BY <1>5, CreditFields DEF SelfRecovers
<1>6. CASE CloseEpisode
  BY <1>6, CreditFields, VerdictFields DEF CloseEpisode
<1>7. ASSUME NEW reason, Denied(reason) PROVE Free
  BY <1>7, VerdictFields DEF Denied
<1>8. ASSUME NEW a, BeatenBySelfRecovery(a) PROVE Free
  BY <1>8, CreditFields DEF BeatenBySelfRecovery
<1>9. ASSUME NEW a, Exits(a) PROVE Free
  BY <1>9, VerdictFields DEF Exits
<1>10. ASSUME NEW a, Verifies(a) PROVE Free
  BY <1>10 DEF Verifies, TypeOK, EpisodeResult
<1> QED
  BY <1>1, <1>2, <1>3, <1>4, <1>5, <1>6, <1>7, <1>8, <1>9, <1>10, NextCases

(* No contact has been made when the diagnosis is paid for.                *)
SpendInv == SpendBounded /\ (pc = "opened" => history = << >>)

LEMMA NextSpend == TypeOK /\ SpendInv /\ [Next]_vars => SpendInv'
<1> SUFFICES ASSUME TypeOK, SpendInv, [Next]_vars PROVE SpendInv'
  OBVIOUS
<1>1. CASE pc = "opened" /\ pc' = "triage" /\ history' = history
  BY <1>1 DEF SpendInv, SpendBounded
<1>2. CASE /\ result'.cost = result.cost
           /\ history' = history
           /\ pc' = "opened" => pc = "opened"
  BY <1>2 DEF SpendInv, SpendBounded
<1>3. ASSUME Looping, NEW p, NEW a, Permits(p, a), NEW r \in ReactionsTo(a), Acts(a, r)
      PROVE  SpendInv'
  <2>1. pc' # "opened"
    BY <1>3 DEF Acts
  <2>2. CASE ~ IsContact(a)
    BY <1>3, <2>1, <2>2, ActsFields DEF Acts, SpendInv, SpendBounded
  <2>3. CASE IsContact(a)
    <3> DEFINE e == Contact(a, r)
    <3>1. a.tool \notin AlwaysAllowed
      BY <1>3 DEF Acts
    <3>2. result.cost < Policy.maxSpend
      BY <1>3, <3>1, PermittedChecks, PolicyTypes DEF AtCap, TypeOK, EpisodeResult
    <3>3. a.channel \in Channel
      BY <1>3, PermittedAction, <2>3 DEF Permits, ProposedAction, IsContact
    <3>4. history' = Append(history, e) /\ history \in Seq(ContactEntry) /\ e.channel = a.channel
      BY <1>3, <2>3 DEF Acts, TypeOK, Contact
    <3> HIDE DEF e
    <3>5. history'[Len(history')].channel = a.channel
      BY <3>4, HistoryEntries
    <3>6. result'.cost = result.cost + Price[a.channel]
      BY <1>3, <2>3, ActsFields
    <3>7. Price[a.channel] \in Nat
      BY <3>3, PriceAssumption
    <3>8. result'.cost < Policy.maxSpend + Price[a.channel]
      BY <3>2, <3>6, <3>7, PolicyTypes DEF TypeOK, EpisodeResult
    <3> QED
      BY <2>1, <3>5, <3>8 DEF SpendInv, SpendBounded
  <2> QED
    BY <2>2, <2>3
<1> QED
  BY <1>1, <1>2, <1>3, CostCases

(* The spend cap is passed by less than the price of one contact, whatever   *)
(* the prices: each contact is let through below the cap.                  *)
THEOREM SpendAlwaysBounded == Spec => []SpendBounded
<1>1. Init => SpendInv
  BY DEF Init, SpendInv, SpendBounded
<1>2. TypeOK /\ SpendInv /\ [Next]_vars => SpendInv'
  BY NextSpend
<1>3. SpendInv => SpendBounded
  BY DEF SpendInv
<1> QED
  BY <1>1, <1>2, <1>3, TypeCorrect, PTL DEF Spec

-----------------------------------------------------------------------------
(* The rolling caps.                                                       *)

(* One element more than a set that is not at its cap is within the cap.    *)
LEMMA WithinCap ==
  ASSUME NEW S, IsFiniteSet(S), NEW x, NEW T \in SUBSET (S \union {x}),
         NEW cap \in Nat, ~ AtCap(Cardinality(S), cap)
  PROVE  Cardinality(T) <= cap
<1>1. Cardinality(S) \in Nat
  BY FS_CardinalityType
<1>2. IsFiniteSet(S \union {x}) /\ Cardinality(S \union {x}) \in {Cardinality(S), Cardinality(S) + 1}
  BY FS_AddElement
<1>3. IsFiniteSet(T) /\ Cardinality(T) <= Cardinality(S \union {x})
  BY <1>2, FS_Subset
<1>4. Cardinality(T) \in Nat
  BY <1>3, FS_CardinalityType
<1> QED
  BY <1>1, <1>2, <1>3, <1>4 DEF AtCap

(* The windows the gate counts in, when it lets a contact through.         *)
LEMMA WindowChecks ==
  ASSUME TypeOK, NEW p, NEW a, Permits(p, a), a.tool \in ContactActions
  PROVE  LET Since(ticks) == {j \in DOMAIN history : history[j].at >= When(p) - ticks}
             Voice == {j \in Since(7 * Day) : history[j].channel = "voice"}
         IN  /\ ~ AtCap(Cardinality(Since(Day)), Policy.perDay)
             /\ ~ AtCap(Cardinality(Since(7 * Day)), Policy.perWeek)
             /\ a.channel = "voice" => ~ AtCap(Cardinality(Voice), Policy.voicePerWeek)
<1> DEFINE c == GateContext(When(p))
<1>1. /\ p \in ProposedAction /\ a.tool = p.tool /\ a.channel = p.channel
      /\ a.tool \notin AlwaysAllowed
  BY PermittedAction DEF Permits, ContactActions, AlwaysAllowed
<1>2. \A r \in DOMAIN Objections(p, c) : ~ Objections(p, c)[r]
  BY <1>1, EvaluateAllows DEF Permits, Ruling
<1>3. ~ AtCap(Cardinality(ContactsSince(c, c.now - Day)), Policy.perDay)
  BY <1>1, <1>2 DEF Objections
<1>4. ~ AtCap(Cardinality(ContactsSince(c, c.now - 7 * Day)), Policy.perWeek)
  BY <1>1, <1>2 DEF Objections
<1>5. a.channel = "voice" =>
        ~ AtCap(Cardinality(VoiceCallsSince(c, c.now - 7 * Day)), Policy.voicePerWeek)
  BY <1>1, <1>2 DEF Objections
<1>6. c.history = history /\ c.now = When(p)
  BY ContextFields
<1> HIDE DEF c
<1> QED
  BY <1>3, <1>4, <1>5, <1>6 DEF ContactsSince, VoiceCallsSince

(* A contact keeps the caps: what falls in a window that ends when it is     *)
(* made fell in the window that ended when it was proposed for, or is it.   *)
LEMMA ActsCaps ==
  ASSUME TypeOK, RollingCaps, NEW p, NEW a, Permits(p, a),
         NEW r \in ReactionsTo(a), Acts(a, r), IsContact(a)
  PROVE  RollingCaps'
<1> DEFINE n == Len(history)
           e == Contact(a, r)
           Since(ticks) == {j \in DOMAIN history : history[j].at >= When(p) - ticks}
           Voiced == {j \in Since(7 * Day) : history[j].channel = "voice"}
           Within(i, ticks) ==
             {j \in 1 .. i : history'[j].at >= history'[i].at - ticks}
           Voice(i) == {j \in Within(i, 7 * Day) : history'[j].channel = "voice"}
<1>1. history' = Append(history, e) /\ history \in Seq(ContactEntry)
  BY DEF Acts, TypeOK
<1>2. e.at = RunsAt(a) /\ e.channel = a.channel
  BY DEF Contact
<1> HIDE DEF e
<1>3. /\ n \in Nat
      /\ DOMAIN history = 1 .. n
      /\ DOMAIN history' = 1 .. n + 1
      /\ history'[n + 1] = e
      /\ \A i \in 1 .. n : history'[i] = history[i] /\ history[i].at \in Nat
  BY <1>1, HistoryEntries
<1>4. /\ RunsAt(a) \in Nat /\ When(p) \in Nat /\ RunsAt(a) >= When(p)
      /\ a.tool \in ContactActions
  BY ContactNotEarly, WhenType, RunsAtType DEF IsContact, Permits
<1>5. Policy.perDay \in Nat /\ Policy.perWeek \in Nat /\ Policy.voicePerWeek \in Nat
  BY PolicyAssumption DEF PolicyBundle
<1>6. ASSUME NEW ticks \in Nat
      PROVE  /\ IsFiniteSet(Since(ticks))
             /\ Within(n + 1, ticks) \in SUBSET (Since(ticks) \union {n + 1})
  <2>1. IsFiniteSet(1 .. n)
    BY <1>3, FS_Interval
  <2>2. IsFiniteSet(Since(ticks))
    BY <1>3, <2>1, FS_Subset
  <2>3. ASSUME NEW j \in 1 .. n, history'[j].at >= history'[n + 1].at - ticks
        PROVE  j \in Since(ticks)
    BY <1>2, <1>3, <1>4, <2>3
  <2> QED
    BY <1>3, <2>2, <2>3
<1>7. IsFiniteSet(Voiced) /\ Voice(n + 1) \in SUBSET (Voiced \union {n + 1})
  <2>1. 7 * Day \in Nat
    BY DayAssumption
  <2>2. IsFiniteSet(Voiced)
    BY <1>6, <2>1, FS_Subset
  <2>3. ASSUME NEW j \in Voice(n + 1), j # n + 1 PROVE j \in Voiced
    <3>1. j \in Since(7 * Day) /\ history'[j].channel = "voice"
      BY <1>6, <2>1, <2>3
    <3> QED
      BY <1>3, <3>1
  <2> QED
    BY <2>2, <2>3
<1>8. Day \in Nat /\ 7 * Day \in Nat
  BY DayAssumption
<1>9. /\ ~ AtCap(Cardinality(Since(Day)), Policy.perDay)
      /\ ~ AtCap(Cardinality(Since(7 * Day)), Policy.perWeek)
      /\ a.channel = "voice" => ~ AtCap(Cardinality(Voiced), Policy.voicePerWeek)
  BY <1>4, WindowChecks
<1>10. ASSUME NEW i \in 1 .. n + 1
       PROVE  /\ Cardinality(Within(i, Day)) <= Policy.perDay
              /\ Cardinality(Within(i, 7 * Day)) <= Policy.perWeek
              /\ i \in Voice(i) => Cardinality(Voice(i)) <= Policy.voicePerWeek
  <2>1. CASE i = n + 1
    <3>1. Cardinality(Within(n + 1, Day)) <= Policy.perDay
      BY <1>5, <1>6, <1>8, <1>9, WithinCap
    <3>2. Cardinality(Within(n + 1, 7 * Day)) <= Policy.perWeek
      BY <1>5, <1>6, <1>8, <1>9, WithinCap
    <3>3. n + 1 \in Voice(n + 1) => a.channel = "voice"
      BY <1>2, <1>3
    <3>4. a.channel = "voice" => Cardinality(Voice(n + 1)) <= Policy.voicePerWeek
      BY <1>5, <1>7, <1>9, WithinCap
    <3> QED
      BY <2>1, <3>1, <3>2, <3>3, <3>4
  <2>2. CASE i # n + 1
    <3> DEFINE Before(ticks) == {j \in 1 .. i : history[j].at >= history[i].at - ticks}
    <3>1. i \in 1 .. n /\ \A j \in 1 .. i : j \in 1 .. n
      BY <1>3, <2>2
    <3>2. ASSUME NEW ticks PROVE Within(i, ticks) = Before(ticks)
      BY <1>3, <3>1
    <3>3. Voice(i) = {j \in Before(7 * Day) : history[j].channel = "voice"}
      BY <1>3, <3>1, <3>2
    <3>4. /\ Cardinality(Before(Day)) <= Policy.perDay
          /\ Cardinality(Before(7 * Day)) <= Policy.perWeek
          /\ i \in Voice(i) =>
               Cardinality({j \in Before(7 * Day) : history[j].channel = "voice"})
                 <= Policy.voicePerWeek
      BY <1>3, <3>1, <3>3 DEF RollingCaps
    <3> QED
      BY <3>2, <3>3, <3>4
  <2> QED
    BY <2>1, <2>2
<1> QED
  BY <1>3, <1>10 DEF RollingCaps

(* The caps hold over every window that ends with a contact, although the    *)
(* gate counted in the window that ended at the time proposed.             *)
THEOREM RollingCapsHold == Spec => []RollingCaps
<1>1. Init => RollingCaps
  BY DEF Init, RollingCaps
<1>2. TypeOK /\ RollingCaps /\ [Next]_vars => RollingCaps'
  <2> SUFFICES ASSUME TypeOK, RollingCaps, [Next]_vars PROVE RollingCaps'
    OBVIOUS
  <2>1. CASE history' = history
    BY <2>1 DEF RollingCaps
  <2>2. ASSUME NEW p, NEW a, Permits(p, a), NEW r \in ReactionsTo(a), Acts(a, r)
        PROVE  RollingCaps'
    BY <2>1, <2>2, ActsCaps DEF Acts
  <2> QED
    BY <2>1, <2>2, CostCases
<1> QED
  BY <1>1, <1>2, TypeCorrect, PTL DEF Spec

-----------------------------------------------------------------------------
(* The horizon.                                                            *)

(* The clock never goes back, and a retry is dated by it.                  *)
LEMMA ClockAdvances ==
  ASSUME TypeOK, [Next]_vars
  PROVE  now' >= now /\ (lastRetry' = lastRetry \/ lastRetry' = now')
<1> DEFINE Goal == now' >= now /\ (lastRetry' = lastRetry \/ lastRetry' = now')
<1>1. now \in Nat
  BY DEF TypeOK
<1>2. CASE \/ UNCHANGED vars
           \/ Diagnose \/ TriageWorks \/ TriageSkips \/ SelfRecovers
           \/ StrategyStops \/ StepBound \/ HorizonPasses \/ CloseEpisode \/ Terminated
  BY <1>1, <1>2 DEF vars, Diagnose, TriageWorks, TriageSkips, SelfRecovers,
     StrategyStops, StepBound, HorizonPasses, CloseEpisode, Terminated
<1>3. ASSUME NEW reason, Denied(reason) PROVE Goal
  BY <1>1, <1>3 DEF Denied
<1>4. ASSUME NEW p, NEW a, Permits(p, a), BeatenBySelfRecovery(a) \/ Executes(a)
      PROVE  Goal
  BY <1>4, RunsAtType DEF BeatenBySelfRecovery, Executes
<1> QED
  BY <1>2, <1>3, <1>4, NextCases DEF Exits, Verifies, Acts

(* How far an action may be moved past the time it was measured at: a contact *)
(* to the end of the quiet hours, a retry to the gap after the last one.    *)
Delay(tool) ==
  IF tool \in ContactActions THEN Day
  ELSE IF tool = "retry_payment" THEN Policy.retryGap ELSE 0

(* A permitted action is moved no further than that.                       *)
LEMMA NotFarPast ==
  ASSUME TypeOK, lastRetry # NoTime => lastRetry <= now,
         NEW p, NEW a, Permits(p, a)
  PROVE  RunsAt(a) <= When(p) + Delay(a.tool)
<1> DEFINE c == GateContext(When(p))
           t == NextAllowedTime(Target(p, c), QuietWindow(p.channel))
           w == When(p)
           delay == Delay(a.tool)
<1>1. /\ p \in ProposedAction /\ p.tool = a.tool
      /\ a = Ruling(p).action /\ Ruling(p).verdict # "deny"
  BY PermittedAction DEF Permits
<1>2. /\ now \in Nat /\ w \in Nat /\ w >= now
      /\ p.at # NoTime => p.at \in Nat /\ p.at <= w
  BY <1>1, WhenType DEF TypeOK, When, Later, ProposedAction, Instant
<1>3. /\ delay \in Nat /\ Day \in Nat /\ Policy.retryGap \in Nat
      /\ p.tool \in ContactActions => delay = Day
      /\ p.tool = "retry_payment" => delay = Policy.retryGap
  BY <1>1, DayAssumption, PolicyTypes DEF Delay, ContactActions
<1>4. Target(p, c) \in Nat /\ Target(p, c) <= w
  BY <1>2, ContextFields DEF Target
<1>5. t \in Nat /\ t <= Target(p, c) + Day
  <2>1. QuietWindow(p.channel) \in Window
    BY PolicyTypes DEF QuietWindow
  <2> QED
    BY <1>4, <2>1, NextAllowedTimeType
<1>6. \/ a = p
      \/ RetryTooSoon(p, c) /\ a = [p EXCEPT !.at = c.lastRetry + Policy.retryGap]
      \/ InQuietHours(p, c) /\ a = [p EXCEPT !.at = t]
  BY <1>1 DEF Ruling, Evaluate, Deny, Allow, Modify
<1>7. a.at = NoTime \/ (a.at \in Nat /\ a.at <= w + delay)
  <2>1. CASE a = p
    BY <1>2, <1>3, <2>1
  <2>2. CASE RetryTooSoon(p, c) /\ a = [p EXCEPT !.at = c.lastRetry + Policy.retryGap]
    <3>1. /\ c.lastRetry = lastRetry /\ lastRetry # NoTime /\ lastRetry \in Nat
          /\ p.tool = "retry_payment"
      BY <2>2, ContextFields DEF RetryTooSoon, TypeOK, Instant
    <3>2. a.at = lastRetry + Policy.retryGap
      BY <1>1, <2>2, <3>1 DEF ProposedAction
    <3> QED
      BY <1>2, <1>3, <3>1, <3>2
  <2>3. CASE InQuietHours(p, c) /\ a = [p EXCEPT !.at = t]
    <3>1. a.at = t /\ p.tool \in ContactActions
      BY <1>1, <2>3 DEF ProposedAction, InQuietHours
    <3> HIDE DEF t, delay
    <3> QED
      BY <1>2, <1>3, <1>4, <1>5, <3>1
  <2> QED
    BY <1>6, <2>1, <2>2, <2>3
<1> HIDE DEF w, delay
<1>8. RunsAt(a) <= w + delay
  BY <1>2, <1>3, <1>7 DEF RunsAt, Later, NoTime
<1> QED
  BY <1>8 DEF w, delay

(* No retry is dated in the future.                                        *)
RetryPast == lastRetry # NoTime => lastRetry <= now

LEMMA RetryAlwaysPast == Spec => []RetryPast
<1>1. Init => RetryPast
  BY DEF Init, RetryPast
<1>2. TypeOK /\ TypeOK' /\ RetryPast /\ [Next]_vars => RetryPast'
  <2> SUFFICES ASSUME TypeOK, TypeOK', RetryPast, [Next]_vars PROVE RetryPast'
    OBVIOUS
  <2>1. /\ now \in Nat /\ now' \in Nat
        /\ lastRetry # NoTime => lastRetry \in Nat
    BY DEF TypeOK, Instant
  <2> QED
    BY <2>1, ClockAdvances DEF RetryPast
<1> QED
  BY <1>1, <1>2, TypeCorrect, PTL DEF Spec

(* Work stops at the action window, but for one action that was admitted     *)
(* inside it: that one is moved by no more than a day or a retry gap.       *)
THEOREM WorkAlwaysStopsNearHorizon == Spec => WorkStopsNearHorizon
<1>1. TypeOK /\ RetryPast /\ [Next]_vars =>
        [result'.actions > result.actions =>
           now' <= ep.opened + Policy.actionWindow + Later(Day, Policy.retryGap)]_vars
  <2> SUFFICES ASSUME TypeOK, RetryPast, [Next]_vars, result'.actions > result.actions
               PROVE  now' <= ep.opened + Policy.actionWindow + Later(Day, Policy.retryGap)
    OBVIOUS
  <2>1. ~ Untouched
    BY DEF Untouched, TypeOK, EpisodeResult
  <2>2. PICK p, a : Permits(p, a) /\ (Verifies(a) \/ \E r \in ReactionsTo(a) : Acts(a, r))
    BY <2>1, StepCases
  <2>3. a.tool \notin AlwaysAllowed /\ now' = RunsAt(a)
    BY <2>2 DEF Verifies, Acts, Executes, AlwaysAllowed
  <2>4. p \in ProposedAction /\ p.tool = a.tool
    BY <2>2, PermittedAction DEF Permits
  <2>5. When(p) \in Nat /\ When(p) <= ep.opened + Policy.actionWindow
    <3>1. ep.opened \in Nat
      BY EpisodesAssumption DEF TypeOK, SeededEpisode
    <3> QED
      BY <2>2, <2>3, <2>4, <3>1, WhenType, PolicyTypes DEF Permits, PastHorizon
  <2>6. RunsAt(a) \in Nat /\ RunsAt(a) <= When(p) + Delay(a.tool)
    BY <2>2, <2>3, NotFarPast, RunsAtType DEF RetryPast
  <2>7. /\ ep.opened \in Nat /\ Policy.actionWindow \in Nat
        /\ Delay(a.tool) \in Nat /\ Delay(a.tool) <= Later(Day, Policy.retryGap)
        /\ Later(Day, Policy.retryGap) \in Nat
    BY EpisodesAssumption, PolicyTypes, DayAssumption DEF TypeOK, SeededEpisode, Later, Delay
  <2> QED
    BY <2>3, <2>5, <2>6, <2>7
<1> QED
  BY <1>1, TypeCorrect, RetryAlwaysPast, PTL DEF Spec, WorkStopsNearHorizon

-----------------------------------------------------------------------------
(* The end of an episode.                                                  *)

(* The loop is left with a verdict.                                        *)
SettledInv ==
  /\ EndsSettled
  /\ pc = "watching" => result.state \in TERMINAL_STATES

LEMMA ConcludedStates ==
  ASSUME TypeOK, [Next]_vars, pc # "watching", pc' = "watching"
  PROVE  result'.state \in TERMINAL_STATES
<1> USE DEF TERMINAL_STATES
<1>1. CASE TriageSkips \/ StrategyStops \/ StepBound \/ HorizonPasses
  BY <1>1, VerdictFields DEF TriageSkips, StrategyStops, StepBound, HorizonPasses
<1>2. CASE SelfRecovers
  BY <1>2, CreditFields DEF SelfRecovers
<1>3. ASSUME Looping, NEW reason, Denied(reason) PROVE result'.state \in TERMINAL_STATES
  BY <1>3, VerdictFields DEF Denied, BlockedState, Looping
<1>4. ASSUME NEW a, BeatenBySelfRecovery(a) PROVE result'.state \in TERMINAL_STATES
  BY <1>4, CreditFields DEF BeatenBySelfRecovery
<1>5. ASSUME NEW a, Exits(a) PROVE result'.state \in TERMINAL_STATES
  BY <1>5, VerdictFields DEF Exits
<1>6. ASSUME NEW a, NEW r \in ReactionsTo(a), Acts(a, r)
      PROVE  result'.state \in TERMINAL_STATES
  <2>1. r.disputed \/ r.optedOut \/ r.paid > 0
    BY <1>6 DEF Acts
  <2>2. r.disputed \/ r.optedOut \/ r.paid # 0
    BY <2>1
  <2> QED
    BY <1>6, <2>2, ActsFields DEF StateAfter
<1> QED
  BY <1>1, <1>2, <1>3, <1>4, <1>5, <1>6, NextCases
  DEF vars, Diagnose, TriageWorks, CloseEpisode, Terminated, Verifies, Looping

LEMMA NextSettled == TypeOK /\ SettledInv /\ [Next]_vars => SettledInv'
<1> SUFFICES ASSUME TypeOK, SettledInv, [Next]_vars PROVE SettledInv'
  OBVIOUS
<1>1. CASE CloseEpisode
  <2>1. CASE Unrecovered /\ SelfRecoveryDue(WatchUntil)
    BY <1>1, <2>1, CreditFields
    DEF CloseEpisode, SettledInv, EndsSettled, TERMINAL_STATES, RecoveredStates
  <2>2. CASE ~ (Unrecovered /\ SelfRecoveryDue(WatchUntil))
    <3>1. result.state \in TERMINAL_STATES
      BY <1>1 DEF CloseEpisode, SettledInv
    <3>2. result'.state = result.state
      BY <1>1, <2>2, <3>1, VerdictFields DEF CloseEpisode, TERMINAL_STATES
    <3> QED
      BY <1>1, <2>2, <3>1, <3>2
      DEF CloseEpisode, SettledInv, EndsSettled, Unrecovered, WatchUntil, SelfRecoveryDue
  <2> QED
    BY <2>1, <2>2
<1>2. CASE UNCHANGED vars \/ Terminated
  BY <1>2 DEF Terminated, vars, SettledInv, EndsSettled, SelfRecoveryDue
<1>3. CASE pc \notin {"watching", "closed"} /\ pc' # "closed"
  BY <1>3, ConcludedStates DEF SettledInv, EndsSettled
<1>4. \/ CloseEpisode \/ UNCHANGED vars \/ Terminated
      \/ pc \notin {"watching", "closed"} /\ pc' # "closed"
  BY NextCases
  DEF Diagnose, TriageWorks, TriageSkips, SelfRecovers, StrategyStops, StepBound,
      HorizonPasses, Denied, BeatenBySelfRecovery, Exits, Verifies, Acts, Looping
<1> QED
  BY <1>1, <1>2, <1>3, <1>4

(* Every episode that closes has a verdict, and a payment that came unasked  *)
(* within the observation window is on the books.                          *)
THEOREM AlwaysEndsSettled == Spec => []EndsSettled
<1>1. Init => SettledInv
  BY DEF Init, SettledInv, EndsSettled
<1>2. TypeOK /\ SettledInv /\ [Next]_vars => SettledInv'
  BY NextSettled
<1>3. SettledInv => EndsSettled
  BY DEF SettledInv
<1> QED
  BY <1>1, <1>2, <1>3, TypeCorrect, PTL DEF Spec

-----------------------------------------------------------------------------
(* The loop implements the abstract episode.                               *)

Simulates == [Abstract!Advance]_(Abstract!episode)

LEMMA Stutters ==
  ASSUME UNCHANGED <<Phase, ep, result.recovered, result.state>>
  PROVE  Simulates
  BY DEF Simulates, Abstract!episode

LEMMA Concludes ==
  ASSUME TypeOK, CreditInv, pc \in {"triage", "working"}, pc' = "watching", ep' = ep,
         \/ /\ result'.recovered = 0
            /\ result'.state \in TERMINAL_STATES \ RecoveredStates
         \/ /\ result'.recovered \in PaymentSums
            /\ 0 < result'.recovered /\ result'.recovered <= ep.amount
            /\ result'.state = IF result'.recovered = ep.amount
                               THEN "recovered" ELSE "partially_recovered"
  PROVE  Simulates
<1>1. Phase = "open" /\ Phase' = "concluded"
  BY DEF Phase
<1>2. result.recovered = 0
  BY DEF CreditInv
<1> QED
  BY <1>1, <1>2
  DEF Simulates, Abstract!Advance, Abstract!ConcludeUnpaid, Abstract!ConcludePaid,
      Abstract!Outcome, Abstract!TERMINAL_STATES, Abstract!RecoveredStates,
      TERMINAL_STATES, RecoveredStates

LEMMA AmountIsASum ==
  ASSUME TypeOK
  PROVE  /\ ep.amount \in PaymentSums
         /\ PartPayments(ep) \subseteq PaymentSums
         /\ ep.amount \in Nat \ {0}
  BY EpisodesAssumption DEF TypeOK, PaymentSums, SeededEpisode

LEMMA NextSimulates ==
  ASSUME TypeOK, CreditInv, SettledInv, [Next]_vars
  PROVE  Simulates
<1> USE DEF TERMINAL_STATES, RecoveredStates
<1>1. CASE UNCHANGED vars \/ Terminated
  BY <1>1, Stutters DEF Terminated, vars, Phase
<1>2. CASE Diagnose
  <2>1. result'.recovered = result.recovered /\ result'.state = result.state
    BY <1>2 DEF Diagnose, TypeOK, EpisodeResult
  <2> QED
    BY <1>2, <2>1, Stutters DEF Diagnose, Phase
<1>3. CASE TriageWorks
  BY <1>3, Stutters DEF TriageWorks, Phase
<1>4. CASE TriageSkips \/ StrategyStops \/ StepBound \/ (Looping /\ HorizonPasses)
  <2>1. /\ pc \in {"triage", "working"} /\ pc' = "watching" /\ ep' = ep
        /\ result'.state \in {"exhausted", "skipped_negative_ev"}
        /\ result'.recovered = result.recovered
    BY <1>4, VerdictFields DEF TriageSkips, StrategyStops, StepBound, HorizonPasses, Looping
  <2> QED
    BY <2>1, Concludes DEF CreditInv
<1>5. ASSUME CreditSelfRecovery, pc = "working", pc' = "watching", ep' = ep
      PROVE  Simulates
  <2>1. result'.recovered = ep.amount /\ result'.state = "recovered"
    BY <1>5, CreditFields, AmountIsASum DEF CreditInv
  <2> QED
    BY <1>5, <2>1, Concludes, AmountIsASum
<1>6. CASE SelfRecovers
  BY <1>5, <1>6 DEF SelfRecovers, Looping
<1>7. ASSUME Looping, NEW a, BeatenBySelfRecovery(a) PROVE Simulates
  BY <1>5, <1>7 DEF BeatenBySelfRecovery, Looping
<1>8. ASSUME Looping, NEW reason, Denied(reason) PROVE Simulates
  <2>1. CASE reason \in TerminalDenials
    <3>1. /\ pc = "working" /\ pc' = "watching" /\ ep' = ep
          /\ result'.state = BlockedState(reason)
          /\ result'.recovered = result.recovered
      BY <1>8, <2>1, VerdictFields DEF Denied, Looping
    <3> QED
      BY <3>1, Concludes DEF BlockedState, CreditInv
  <2>2. CASE reason \notin TerminalDenials
    BY <1>8, <2>2, Stutters DEF Denied, Phase
  <2> QED
    BY <2>1, <2>2
<1>9. ASSUME Looping, NEW a, Exits(a) PROVE Simulates
  <2>1. /\ pc = "working" /\ pc' = "watching" /\ ep' = ep
        /\ result'.state \in {"unrecoverable", "escalated"}
        /\ result'.recovered = result.recovered
    BY <1>9, VerdictFields DEF Exits, Looping
  <2> QED
    BY <2>1, Concludes DEF CreditInv
<1>10. ASSUME NEW a, Verifies(a) PROVE Simulates
  <2>1. result'.recovered = result.recovered /\ result'.state = result.state
    BY <1>10 DEF Verifies, TypeOK, EpisodeResult
  <2> QED
    BY <1>10, <2>1, Stutters DEF Verifies, Phase
<1>11. ASSUME Looping, NEW a, NEW r \in ReactionsTo(a), Acts(a, r) PROVE Simulates
  <2>1. /\ pc = "working" /\ ep' = ep
        /\ result.recovered = 0
        /\ result'.recovered = r.paid
        /\ result'.state = StateAfter(r)
        /\ r.paid \in 0 .. ep.amount
    <3>1. pc = "working" /\ ep' = ep /\ result.recovered = 0
      BY <1>11 DEF Acts, Looping, CreditInv
    <3>2. r.paid \in 0 .. ep.amount
      BY <1>11, ReactionTypes
    <3>3. result'.recovered = result.recovered + r.paid /\ result'.state = StateAfter(r)
      BY <1>11, ActsFields
    <3> QED
      BY <3>1, <3>2, <3>3, AmountIsASum
  <2>2. CASE r.disputed \/ r.optedOut
    <3>1. pc' = "watching" /\ r.paid = 0 /\ result'.state = "suppressed"
      BY <1>11, <2>1, <2>2, ReactionTypes DEF Acts, StateAfter
    <3> QED
      BY <2>1, <3>1, Concludes
  <2>3. CASE ~ (r.disputed \/ r.optedOut) /\ r.paid = 0
    <3>1. pc' = "working" /\ result'.state = result.state
      BY <1>11, <2>1, <2>3 DEF Acts, StateAfter
    <3> QED
      BY <2>1, <2>3, <3>1, Stutters DEF Phase
  <2>4. CASE ~ (r.disputed \/ r.optedOut) /\ r.paid > 0
    <3>1. pc' = "watching"
      BY <1>11, <2>4 DEF Acts
    <3>2. r.paid \in PaymentSums
      BY <1>11, <2>4, AmountIsASum DEF ReactionsTo
    <3>3. result'.state = IF r.paid = ep.amount THEN "recovered" ELSE "partially_recovered"
      BY <2>1, <2>4, AmountIsASum DEF StateAfter
    <3> QED
      BY <2>1, <2>4, <3>1, <3>2, <3>3, Concludes
  <2> QED
    BY <2>1, <2>2, <2>3, <2>4
<1>12. CASE CloseEpisode
  <2>1. Phase = "concluded" /\ Phase' = "settled" /\ ep' = ep
    BY <1>12 DEF CloseEpisode, Phase
  <2>2. CASE Unrecovered /\ SelfRecoveryDue(WatchUntil)
    <3>1. /\ result.recovered = 0
          /\ result.state \in TERMINAL_STATES \ RecoveredStates
      BY <1>12, <2>2
      DEF CloseEpisode, SettledInv, Unrecovered, CreditInv, CreditedOnce, TypeOK, EpisodeResult
    <3>2. result'.recovered = ep.amount /\ result'.state = "recovered"
      BY <1>12, <2>2, <3>1, CreditFields, AmountIsASum DEF CloseEpisode
    <3> QED
      BY <2>1, <3>1, <3>2
      DEF Simulates, Abstract!Advance, Abstract!Settle, Abstract!Outcome,
          Abstract!TERMINAL_STATES, Abstract!RecoveredStates
  <2>3. CASE ~ (Unrecovered /\ SelfRecoveryDue(WatchUntil))
    <3>1. result.state \in TERMINAL_STATES
      BY <1>12 DEF CloseEpisode, SettledInv
    <3>2. result'.state = result.state /\ result'.recovered = result.recovered
      BY <1>12, <2>3, <3>1, VerdictFields DEF CloseEpisode
    <3> QED
      BY <2>1, <3>2 DEF Simulates, Abstract!Advance, Abstract!Settle
  <2> QED
    BY <2>2, <2>3
<1> QED
  BY <1>1, <1>2, <1>3, <1>4, <1>6, <1>7, <1>8, <1>9, <1>10, <1>11, <1>12, NextCases

(* Every step of the loop is a step of RecoveryEpisode or a stutter: the      *)
(* safety of RefinesRecoveryEpisode, for every policy, strategy and episode. *)
THEOREM ConductsRecoveryEpisode == Spec => Abstract!Conduct
<1>1. Init => Abstract!Open
  BY DEF Init, FreshResult, Abstract!Open, Phase, EpisodeAmounts
<1>2. TypeOK /\ CreditInv /\ SettledInv /\ [Next]_vars =>
        [Abstract!Advance]_(Abstract!episode)
  BY NextSimulates DEF Simulates
<1>3. Init => CreditInv /\ SettledInv
  BY InitCredit DEF Init, SettledInv, EndsSettled
<1>4. TypeOK /\ CreditInv /\ [Next]_vars => CreditInv'
  BY NextCredit
<1>5. TypeOK /\ SettledInv /\ [Next]_vars => SettledInv'
  BY NextSettled
<1> QED
  BY <1>1, <1>2, <1>3, <1>4, <1>5, TypeCorrect, PTL DEF Spec, Abstract!Conduct

-----------------------------------------------------------------------------
(* Quiet hours.                                                            *)

(* Whole days do not change the time of day.                               *)
LEMMA ModOf ==
  ASSUME NEW q \in Int, NEW r \in 0 .. Day - 1
  PROVE  (q * Day + r) % Day = r
  BY DayAssumption

(* An instant is a number of whole days and a time of day.                 *)
LEMMA ModSplit ==
  ASSUME NEW t \in Int
  PROVE  \E q \in Int : t = q * Day + (t % Day) /\ t % Day \in 0 .. Day - 1
<1>1. t \div Day \in Int /\ t = (t \div Day) * Day + (t % Day) /\ t % Day \in 0 .. Day - 1
  BY DayAssumption
<1> QED
  BY <1>1

(* The time that has passed since another time of day.                     *)
LEMMA ModShift ==
  ASSUME NEW t \in Int, NEW s \in 0 .. Day - 1
  PROVE  (t - s) % Day = IF t % Day >= s THEN (t % Day) - s ELSE (t % Day) - s + Day
<1>1. PICK q \in Int : t = q * Day + (t % Day) /\ t % Day \in 0 .. Day - 1
  BY ModSplit
<1> DEFINE r == t % Day
<1>2. r \in 0 .. Day - 1 /\ t = q * Day + r
  BY <1>1
<1> HIDE DEF r
<1>3. CASE r >= s
  <2>1. t - s = q * Day + (r - s) /\ r - s \in 0 .. Day - 1
    BY <1>2, <1>3, DayAssumption
  <2> QED
    BY <1>3, <2>1, ModOf DEF r
<1>4. CASE r < s
  <2>1. t - s = (q - 1) * Day + (r - s + Day) /\ r - s + Day \in 0 .. Day - 1
    BY <1>2, <1>4, DayAssumption
  <2> QED
    BY <1>2, <1>4, <2>1, ModOf, DayAssumption DEF r
<1> QED
  BY <1>2, <1>3, <1>4, DayAssumption

(* in_window compares times of day, by cases on whether the window wraps;    *)
(* that is to be within the window's length of its start.                  *)
LEMMA DuringIsInWindow ==
  ASSUME NEW w \in Window, NEW t \in Nat
  PROVE  During(w, t) <=> InWindow(w, t % Day)
<1>1. w.start \in 0 .. Day - 1 /\ w.end \in 0 .. Day - 1
  BY DEF Window
<1>2. w.end % Day = w.end /\ t % Day \in 0 .. Day - 1
  BY <1>1, DayAssumption
<1>3. (t - w.start) % Day =
        IF t % Day >= w.start THEN (t % Day) - w.start ELSE (t % Day) - w.start + Day
  BY <1>1, ModShift
<1>4. (w.end - w.start) % Day =
        IF w.end % Day >= w.start THEN (w.end % Day) - w.start ELSE (w.end % Day) - w.start + Day
  <2>1. w.end \in Int
    BY <1>1, DayAssumption
  <2> QED
    BY <1>1, <2>1, ModShift
<1> DEFINE a == (t - w.start) % Day
           b == (w.end - w.start) % Day
           tod == t % Day
<1>5. a = IF tod >= w.start THEN tod - w.start ELSE tod - w.start + Day
  BY <1>3
<1>6. b = IF w.end >= w.start THEN w.end - w.start ELSE w.end - w.start + Day
  BY <1>2, <1>4
<1>7. tod \in 0 .. Day - 1
  BY <1>2
<1> HIDE DEF a, b, tod
<1>8. a < b <=> InWindow(w, tod)
  BY <1>1, <1>5, <1>6, <1>7, DayAssumption DEF InWindow
<1> QED
  BY <1>8 DEF During, a, b, tod

(* next_allowed_time is outside the window, whichever window and time.      *)
LEMMA NextAllowedOutside ==
  ASSUME NEW w \in Window, NEW t \in Nat
  PROVE  ~ During(w, NextAllowedTime(t, w))
<1> DEFINE midnight == t - (t % Day)
           u == NextAllowedTime(t, w)
<1>1. w.start \in 0 .. Day - 1 /\ w.end \in 0 .. Day - 1
  BY DEF Window
<1>2. CASE ~ InWindow(w, t % Day)
  BY <1>2, DuringIsInWindow DEF NextAllowedTime
<1>3. CASE InWindow(w, t % Day)
  <2>1. PICK q \in Int : t = q * Day + (t % Day) /\ t % Day \in 0 .. Day - 1
    BY ModSplit
  <2>2. (midnight + w.end) % Day = w.end
    <3>1. midnight + w.end = q * Day + w.end
      BY <1>1, <2>1, DayAssumption
    <3> QED
      BY <1>1, <3>1, ModOf
  <2>3. (midnight + w.end + Day) % Day = w.end
    <3>1. midnight + w.end + Day = (q + 1) * Day + w.end
      BY <1>1, <2>1, DayAssumption
    <3> QED
      BY <1>1, <3>1, ModOf
  <2>4. u \in {midnight + w.end, midnight + w.end + Day}
    BY <1>3 DEF NextAllowedTime
  <2>5. u \in Nat /\ u % Day = w.end
    BY <1>1, <2>1, <2>2, <2>3, <2>4, DayAssumption
  <2>6. ~ InWindow(w, w.end)
    BY <1>1, <1>3, <2>1 DEF InWindow
  <2> HIDE DEF u
  <2>7. ~ During(w, u)
    BY <2>5, <2>6, DuringIsInWindow
  <2> QED
    BY <2>7 DEF u
<1> QED
  BY <1>2, <1>3

(* A contact proposed for now or later is made outside the quiet hours of    *)
(* its channel, whether the gate moved it or not.                          *)
LEMMA TimelyContactQuiet ==
  ASSUME TypeOK, NEW p, NEW a, Permits(p, a), a.tool \in ContactActions,
         p.at = NoTime \/ p.at >= now
  PROVE  ~ During(QuietWindow(a.channel), RunsAt(a))
<1> DEFINE c == GateContext(When(p))
           w == QuietWindow(p.channel)
           target == Target(p, c)
           t == NextAllowedTime(target, w)
<1>1. /\ p \in ProposedAction /\ p.tool = a.tool /\ p.channel = a.channel
      /\ a = Ruling(p).action /\ Ruling(p).verdict # "deny"
  BY PermittedAction DEF Permits
<1>2. p.tool \notin AlwaysAllowed /\ ~ RetryTooSoon(p, c)
  BY <1>1 DEF RetryTooSoon, ContactActions, AlwaysAllowed
<1>3. target = When(p) /\ target \in Nat /\ target >= now /\ now \in Nat
  BY <1>1, WhenType, ContextFields
  DEF Target, When, Later, TypeOK, ProposedAction, Instant, NoTime
<1>4. w \in Window
  BY PolicyTypes DEF QuietWindow
<1>5. t \in Nat /\ t >= target /\ ~ During(w, t)
  BY <1>3, <1>4, NextAllowedTimeType, NextAllowedOutside
<1>6. \/ a = p /\ t = target
      \/ a = [p EXCEPT !.at = t]
  BY <1>1, <1>2 DEF Ruling, Evaluate, Deny, Allow, Modify, InQuietHours
<1>7. RunsAt(a) = t
  <2>1. CASE a = p /\ t = target
    BY <1>3, <2>1 DEF RunsAt, When
  <2>2. CASE a = [p EXCEPT !.at = t]
    <3>1. a.at = t
      BY <1>1, <2>2 DEF ProposedAction
    <3> HIDE DEF t, target
    <3> QED
      BY <1>3, <1>5, <3>1 DEF RunsAt, Later
  <2> QED
    BY <1>6, <2>1, <2>2
<1> QED
  BY <1>1, <1>5, <1>7

(* No contact is proposed for a time gone by.                              *)
ContactsTimely ==
  Looping =>
    \A p \in Proposals \intersect ProposedAction :
      p.tool \in ContactActions => p.at = NoTime \/ p.at >= now

(* A step then makes no contact in the quiet hours.                         *)
LEMMA NextQuiet ==
  ASSUME TypeOK, ContactsTimely, QuietHoursRespected, [Next]_vars
  PROVE  QuietHoursRespected'
<1>1. CASE UNCHANGED history
  BY <1>1 DEF QuietHoursRespected
<1>2. ASSUME Looping, NEW p, NEW a, Permits(p, a), NEW r \in ReactionsTo(a), Acts(a, r),
             IsContact(a)
      PROVE  QuietHoursRespected'
  <2>1. /\ history \in Seq(ContactEntry)
        /\ history' = Append(history, Contact(a, r))
    BY <1>2 DEF Acts, TypeOK
  <2>2. p \in Proposals \intersect ProposedAction /\ a.tool = p.tool
    BY <1>2, PermittedAction DEF Permits
  <2>3. ~ During(QuietWindow(a.channel), RunsAt(a))
    BY <1>2, <2>2, TimelyContactQuiet DEF ContactsTimely, IsContact
  <2>4. Contact(a, r).at = RunsAt(a) /\ Contact(a, r).channel = a.channel
    BY DEF Contact
  <2>5. \A i \in DOMAIN history' :
          (i \in DOMAIN history /\ history'[i] = history[i]) \/ history'[i] = Contact(a, r)
    BY <2>1
  <2>6. ASSUME NEW i \in DOMAIN history'
        PROVE  ~ During(QuietWindow(history'[i].channel), history'[i].at)
    BY <2>3, <2>4, <2>5 DEF QuietHoursRespected
  <2> QED
    BY <2>6 DEF QuietHoursRespected, QuietWindow, During
<1>3. ASSUME Looping, NEW p, NEW a, Permits(p, a), NEW r \in ReactionsTo(a), Acts(a, r),
             ~ IsContact(a)
      PROVE  UNCHANGED history
  BY <1>3 DEF Acts
<1> QED
  BY <1>1, <1>2, <1>3, StepCases DEF Untouched, Verifies

(* Quiet hours are respected under every strategy that proposes its contacts  *)
(* in time, whatever the windows, although the time a contact is made at is *)
(* not put to the gate: a contact proposed late is measured at that time    *)
(* and made at once.                                                       *)
THEOREM TimelyStrategiesAreQuiet ==
  Spec /\ []ContactsTimely => []QuietHoursRespected
<1>1. Init => QuietHoursRespected
  BY DEF Init, QuietHoursRespected
<1>2. TypeOK /\ ContactsTimely /\ QuietHoursRespected /\ [Next]_vars
        => QuietHoursRespected'
  BY NextQuiet
<1> QED
  BY <1>1, <1>2, TypeCorrect, PTL DEF Spec

-----------------------------------------------------------------------------
(* Stopping.                                                               *)

(* How many steps of the loop are left at most.                            *)
StepsLeft ==
  CASE pc = "opened"   -> MaxSteps + 4
    [] pc = "triage"   -> MaxSteps + 3
    [] pc = "working"  -> MaxSteps - step + 2
    [] pc = "watching" -> 1
    [] pc = "closed"   -> 0

(* Every step that changes anything leaves fewer: a denial, which takes no   *)
(* time, uses up a step, and nothing leads back from the watch.            *)
LEMMA NextDescends ==
  ASSUME TypeOK, Next
  PROVE  StepsLeft' \in Nat /\ (StepsLeft' < StepsLeft \/ UNCHANGED vars)
<1>1. MaxSteps \in Nat /\ step \in 0 .. MaxSteps
  BY BoundsAssumption DEF TypeOK
<1>2. CASE Diagnose \/ TriageWorks \/ TriageSkips \/ CloseEpisode
  BY <1>1, <1>2 DEF Diagnose, TriageWorks, TriageSkips, CloseEpisode, StepsLeft
<1>3. CASE SelfRecovers \/ StrategyStops \/ StepBound
  BY <1>1, <1>3 DEF SelfRecovers, StrategyStops, StepBound, Looping, StepsLeft
<1>4. CASE Looping /\ HorizonPasses
  BY <1>1, <1>4 DEF HorizonPasses, Looping, StepsLeft
<1>5. ASSUME Looping, NEW reason, Denied(reason)
      PROVE  StepsLeft' \in Nat /\ StepsLeft' < StepsLeft
  <2>1. pc = "working" /\ pc' \in {"working", "watching"} /\ step' = step + 1 /\ step < MaxSteps
    BY <1>5 DEF Denied, Looping
  <2> QED
    BY <1>1, <2>1 DEF StepsLeft
<1>6. ASSUME Looping, NEW a, BeatenBySelfRecovery(a) \/ Exits(a)
      PROVE  StepsLeft' \in Nat /\ StepsLeft' < StepsLeft
  BY <1>1, <1>6 DEF BeatenBySelfRecovery, Exits, Looping, StepsLeft
<1>7. ASSUME Looping, NEW a, Verifies(a) \/ \E r \in ReactionsTo(a) : Acts(a, r)
      PROVE  StepsLeft' \in Nat /\ StepsLeft' < StepsLeft
  <2>1. pc = "working" /\ pc' \in {"working", "watching"} /\ step' = step + 1 /\ step < MaxSteps
    BY <1>7 DEF Verifies, Acts, Executes, Looping
  <2> QED
    BY <1>1, <2>1 DEF StepsLeft
<1>8. CASE Terminated
  BY <1>1, <1>8 DEF Terminated, vars, StepsLeft
<1> QED
  BY <1>2, <1>3, <1>4, <1>5, <1>6, <1>7, <1>8, NextCases

(* An episode takes MaxSteps + 4 steps at most, whatever the strategy: what   *)
(* Closes needs besides the fairness of the loop.                          *)
THEOREM RunsDescend ==
  Spec => /\ [](StepsLeft \in 0 .. MaxSteps + 4)
          /\ [][StepsLeft' < StepsLeft]_vars
<1>1. TypeOK => StepsLeft \in 0 .. MaxSteps + 4
  BY BoundsAssumption DEF TypeOK, StepsLeft
<1>2. TypeOK /\ [Next]_vars => [StepsLeft' < StepsLeft]_vars
  BY NextDescends
<1> QED
  BY <1>1, <1>2, TypeCorrect, PTL DEF Spec

-----------------------------------------------------------------------------
(* What a ruling is worth.                                                 *)

(* The checks look at an action, not at the time it is asked for.           *)
LEMMA ObjectionsTimeless ==
  ASSUME NEW p \in ProposedAction, NEW c, NEW t,
         \A r \in DOMAIN Objections(p, c) : ~ Objections(p, c)[r]
  PROVE  LET q == [p EXCEPT !.at = t]
         IN  \A r \in DOMAIN Objections(q, c) : ~ Objections(q, c)[r]
<1> DEFINE q == [p EXCEPT !.at = t]
<1>1. /\ q.tool = p.tool /\ q.channel = p.channel /\ q.rung = p.rung /\ q.value = p.value
      /\ q.approved = p.approved /\ q.thirdParty = p.thirdParty
  BY DEF ProposedAction
<1>2. RequestedRung(q, c.rung) = RequestedRung(p, c.rung)
  BY <1>1 DEF RequestedRung
<1>3. \A pre : PreconditionMet(pre, q, c) = PreconditionMet(pre, p, c)
  BY <1>1 DEF PreconditionMet
<1> HIDE DEF q
<1>4. \A r \in DOMAIN Objections(q, c) : ~ Objections(q, c)[r]
  BY <1>1, <1>2, <1>3, SMTT(30) DEF Objections
<1> QED
  BY <1>4 DEF q

(* What the gate rewrites it would allow, asked again: the engine need not    *)
(* put a moved action to the gate a second time, nor could it go round.     *)
THEOREM MovedActionStands ==
  ASSUME NEW p \in ProposedAction, NEW c, c.now \in Nat, c.lastRetry \in Instant,
         Evaluate(p, c).verdict = "modify"
  PROVE  Evaluate(Evaluate(p, c).action, c) = Allow(Evaluate(p, c).action)
<1> DEFINE t1 == c.lastRetry + Policy.retryGap
           t2 == NextAllowedTime(Target(p, c), QuietWindow(p.channel))
           a  == Evaluate(p, c).action
<1>1. /\ p.tool \notin AlwaysAllowed
      /\ \A r \in DOMAIN Objections(p, c) : ~ Objections(p, c)[r]
      /\ \/ RetryTooSoon(p, c) /\ a = [p EXCEPT !.at = t1]
         \/ InQuietHours(p, c) /\ a = [p EXCEPT !.at = t2]
  BY DEF Evaluate, Allow, Modify, Deny
<1>2. a.tool = p.tool /\ a.channel = p.channel
  BY <1>1 DEF ProposedAction
<1>3. \A r \in DOMAIN Objections(a, c) : ~ Objections(a, c)[r]
  BY <1>1, ObjectionsTimeless
<1>4. Target(p, c) \in Nat /\ QuietWindow(p.channel) \in Window
  BY PolicyTypes DEF Target, ProposedAction, Instant, QuietWindow
<1>5. CASE RetryTooSoon(p, c) /\ a = [p EXCEPT !.at = t1]
  <2>1. t1 \in Nat /\ a.at = t1 /\ t1 # NoTime
    BY <1>5, PolicyTypes DEF RetryTooSoon, Instant, NoTime, ProposedAction
  <2>2. a.tool = "retry_payment"
    BY <1>2, <1>5 DEF RetryTooSoon
  <2>3. Target(a, c) = t1
    BY <2>1 DEF Target
  <2>4. ~ RetryTooSoon(a, c)
    BY <1>5, <2>1, <2>3, PolicyTypes DEF RetryTooSoon, Instant, NoTime
  <2>5. ~ InQuietHours(a, c)
    BY <2>2 DEF InQuietHours, ContactActions
  <2> QED
    BY <1>1, <1>2, <1>3, <2>4, <2>5 DEF Evaluate
<1>6. CASE InQuietHours(p, c) /\ a = [p EXCEPT !.at = t2]
  <2>1. t2 \in Nat /\ a.at = t2 /\ t2 # NoTime
    BY <1>4, <1>6, NextAllowedTimeType DEF NoTime, ProposedAction
  <2>2. a.tool # "retry_payment"
    BY <1>2, <1>6 DEF InQuietHours, ContactActions
  <2>3. Target(a, c) = t2
    BY <2>1 DEF Target
  <2>4. ~ InWindow(QuietWindow(a.channel), t2 % Day)
    BY <1>2, <1>4, <2>1, NextAllowedOutside, DuringIsInWindow
  <2>5. ~ InQuietHours(a, c)
    BY <2>3, <2>4 DEF InQuietHours, NextAllowedTime
  <2>6. ~ RetryTooSoon(a, c)
    BY <2>2 DEF RetryTooSoon
  <2> QED
    BY <1>1, <1>2, <1>3, <2>5, <2>6 DEF Evaluate
<1> QED
  BY <1>1, <1>5, <1>6
=============================================================================
