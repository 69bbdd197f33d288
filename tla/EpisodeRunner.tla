--------------------------- MODULE EpisodeRunner ---------------------------
(***************************************************************************)
(* EpisodeRunner.run (src/wapas/engine/runner.py): the loop that works one *)
(* episode from open to a terminal state.  A strategy proposes, the gate   *)
(* rules, the world reacts, and the episode may be paid with no action at  *)
(* any moment.  Time is carried by `now`, which each action moves forward. *)
(*                                                                         *)
(* Strategy and diagnosis are operators the configuration supplies, so the *)
(* properties can be asked of the shipped arms and of every strategy.      *)
(***************************************************************************)
EXTENDS PolicyGate

CONSTANTS
  Episodes,                \* seeded episodes
  DiagnosesOf(_),          \* episode -> diagnoses the arm may return for it
  TokensOf(_),             \* episode -> paise the diagnosis may have cost
  Strategy(_, _, _, _, _), \* episode, diagnosis, step, now, contacts -> proposals
  Price,                   \* channel -> paise per contact
  PartPayments(_),         \* episode -> sums a part payment may bring
  MaxSteps,                \* MAX_STEPS
  ObservationWindow        \* ticks from open to watch_until

SeededEpisode ==
  [arm : STRING, amount : Nat \ {0}, business : BOOLEAN, disputer : BOOLEAN,
   consent : SUBSET Channel, opened : Nat, selfAt : Instant,
   trueCause : RootCause]

ASSUME EpisodesAssumption == Episodes \subseteq SeededEpisode
ASSUME DiagnosesAssumption ==
  \A e \in Episodes : DiagnosesOf(e) \subseteq Diagnosis /\ TokensOf(e) \subseteq Nat
ASSUME PriceAssumption == Price \in [Channel -> Nat]
ASSUME PartPaymentsAssumption ==
  \A e \in Episodes : PartPayments(e) \subseteq 1 .. e.amount
ASSUME BoundsAssumption == MaxSteps \in Nat /\ ObservationWindow \in Nat

VARIABLES
  ep,             \* the episode being worked
  diag,           \* what the strategy diagnosed
  pc,             \* where run() is
  now,
  step,
  result,         \* EpisodeResult
  history,        \* contact_history, with the rung and lateness of each contact
  lastRetry,      \* last_retry_at
  captureAudited  \* an audit entry "capture_verified" was written

vars == <<ep, diag, pc, now, step, result, history, lastRetry, captureAudited>>

Later(a, b) == IF a >= b THEN a ELSE b

FreshResult ==
  [state |-> "ingested", recovered |-> 0, cost |-> 0, actions |-> 0,
   contacts |-> 0, retries |-> 0, forbidden |-> 0, selfRecovered |-> FALSE,
   optedOut |-> FALSE, disputed |-> FALSE]

Init ==
  /\ ep \in Episodes
  /\ diag = NoDiagnosis
  /\ pc = "opened"
  /\ now = ep.opened
  /\ step = 0
  /\ result = FreshResult
  /\ history = << >>
  /\ lastRetry = NoTime
  /\ captureAudited = FALSE

-----------------------------------------------------------------------------
(* Before the loop.                                                        *)

Diagnose ==
  /\ pc = "opened"
  /\ \E d \in DiagnosesOf(ep), tokens \in TokensOf(ep) :
       /\ diag' = d
       /\ result' = [result EXCEPT !.cost = @ + tokens]
  /\ pc' = "triage"
  /\ UNCHANGED <<ep, now, step, history, lastRetry, captureAudited>>

(* With no scorer every episode is worked; with one, either verdict. *)
TriageWorks ==
  /\ pc = "triage"
  /\ pc' = "working"
  /\ UNCHANGED <<ep, diag, now, step, result, history, lastRetry, captureAudited>>

TriageSkips ==
  /\ pc = "triage"
  /\ pc' = "watching"
  /\ result' = [result EXCEPT !.state = "skipped_negative_ev"]
  /\ UNCHANGED <<ep, diag, now, step, history, lastRetry, captureAudited>>

-----------------------------------------------------------------------------
(* Payment nobody asked for.                                               *)

SelfRecoveryDue(t) == ep.selfAt # NoTime /\ t >= ep.selfAt

CreditSelfRecovery ==
  result' = [result EXCEPT !.recovered = @ + ep.amount,
                           !.selfRecovered = TRUE,
                           !.state = "recovered"]

-----------------------------------------------------------------------------
(* One pass of the loop.                                                   *)

\* Mutation of Looping: a verdict does not break out of the loop.
Looping_NoBreak == pc \in {"working", "watching"} /\ step < MaxSteps

\* Mutation of Looping: one step too many.
Looping_OneMore == pc = "working" /\ step <= MaxSteps

Looping == pc = "working" /\ step < MaxSteps

(* What the strategy returns: valid ProposedActions, or None. *)
Proposals == Strategy(ep, diag, step, now, result.contacts)

SelfRecovers ==
  /\ Looping
  /\ SelfRecoveryDue(now)
  /\ CreditSelfRecovery
  /\ pc' = "watching"
  /\ UNCHANGED <<ep, diag, now, step, history, lastRetry, captureAudited>>

StrategyStops ==
  /\ Looping
  /\ ~ SelfRecoveryDue(now)
  /\ NoProposal \in Proposals
  /\ result' = [result EXCEPT !.state = IF result.actions > 0
                                        THEN "exhausted"
                                        ELSE "skipped_negative_ev"]
  /\ pc' = "watching"
  /\ UNCHANGED <<ep, diag, now, step, history, lastRetry, captureAudited>>

When(p) == Later(p.at, now)

\* Mutation of PastHorizon: the horizon is compared with the present time.
PastHorizon_Now(p) ==
  p.tool \notin AlwaysAllowed /\ now > ep.opened + Policy.actionWindow

PastHorizon(p) ==
  /\ p.tool \notin AlwaysAllowed
  /\ When(p) > ep.opened + Policy.actionWindow

(* No promise, DND entry, kill switch or org spend reaches this context, and  *)
(* capture and ledger are taken as verified.                                *)
GateContext(t) ==
  [now |-> t, amount |-> ep.amount,
   cause |-> diag.cause, alternative |-> diag.alternative,
   risk |-> diag.risk, confident |-> diag.confident,
   actions |-> result.actions, contacts |-> result.contacts,
   spend |-> result.cost, retries |-> result.retries,
   lastRetry |-> lastRetry, history |-> history,
   consent |-> ep.consent, dnd |-> FALSE, optedOut |-> result.optedOut,
   mandate |-> diag.cause # "mandate_revoked", business |-> ep.business,
   rung |-> Len(history),
   lastRung |-> IF history = << >> THEN NoTime ELSE history[Len(history)].at,
   promiseUntil |-> NoTime, dispute |-> result.disputed,
   captureVerified |-> TRUE, ledgerVerified |-> TRUE,
   orgSpend |-> 0, killSwitch |-> FALSE]

Ruling(p) == Evaluate(p, GateContext(When(p)))

(* The denials that end the episode, and the state they end it in. *)
TerminalDenials ==
  {"never_retry_cause", "never_route_around_cause", "opted_out",
   "dnd_registry", "budget_actions_exhausted", "budget_spend_exhausted",
   "episode_contact_cap", "ladder_exhausted"}

BlockedState(reason) ==
  CASE reason \in {"never_retry_cause", "never_route_around_cause"} -> "unrecoverable"
    [] reason \in {"opted_out", "dnd_registry"} -> "suppressed"
    [] reason = "ladder_exhausted" -> "escalated"
    [] OTHER -> "exhausted"

HorizonPasses ==
  /\ result' = [result EXCEPT !.state = "exhausted"]
  /\ pc' = "watching"
  /\ UNCHANGED <<ep, diag, now, step, history, lastRetry, captureAudited>>

\* Mutation of Denied: a denial does not use up a step.
Denied_NoStep(reason) ==
  /\ UNCHANGED <<step, result, pc>>
  /\ UNCHANGED <<ep, diag, now, history, lastRetry, captureAudited>>

(* A denial uses up a step and no time. *)
Denied(reason) ==
  /\ step' = step + 1
  /\ IF reason \in TerminalDenials
       THEN /\ result' = [result EXCEPT !.state = BlockedState(reason)]
            /\ pc' = "watching"
       ELSE UNCHANGED <<result, pc>>
  /\ UNCHANGED <<ep, diag, now, history, lastRetry, captureAudited>>

\* Mutation of RunsAt: scheduled_for is ignored.
RunsAt_AtOnce(a) == now

(* A permitted action a runs at its own time, if that is still to come.  One *)
(* the gate moved is not put to the gate again.                             *)
RunsAt(a) == Later(a.at, now)

BeatenBySelfRecovery(a) ==
  /\ SelfRecoveryDue(RunsAt(a))
  /\ now' = RunsAt(a)
  /\ CreditSelfRecovery
  /\ pc' = "watching"
  /\ UNCHANGED <<ep, diag, step, history, lastRetry, captureAudited>>

\* Mutation of Executes: self-recovery is not looked at again.
Executes_Blind(a) ==
  /\ now' = RunsAt(a)
  /\ step' = step + 1
  /\ lastRetry' = IF a.tool = "retry_payment" THEN RunsAt(a) ELSE lastRetry

Executes(a) ==
  /\ ~ SelfRecoveryDue(RunsAt(a))
  /\ now' = RunsAt(a)
  /\ step' = step + 1
  /\ lastRetry' = IF a.tool = "retry_payment" THEN RunsAt(a) ELSE lastRetry

Exits(a) ==
  /\ a.tool \in AlwaysAllowed
  /\ Executes(a)
  /\ result' = [result EXCEPT !.state = IF a.tool = "close_episode"
                                        THEN "unrecoverable" ELSE "escalated"]
  /\ pc' = "watching"
  /\ UNCHANGED <<ep, diag, history, captureAudited>>

Verifies(a) ==
  /\ a.tool = "verify_payment_claim"
  /\ Executes(a)
  /\ result' = [result EXCEPT !.actions = @ + 1]
  /\ captureAudited' = TRUE
  /\ UNCHANGED <<ep, diag, pc, history>>

-----------------------------------------------------------------------------
(* The world's reaction (ResponseModel.react), every draw of its dice.  A   *)
(* contact that provokes an opt-out or a dispute, or both, is not paid.     *)

ReactionsTo(a) ==
  {r \in [paid : {0, ep.amount} \union PartPayments(ep),
          optedOut : BOOLEAN, disputed : BOOLEAN] :
     /\ r.optedOut \/ r.disputed => r.paid = 0 /\ a.channel # "none"
     /\ r.disputed => ep.disputer
     /\ r.paid \notin {0, ep.amount} => a.channel # "none" /\ ep.business}

IsContact(a) == a.tool \in ContactActions /\ a.channel # "none"

\* Mutation of Contact: whoever was reached counts as having responded.
Contact_Reached(a, r) ==
  [at |-> RunsAt(a), channel |-> a.channel, responded |-> TRUE,
   rung |-> RequestedRung(a, Len(history))]

(* `rung`, the rung the request named, is not in the code's ContactRecord.  *)
Contact(a, r) ==
  [at |-> RunsAt(a), channel |-> a.channel, responded |-> r.paid > 0,
   rung |-> RequestedRung(a, Len(history))]

(* The state an interaction leaves the episode in; a dispute is looked at   *)
(* before an opt-out, which is then not recorded.                           *)
StateAfter(r) ==
  IF r.disputed \/ r.optedOut THEN "suppressed"
  ELSE IF r.paid = 0 THEN result.state
  ELSE IF r.paid >= ep.amount THEN "recovered" ELSE "partially_recovered"

Acts(a, r) ==
  /\ a.tool \notin AlwaysAllowed \union {"verify_payment_claim"}
  /\ Executes(a)
  /\ r \in ReactionsTo(a)
  /\ result' =
       [result EXCEPT
          !.actions   = @ + 1,
          !.retries   = IF a.tool = "retry_payment" THEN @ + 1 ELSE @,
          !.forbidden = IF a.tool = "retry_payment" /\ ep.trueCause \in NEVER_RETRY
                        THEN @ + 1 ELSE @,
          !.contacts  = IF IsContact(a) THEN @ + 1 ELSE @,
          !.cost      = IF IsContact(a) THEN @ + Price[a.channel] ELSE @,
          !.disputed  = r.disputed,
          !.optedOut  = r.optedOut /\ ~ r.disputed,
          !.recovered = @ + r.paid,
          !.state     = StateAfter(r)]
  /\ history' = IF IsContact(a) THEN Append(history, Contact(a, r)) ELSE history
  /\ pc' = IF r.disputed \/ r.optedOut \/ r.paid > 0 THEN "watching" ELSE "working"
  /\ UNCHANGED <<ep, diag, captureAudited>>

-----------------------------------------------------------------------------
(* After the loop.                                                         *)

\* Mutation of StepBound: the bound is one step off.
StepBound_Off ==
  /\ pc = "working"
  /\ step > MaxSteps
  /\ result' = [result EXCEPT !.state = "exhausted"]
  /\ pc' = "watching"
  /\ UNCHANGED <<ep, diag, now, step, history, lastRetry, captureAudited>>

StepBound ==
  /\ pc = "working"
  /\ step = MaxSteps
  /\ result' = [result EXCEPT !.state = "exhausted"]
  /\ pc' = "watching"
  /\ UNCHANGED <<ep, diag, now, step, history, lastRetry, captureAudited>>

\* Mutation of WatchUntil: the outcome is read when the work stops.
WatchUntil_Now == now

WatchUntil == ep.opened + ObservationWindow

\* Mutation of Unrecovered: a part payment is not taken for a recovery.
Unrecovered_FullOnly == result.state # "recovered"

Unrecovered == result.state \notin RecoveredStates

(* The rest of the observation window: an episode not yet recovered may     *)
(* still be paid unasked; one still without a verdict is exhausted.         *)
CloseEpisode ==
  /\ pc = "watching"
  /\ pc' = "closed"
  /\ IF Unrecovered /\ SelfRecoveryDue(WatchUntil)
       THEN CreditSelfRecovery
       ELSE result' = [result EXCEPT !.state =
                         IF @ \in {"ingested", "observed"} THEN "exhausted" ELSE @]
  /\ UNCHANGED <<ep, diag, now, step, history, lastRetry, captureAudited>>

Terminated == pc = "closed" /\ UNCHANGED vars

-----------------------------------------------------------------------------

(* One proposal through the loop body: the horizon, the gate, the act. *)
Rules(p) ==
  \E ruling \in {Ruling(p)} :
    \/ ruling.verdict = "deny" /\ Denied(ruling.reason)
    \/ /\ ruling.verdict # "deny"
       /\ \/ BeatenBySelfRecovery(ruling.action)
          \/ Exits(ruling.action)
          \/ Verifies(ruling.action)
          \/ \E r \in ReactionsTo(ruling.action) : Acts(ruling.action, r)

Pass ==
  /\ Looping
  /\ ~ SelfRecoveryDue(now)
  /\ \E p \in Proposals \intersect ProposedAction :
       \/ PastHorizon(p) /\ HorizonPasses
       \/ ~ PastHorizon(p) /\ Rules(p)

Next ==
  \/ Diagnose \/ TriageWorks \/ TriageSkips
  \/ SelfRecovers \/ StrategyStops \/ Pass \/ StepBound
  \/ CloseEpisode \/ Terminated

Spec == Init /\ [][Next]_vars

(* run() is one synchronous loop that nothing else can hold up. *)
FairSpec == Spec /\ WF_vars(Next)
=============================================================================
