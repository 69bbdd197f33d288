--------------------------- MODULE EpisodeSafety ---------------------------
(***************************************************************************)
(* What the episode loop promises, whatever strategy drives it, and the    *)
(* promises its tests and comments make that depend on the strategy.       *)
(***************************************************************************)
EXTENDS EpisodeRunner

ContactEntry ==
  [at : Nat, channel : Channel, responded : BOOLEAN, rung : Int]

EpisodeResult ==
  [state : EpisodeState, recovered : Nat, cost : Nat, actions : Nat,
   contacts : Nat, retries : Nat, forbidden : Nat, selfRecovered : BOOLEAN,
   optedOut : BOOLEAN, disputed : BOOLEAN]

(* Every variable of the loop keeps its type. *)
TypeOK ==
  /\ ep \in Episodes
  /\ diag \in Diagnosis
  /\ pc \in {"opened", "triage", "working", "watching", "closed"}
  /\ now \in Nat
  /\ step \in 0 .. MaxSteps
  /\ result \in EpisodeResult
  /\ history \in Seq(ContactEntry)
  /\ lastRetry \in Instant
  /\ captureAudited \in BOOLEAN

-----------------------------------------------------------------------------
(* Caps and budgets.                                                       *)

(* The three per-episode counters stay within policy although each is       *)
(* checked in one place and incremented in another, and a contact is one    *)
(* entry of the history the frequency caps count.                          *)
CapsHold ==
  /\ result.actions  <= Policy.maxActions
  /\ result.retries  <= Policy.maxRetries
  /\ result.contacts <= Policy.contactsPerEpisode
  /\ result.contacts = Len(history)

(* Spend is compared with the cap before it is known what the contact       *)
(* costs, so it may pass the cap, but by less than one contact.             *)
SpendBounded ==
  history # << >> =>
    result.cost < Policy.maxSpend + Price[history[Len(history)].channel]

(* The rolling caps, measured when contacts are really made: the gate       *)
(* counts at the proposed time, and quiet hours then move the contact.      *)
RollingCaps ==
  \A i \in DOMAIN history :
    LET Within(ticks) ==
          {j \in 1 .. i : history[j].at >= history[i].at - ticks}
        Voice == {j \in Within(7 * Day) : history[j].channel = "voice"}
    IN  /\ Cardinality(Within(Day)) <= Policy.perDay
        /\ Cardinality(Within(7 * Day)) <= Policy.perWeek
        /\ i \in Voice => Cardinality(Voice) <= Policy.voicePerWeek

(* No two contacts are closer than the cooldown after no response, because   *)
(* a counterparty who responds ends the episode, and a contact waits its    *)
(* rung's cooldown after the one before it.                                *)
ContactSpacing ==
  /\ \A i, j \in DOMAIN history :
       i < j => history[j].at - history[i].at >= Policy.noResponseCooldown
  /\ \A i \in 2 .. Len(history) :
       history[i].at - history[i - 1].at >= Policy.ladder[history[i].rung].cooldown

(* The ladder is climbed by contacts made: a contact's rung exists and is no  *)
(* higher than its place among the contacts, so that rung n is used only    *)
(* after n - 1 contacts, those denied, moved or never made not counting.    *)
RungsWithinContacts ==
  \A i \in DOMAIN history :
    /\ history[i].rung \in DOMAIN Policy.ladder
    /\ history[i].rung <= i

(* A retry runs at least the minimum gap after the one before it, also when *)
(* its scheduled time had gone by and when the gate moved it.               *)
RetriesSpaced ==
  [][result'.retries > result.retries /\ lastRetry # NoTime
       => now' - lastRetry >= Policy.retryGap]_vars

-----------------------------------------------------------------------------
(* Money.                                                                  *)

(* An episode is credited once: never more than its amount, whole when it   *)
(* was paid unasked, and with money on the books exactly when it ends in    *)
(* one of the two recovered states.                                        *)
CreditedOnce ==
  /\ result.recovered <= ep.amount
  /\ result.selfRecovered => result.recovered = ep.amount
  /\ result.recovered > 0 <=> result.state \in RecoveredStates

(* Nothing is done to a counterparty who has already paid unasked.          *)
ActsOnlyBeforeSelfRecovery ==
  [][result'.actions > result.actions => ~ SelfRecoveryDue(now')]_vars

(* EpisodeResult.forbidden_retries: "the harm that a misdiagnosis lets      *)
(* through".  A forbidden retry means the true cause was neither named nor, *)
(* by a hesitant diagnosis, suspected.                                     *)
ForbiddenOnlyByMisdiagnosis ==
  result.forbidden > 0 =>
    /\ ep.trueCause # diag.cause
    /\ ~ diag.confident => ep.trueCause \notin {diag.alternative, diag.risk}

-----------------------------------------------------------------------------
(* Stopping.                                                               *)

(* After the verdict nothing is done in the episode's name: no contact,     *)
(* retry, spend or further action.                                         *)
NoWorkAfterVerdict ==
  [][(pc \in {"watching", "closed"}) =>
       UNCHANGED <<history, lastRetry, step, result.actions, result.cost>>]_vars

(* Work stops at the action window, except that one action admitted inside  *)
(* it may be moved past it by the quiet hours or the retry gap.             *)
WorkStopsNearHorizon ==
  [][result'.actions > result.actions =>
       now' <= ep.opened + Policy.actionWindow + Later(Day, Policy.retryGap)]_vars

(* The state an episode closes in is terminal, and a payment that arrived   *)
(* unasked within the window is on the books whatever the loop had decided. *)
EndsSettled ==
  pc = "closed" =>
    /\ result.state \in TERMINAL_STATES
    /\ SelfRecoveryDue(ep.opened + ObservationWindow) =>
         result.state \in RecoveredStates

(* Every episode is closed: denials that take no time use up steps.         *)
Closes == <>(pc = "closed")

-----------------------------------------------------------------------------
(* Promises that hold or not according to the strategy.                    *)

(* Fewer ticks have passed since the window began than it lasts. *)
During(w, t) == (t - w.start) % Day < (w.end - w.start) % Day

(* tests/test_policy_properties.py: "Every permitted contact executes       *)
(* outside the channel's quiet window."                                    *)
QuietHoursRespected ==
  \A i \in DOMAIN history :
    ~ During(QuietWindow(history[i].channel), history[i].at)

(* plan/playbooks.py: a retry of an ambiguous timeout waits "until capture   *)
(* is verified".                                                           *)
VerifiedBeforeRetry ==
  [][/\ result'.retries > result.retries
     /\ diag.cause \in Policy.verifyBeforeRetry
     => captureAudited]_vars

-----------------------------------------------------------------------------
(* The abstract episode.                                                   *)

Phase ==
  CASE pc = "closed"   -> "settled"
    [] pc = "watching" -> "concluded"
    [] OTHER           -> "open"

EpisodeAmounts == {e.amount : e \in Episodes}
PaymentSums == UNION {{e.amount} \union PartPayments(e) : e \in Episodes}

Abstract == INSTANCE RecoveryEpisode WITH
  Amounts <- EpisodeAmounts,
  Sums <- PaymentSums,
  phase <- Phase, amount <- ep.amount,
  credit <- result.recovered, verdict <- result.state

(* Every run of the loop is a run of the abstract episode: one credit, one  *)
(* verdict, and an end.                                                    *)
RefinesRecoveryEpisode == Abstract!EpisodeSpec
=============================================================================
