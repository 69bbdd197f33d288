# Wapas in TLA+

Wapas works failed payments: it diagnoses why a payment failed, proposes actions
(retry, message, call, payment link), asks a policy gate for permission, acts, and
accounts for what came of it. One code path runs it in batch over simulated
episodes, the *episode engine*; another runs it as a *live service* with a payment
provider. An *evaluation* deals a population to several arms, runs them and publishes
the comparison. This directory holds the TLA+ modules of all three and of what they
rest on, the TLC runs that check them on small instances, and the theorems TLAPS
proves of each for every value of their constants.

Paths below are relative to `src/src/wapas` unless they start with `src/`.

## The system

| Component | State it keeps | Operations | Talks to |
|---|---|---|---|
| Episode engine, `engine/runner.py` | the episode's `now`, step, result (state, money, counters), contact history, last retry | `run`: diagnose, triage, loop (propose, gate, execute), close | strategy, gate and response model, by synchronous calls; audit chain |
| Policy gate, `policy/gate.py`, `policy/config.py`, `src/policies` | none | `evaluate`: ALLOW, MODIFY (later time) or DENY with a reason | called by engine and live service |
| Strategies, `strategies/`, `plan/playbooks.py` | none | `next_action` for four arms: nothing, naive retry, blast, playbook | called by the engine |
| Response model, `src/sim/responses.py` | none (seeded dice) | `react`: paid, opted out, disputed | called by the engine |
| Live service, `api/app.py` | in-memory audit chain; episodes in a store | `POST /episodes`, `POST /webhooks/razorpay`, read-only endpoints | stores, gate, actuator |
| Stores, `api/store.py`, `api/pg_store.py` | episodes, recorded deliveries | `get`, `put`, `claim_event`, `apply_event` | PostgreSQL, or one process's memory |
| Actuator, `actuators/razorpay.py` | its ledger of results per idempotency key | `create_payment_link`, `_reconcile` | the provider |
| Diagnoser, `diagnose/`, `llm/` | cache, budget, spend | `diagnose`, `ask_structured`, retries, `_degraded` | model providers, history, fleet view |
| History and fleet view, `diagnose/history.py`, `diagnose/fleet.py` | resolved episodes; the failures of each issuer | `exact`, `prior`, `riskiest_alternative`, `spiking` | diagnoser and rules classifier |
| Audit chain, `audit/chain.py` | list of entries | `append`, `verify_chain` | everything writes to it |
| Database, `db/`, `src/migrations` | nine tables that refer to each other | inserts, deletes that cascade, clear or are refused, the triggers of the trail, `erase_counterparty` | stores |
| Arm assignment, `engine/runner.py` | none | `stratified_assignment`, `_apportion` | evaluation |
| Evaluation, `src/eval/run_batch.py`, `src/scripts/warm_diagnoses.py` | cache file, counters, the published files | warm, run the arms, snapshot, head-to-head, report, summary | engine, diagnoser |
| Red team, `src/redteam` | none | scenarios that ask for something forbidden | gate, engine, audit chain |
| Clock, `clock.py` | the time, a heap | `advance`, `pop_due` | tests |

What is hard here, and where a test hardly reaches:

* **Engine.** It is sequential, but four things move against each other: the time a
  strategy proposes, the time the gate measures at, the time the action runs at
  (quiet hours and the retry gap move it), and the moment the counterparty pays
  unasked. Counters are checked in the gate and moved in the engine.
* **Live service.** `open_episode` is a plain function, so it runs on a thread
  pool; the webhook handler is a coroutine that awaits nothing once it has read the
  body, so a worker runs one at a time. Several workers share the database and no
  lock. Claiming an event and writing the episode are two transactions, and a write
  updates the columns in which the episode differs from the row as it was read, so
  two of them may leave a mixture. The provider redelivers until it sees a 2xx; a
  call to it may take effect and fail.
* **Diagnoser.** Fallbacks inside fallbacks, each with its own accounting; a diagnosis
  that rests on counts and thresholds decides which retries the gate lets through.
* **Database.** What a DELETE takes with it depends on every key of every table
  between; a row may belong to one episode through one column and to another
  through the next. An erasure reads the opt-out, decides and flushes without a lock.
* **Evaluation.** One set of counters serves the arm and the head-to-head, one cache
  file and one directory serve runs of two planners, and any of them may be killed.
* **Audit chain.** Appending reads the head twice without a lock.

Correctness, by component: the *engine* obeys every cap, spaces retries and
contacts, credits a payment once, never acts on someone who has paid, stops, and
ends each episode in a terminal state that agrees with the books; the *gate* keeps
contacts out of the quiet hours and rungs behind the contacts made; the *service* books no
payment twice, acknowledges every event and, where nothing races, books one receipt and
keeps terminal episodes so; the
*diagnoser* always answers, within budget, and books each cost once; the *chain*
verifies if and only if nobody changed it; the *database* keeps the trail and the
opt-outs whatever is deleted or erased at once; the *evaluation* compares arms of one amount profile and
publishes numbers that are those of the run they are named for.

## Modules

| Module | What it is |
|---|---|
| `Domain` | causes, states, tools, channels, proposals and diagnoses (`domain.py`) |
| `PolicyGate` | `PolicyGate.evaluate` as an operator from proposal and context to ruling |
| `ShippedPolicy` | the numbers of `src/policies` and `src/config/rates.yaml`, on fifteen-minute ticks |
| `Strategies` | the four shipped arms |
| `EpisodeRunner` | the engine loop: one action per exit of `run` and its helpers |
| `EpisodeSafety` | type invariant and properties of the loop, and the mapping to `RecoveryEpisode` |
| `RecoveryEpisode` | abstract specification: open, concluded with at most one payment, settled |
| `RedTeam` | the gate scenarios of `src/redteam/scenarios.py`, laid over any context |
| `EpisodeMC`, `ShippedMC` | instances for TLC: any strategy on a small policy; the shipped arms, policy and scenarios |
| `EpisodeProofs` | theorems about the loop, whatever strategy drives it |
| `ShippedProofs` | theorems about the shipped arms and the shipped policy |
| `LiveService` | `POST /episodes` and the webhook, over both stores, with workers that die |
| `LiveSafety`, `LiveMC`, `LiveProofs` | its properties, its instances, its theorems |
| `AuditChain` | `HashChain.append` read by read, `verify_chain` as a walk and as an operator, a copy that is altered; its properties |
| `AuditProofs` | theorems about the chain |
| `Diagnoser` | `diagnose` with the ladder of attempts under it, its cache, budget and cost; its properties |
| `DiagnoserMC`, `DiagnoserProofs` | its instance, theorems about it |
| `Database` | the tables with their keys, the statements, the triggers and erasure; its properties |
| `DatabaseMC`, `DatabaseProofs` | its instance, theorems about it |
| `Assignment` | strata, quotas and the dealing of arms |
| `Evidence` | history, fleet view and the rules classifier that consults them |
| `Evaluation` | the evaluation as a process over both; extends `Assignment` and `Evidence`; its properties |
| `EvaluationMC`, `EvaluationProofs` | its instance, theorems about it |
| `NaturalFacts` | a lemma the proofs of several components share |

Operators named `X_Something` with a comment "Mutation of X" are plausible bugs of
`X`, kept beside it: putting one in the place of `X` makes the property it is kept
for fail, which shows that the property depends on that piece of the code.

### How the engine's state and actions correspond to the code

`ep`, `diag`, `now`, `step`, `result`, `history` and `lastRetry` are `run`'s local
variables of those names (`contact_history`, `last_retry_at`); `pc` tells which part
of `run` is next: *opened*, *triage*, *working* (the `while`), *watching* (after it)
and *closed*. `captureAudited` is whether a `capture_verified` entry was written. A
pass of the `while` is one action: `SelfRecovers`, `StrategyStops`, `HorizonPasses`,
`Denied`, `BeatenBySelfRecovery`, `Exits`, `Verifies` or `Acts`, by the branch the
code takes. `Strategy`, `DiagnosesOf`, `TokensOf` and `PartPayments` are operator
constants, so the same loop is asked about the shipped arms and about a strategy
that may propose anything. Time is in ticks; `NoTime` stands for `None`.

The dice of the response model, of diagnosis and of triage are existential
choices. The gate's context has the constants the engine gives it: no promise, no
do-not-disturb entry, no kill switch, no spend of the organisation, capture and
ledger taken as verified.

### How the live service's state and actions correspond to the code

`store` holds the episodes, `deliveries` the table `webhook_delivery`, `ledger` each
worker's actuator store, `links` what the provider has, `req` and `hook` where the
two handlers are and the copies they hold, and `mail` what the provider has sent and
seen acknowledged. `open_episode` is cut where another process may come between:
reading the store (`Accept`), the provider's answer (`CreatePaymentLink`), and the
write (`StoreOpened`; `Suppress` and `NothingActuated` for its other two exits). The
webhook is cut at its three uses of the store: the read (`Match`, `Unmatched`), the
claim (`ClaimEvent`, `Duplicate`) and the write (`ApplyEvent`, `PutApplied`). `Crash` loses a
worker's handlers, its ledger, and the in-memory store. `Init` chooses what the
service finds itself with (`Setup`): database or not, credentials or not, which
diagnoses the gate refuses, which workers serve, what the provider will say, and
whether merchants are *patient*. A patient merchant asks again for a reference only
after it has an answer (`Alone`); an impatient one sends two requests at once.

In memory a `put` is one step. On the database it is two, for `PostgresEpisodeStore.put`
reads the row, sets its attributes, and at commit inserts it or updates the columns that
differ from the row *as read*, without a lock or a version. `StoreOpened` and `ApplyEvent`
are the read; the row goes with the request (`req[q].row`) or the handler (`hook[w].row`),
and `Update` and `PutApplied` write column by column (`Flushed`). So what is stored after
a race is what one put wrote, what the other wrote, or columns of both: a request whose
actuation failed may set `failed` on an episode that a webhook has just credited. When
there is no row one is inserted (`Insert`), which fails without an effect if another
request has done so meanwhile; that request is answered with a 500 and may be sent again.

What can be promised depends on who races. `NothingBookedTwice` and `QueueDrains` are
promised of every deployment: a put erases, revives or mixes, but the money an episode
shows is the sum of recorded payments, each once. `WaitingHasLink` needs patient
merchants on the database, because a second request's failed call clears the link in
its own put while a webhook may set the state back to waiting. `OneReceiptBooked` needs
that puts are `Whole`: one worker and patient merchants, or memory.
`StaysTerminalUnraced` and `RecordedMeansApplied` need one worker and patient merchants on
either store (`Unraced`); `live_workers` shows what two workers do.

### How the audit chain's state and actions correspond to the code

`chain` is `HashChain.entries`. `append` is cut where another thread may come
between: `Number` reads the length, `Link` the last hash, `Commit` the last hash
again and hashes, `Extend` appends. `walk` is the loop of `verify_chain` over that
list, an entry at a time, as `/healthz` and `/audit` run it. A walk that breaks off reports,
like the code, how many entries it passed and the number the next one claims for itself,
which on a raced chain is not its place. `Verifies` is what the
same function says of a finished list. `copy` is a list of entries someone kept;
`Alter` does to it what `src/redteam/tamper.py` does, and recomputes hashes and links
besides.

A hash is modelled as what it commits to, so nothing collides. The actor, the event
type and the episode of an entry are outside the commitment of `compute_hash`, and
so outside what is modelled and shown. `verify_chain` alone cannot tell that the last
entries of a copy were cut off: such a copy verifies and is the beginning of the
chain, which is what `CopyIsGenuine` says.

### How the diagnoser's state and actions correspond to the code

`pc` and `question` follow one episode from `diagnose` to the booking of its cost.
`Recall`, `NoSignal`, `CacheHit`, `BudgetStop` and `Consult` are the five ways
`diagnose` goes, in its order, each guard excluding those before. `call` is where
the loops of `diagnose`, `ask_structured` and `RetryingProvider.complete` stand, one
inside the other; a call ends in `ReplyValid`, `ReplyRejected`, `FailsRetryable` or
`FailsForGood`, and `NextAttempt`, `NextRetry`, `NextRung` and `NextCandidate` say
where the next is made from. `lastCost`, `agentCost` and `booked` are the three
places cost passes through: `LLMDiagnoser._last_cost`, `LLMAgent._cost` and the
results of the episodes (`AgentDrains`, `EngineBooks`). `cache` is the dictionary,
`file` what `save` wrote; `Finish` and `Killed` end a run and begin the next.

A question stands for a prompt, so two episodes with one prompt ask one question;
history and base rates are those of the question (`Reading`, `RiskSeen`), and the
rules' diagnosis of it is a constant. A price is a whole number of some unit, of
which `Unit` make a paisa, and rounds up as the code's does. `tries` and `consumed`
are not in the code: the calls made for a question and the price of every reply.

### How the database's state and actions correspond to the code

`refs` says of each row held what each of its columns refers to; `optedOut` is a
counterparty's `opted_out_at`. `ForeignKeys` lists the keys of `src/migrations` with what
each does on DELETE, and `AppendOnly` the table whose triggers refuse UPDATE, DELETE
and TRUNCATE. An action is a statement the database accepts: `Insert`, `Delete` with
everything its cascades take (`Doomed`, the least closed set), `Truncate`, `Repoint` (an
update of references), and the code's own transaction `OpenLive`
(`PostgresEpisodeStore._create`). A refused statement has no effect and is no step.
PostgreSQL's rules for cascades and TRUNCATE are external to the repository and modelled
from its documentation, as the migrations rely on them.

`erase_counterparty` is two steps of a session, for it gets the row without locking it
(`EraseReads`), decides what to change, and flushes the columns that change (`EraseFlush`);
`erasing` holds what each session has read. Another erasure or an opt-out may come in
between, and then the flush puts its own date over the one that is there. So
`OptOutStands` does not say that the date never moves: it says that whoever has opted
out stays so, and that the date moves only while an erasure that read the row before
the opt-out is in progress (`Overtaken`).

No key, constraint or trigger guards a counterparty's own columns: a statement that sets
`opted_out_at` to NULL would be accepted. The code has none, so the model has none; that
column is written by inserts, erasures, and `OptOut`, which stands for whoever records
an opt-out and is external. "Opt-out is permanent" (`db/models.py:49`) is thus shown of
the statements the code has, not of any that the schema would accept. The trail, which
the schema does guard, is shown of them all.

### How the evaluation's state and actions correspond to the code

`history` is `ResolvedHistory.exemplars`: `Resolve` adds one until the evaluation begins.
From there `pc` follows `run_batch.main`: *running* (`run_population`), *saved*,
*comparing* (`head_to_head_diagnosis`), *rendering* (`build_report`), *rendered*,
*summarised*; *crashed* is an exception out of `build_report`. `Exit` is a process
killed anywhere, and `Warm` is `warm_diagnoses.py`. `counters` and `served` are the
diagnoser's counters and the snapshot of them; `results` is who wrote `report.md`,
and what `summary.json` and `summary-rules.json` hold.

A prompt is what the cache's digest is taken of: the wording, the context, a *band* for
what the prompt says of amount and counterparty, and whether the issuer spikes. The
evidence quoted in it follows from these within one history. In `Evidence` the code's
counters are counts over sets of places in the history, and its ratios are compared
by cross-multiplying. `Counter.most_common` takes of equals the one met first.

`Assignment` allows any dealing of an apportioned stratum, for the code's order is that
of a hash. The code's quotas are floating-point products. Their floors are those of
the exact fractions for percentages up to 100 and strata of any size that occurs; two
arms of *different* shares with equal remainders may be ordered either way by
rounding, and `Precedes` leaves it open.

### The red team's scenarios

`Scenarios(c)` is the list of `src/redteam/scenarios.py` that drives the gate, each as
the facts that make a request forbidden, laid over the context `c`. The suite tries each
in one fresh context; `ScenariosContained` tries them in every context an episode
reaches.

## Runs

| Run | Instance | Shows |
|---|---|---|
| `engine_any` | `EpisodeMC`: three ticks a day, every limit within five steps, two consumers and a business, of which two pay unasked, a strategy that may propose anything at any time | fourteen properties of the loop whatever drives it |
| `engine_arms` | `ShippedMC`: the four arms, the shipped policy, fifteen-minute ticks, eight opening hours, every diagnosis | quiet hours, verification before retry, every red-team scenario contained at every step, and the refinement of `RecoveryEpisode` |
| `live` | `LiveMC`: nine deployments: one worker with either store, without credentials, with a refused diagnosis, with impatient merchants on either store; two workers that may die, with a halt beside a payment, and with impatient merchants | nothing is booked twice and the queue drains, whatever races; a waiting episode of patient merchants can be paid; where nothing races one receipt is booked, terminal stays terminal and recorded means applied |
| `live_workers` | two workers, no fault | **violation**: a late failure reopens a recovered episode |
| `live_crash` | one worker, one crash | **violation**: a payment is recorded and never booked |
| `audit_one` | one thread appends three entries, a walk beside it, a copy altered twice | what was appended verifies; a verdict is right of the entries walked; a changed copy does not verify up to the chain's hash |
| `audit_threads` | two threads append | **violation**: two entries with one number, and the chain never verifies again |
| `diagnoser` | `DiagnoserMC`: four questions, a primary with two modes and a fallback with one, two runs of three episodes, a budget two dear replies exhaust | calls are bounded, the budget holds, cost is booked once, saved answers stay, every question is answered |
| `diagnoser_priced` | one run of two episodes | **violation**: a rejected reply costs nothing in the ledger |
| `records` | `DatabaseMC`: two counterparties, events and episodes, one row of each other table, six rows at once, two sessions that erase | an audit entry and its episode outlive any statement; an opt-out stands, and its date but for an erasure it overtook |
| `evaluation` | `EvaluationMC`: five episodes in strata of three and two, histories of up to four, runs of both planners over one file | arms balanced, a retry rests on the history it quotes, published summaries true |
| `evaluation_partly` | the same | **violation**: an agent run in which a model answers live ends in a `TypeError` and no report |

The violations are disagreements between the code and what its documents, comments
or tests say; `PROJECT.json` quotes both under `findings`.

What `RungsWithinContacts` says of the ladder is what the code does: the rung reached
is the number of contacts made (`_rung_from`, `engine/runner.py:720`), so two contacts
on rung 1 let a third be on rung 3. `policy/gate.py:98` calls that number the highest
rung reached. No shipped arm repeats a rung and then skips one.

**Bounds.** `EpisodeMC` scales the policy, not the code: every cap, cooldown and gap
of the shipped policy has one, small enough that five steps reach it, quiet hours
still wrap past midnight, and the order of the limits is that of the shipped file.
`MaxSteps` (24 in the code, and in `engine_arms`) is 5. Proposed times are gone by,
unspecified, near, and days away. `ShippedMC` uses the real numbers with the arms'
own choices, so few branches remain. In `LiveMC` there is one reference because
every operation reads and writes the one it names; two requests make a duplicate;
a payment in full, a part, a failure and a halt are all the kinds `apply_event` tells
apart; a setup's `faults` bounds lost answers and crashes together, and two are enough
for one redelivery to meet another fault. Two workers, and impatient merchants, get at
most one fault and fewer kinds of event: the two payments and the failure with a fault,
the halt with the payment and the failure without, and the payment and the failure where
two workers and impatient merchants come together. In `audit_one` three entries give a first, a middle
and a last; two alterations let the second repair what the first broke; `Payloads`
and `Times` have two values so that a rewritten field differs. In `diagnoser`,
`MaxRetries` is 1 (2 in the code) and `Attempts` 2 (3 in `src/eval/run_batch.py`), so that
each loop runs out inside each other; the replies are sure, unsure with and without
a runner-up, and surer than their grade allows; a question's answer is used by a
second episode and by a second run, after a save or a kill. In `records`
(`MaxRows` 6) the longest chain of keys (counterparty, event, episode, decision, action,
cost entry) is five keys long and fits; two references let a row hang on both; two
sessions and two moments let an erasure be overtaken by the other, or by an opt-out,
with another date. References are alike, and so are sessions (`Symmetry`). In
`evaluation` histories of four (`MaxHistory`) over four causes, two of which must never be
retried, reach ties, splits and majorities; `MinMass` is 50 (15 in the code), since
with four exemplars a share below a quarter is none; strata of three and two leave
leftover slots for three arms; `Affordable` 1 lets the budget run out after one
live answer. Only one history (`Trained`) goes on to the arms, which the order of the
runs does not depend on.

**Fairness.** The engine is one synchronous loop: `WF_vars(Next)` says only that the
process keeps running. In the service each worker's event loop goes on
(`WF(Handle(w))`) and each request thread goes on (`WF(Serve(q))`). Nothing is
assumed of the merchant (`Accept`), of the provider's events (`Emit`) or of crashes.
That a delivery with no 2xx is delivered again is in the shape of `mail`: it stays
*pending* until acknowledged. In the diagnoser a call returns or times out (every
model's profile has a `timeout_s`) and the code then goes on: `WF(Calling \/ Booking)`.
No reply is assumed to be valid, and nothing of the next question or the next run.
The chain, the database and the evaluation have no liveness property and no fairness.

**Deadlock** is checked everywhere but in `evaluation` and `evaluation_partly`, where a
full history that is not in `Trained` has no further step. Elsewhere a closed episode and a service with nothing to
do stutter by an action that says so (`Terminated`, `Quiet`, and `Over` for the last
run of the diagnoser).

## Theorems

Nearly all are of the form `Spec => []P` or `Spec => [][A]_vars`. Those of the engine hold
for every policy, strategy, price list, set of episodes and bound that satisfies the
assumptions named in the modules. Those assumptions say what the code's types and validators say: a
bundle has its shape, cooldowns and caps are naturals, part payments lie between 1
and the amount.

* `TypeCorrect`: by induction, one lemma per action. What needs work is that the
  gate's ruling is a well-formed action again (`MODIFY` changes only its time) and
  that a step never passes `MaxSteps`.
* `PermittedChecks` is the bridge between gate and engine: what must have been
  measured if an action was not denied. The theorems below rest on it.
* `MovedActionStands`: what the gate rewrites it would allow in the same context. The checks
  do not look at the time an action is asked for (`ObjectionsTimeless`), and the
  rewritten time meets both rules that rewrite.
* `CapsAlwaysHold`: a counter moves only in `Acts` and `Verifies`, where the gate has
  just found it below its cap; contacts and history grow together.
* `SpendAlwaysBounded`: cost moves only in the diagnosis, before there is any contact
  (`SpendInv`), and with a contact let through below the cap.
* `RollingCapsHold`: inductive as it stands. The gate counts in a window that ends at
  the time proposed (`WindowChecks`); a contact is made no earlier (`ContactNotEarly`),
  so what its own window holds is that set and the contact itself (`ActsCaps`).
* `CreditedAtMostOnce`: `CreditedOnce` is not inductive, for nothing in it keeps the
  loop from crediting twice. `CreditInv` adds that while the loop works nothing has
  been credited and the state is one of the unpaid ones.
* `ContactsAlwaysSpaced`: `SpacingInv` adds that no contact lies in the future, that
  while the loop works no contact was answered (an answer ends it), and orders the
  history, from which all pairs follow and not only neighbours.
* `RetriesAlwaysSpaced`, `PayersLeftAlone`, `VerdictEndsWork`: action properties, from
  the guards of the step and, for the first, from `MODIFY` only ever moving later.
* `WorkAlwaysStopsNearHorizon`: an action is as proposed, a gap after the last retry, or
  at the end of the quiet hours (`NotFarPast`); the second needs that no retry is
  dated in the future.
* `RungsAlwaysWithinContacts`: inductive as it stands, from the two objections a
  permitted contact did not meet.
* `HarmOnlyByMisdiagnosis`: assumes that the policy's never-retry list has the causes
  the code lists as such, and records that a retry passed both of the gate's looks
  at the diagnosis.
* `AlwaysEndsSettled`: `SettledInv` adds which states the loop may be left in.
* `ConductsRecoveryEpisode`: initial states map to initial states and every step to
  `Advance` or a stutter, under the mapping at the end of `EpisodeSafety`. That is
  `RefinesRecoveryEpisode` without its `<>(phase = "settled")`.

* `RunsDescend`: every step, stutters aside, lowers `StepsLeft`, which starts at
  `MaxSteps + 4`: a denial uses up a step of the bound although it takes no time, and
  what ends the loop uses up the rest. Together with the fairness of the process
  this is why `Closes` holds; the fairness itself the prover cannot reason about.
* `TimelyStrategiesAreQuiet`: a strategy that never proposes a contact for a time gone by
  (`ContactsTimely`) contacts nobody in quiet hours. The gate's next allowed time is
  outside the window it was computed from (`NextAllowedOutside`), on the
  reading of the window as an arc of the day (`DuringIsInWindow`), and a time not
  gone by is the time of the act (`TimelyContactQuiet`). The hypothesis is needed:
  see the first divergence below.

Of the shipped arms (`ShippedProofs`), for every set of episodes, opening time,
diagnosis, price list and cap, when the loop is driven by `Strategies` on fifteen-minute
ticks (`ShippedArms`):

* `ShippedArmsAreQuiet`: the arms meet the hypothesis above. A delayed contact makes the
  loop late; but every schedule is `Paced`: while a contact is still to come, a step
  is at least as long after the one before it as the gate can hold that one back
  (`PlaybookPaced`, one case per cause). So the loop is never behind (`OnSchedule`,
  which is inductive). It assumes a retry gap of at most half a day; the shipped one is
  four hours. The blast arm has no schedule and proposes half an hour ahead.
* `ShippedArmsVerify`: `VerifiedFirst` says that a timeout is verified in the first step or
  the loop is over. The verification could be skipped only by a refusal that uses up the
  step and goes on; the only checks that can refuse it are the two budgets
  (`OtherObjections`, `VerificationRefused`), and those end the episode. It assumes that
  the policy asks for verification of timeouts alone and has an organisation's cap
  above zero, and that an arm which does not diagnose holds the empty diagnosis.
* `RedTeamContained`, under the shipped policy (`ShippedGate`): one step per scenario names
  the check that objects, or shows that the time asked for is rewritten, from
  the scenario's facts alone; so the context they are laid over, and with it the
  strategy and the diagnosis, can be any.

Of the live service, for any workers, references, requests, events, faults and setups:

* `LiveTypeCorrect`: `TypeInv` adds that a request in progress has a worker that serves,
  that what it is about to put is fresh, and that a row that was read is there still.
* `NothingEverBookedTwice`: the store alone says nothing of the rows and episodes that are
  in hand, whose columns a put may lay over it. `SumInv` says of each of them that its
  money is a sum of recorded payments, of an episode between claim and application
  that the payment just claimed is not among them, and every column that is written
  or left comes from one of these. It assumes `TotalsAdd`, that a sum over a set with one
  more element is more by that element: induction over a finite set, which is out of the
  prover's reach and which TLC evaluates on the events of the runs (`LiveMC`).
* `OneReceiptAlwaysBooked`: `BooksInv` says of the episode a handler holds what is said of
  the store. It assumes that every payment is of something (`PaymentsPositive`): see
  below for one that is not. It is about puts that are `Whole`; of mixtures only the
  theorem before speaks.
* `WaitingAlwaysHasLink`: `LinkInv` adds the same of the episodes held and put, that a
  worker's ledger holds a failure or a link the provider has, and that on the database
  a handler never differs from the row in the link, so that no put of its takes one away
  or mixes one in.
* `UnracedStaysTerminal`: `AloneInv` adds that with one worker and patient merchants
  what a handler holds agrees with what the store has, and so does the row it read;
  `PatientInv` that a reference being opened is not in the store. `live_workers` shows why
  one worker is needed.
* `RecordedAlwaysApplied`: `RecordInv` says the same of a payment that is claimed and
  not yet applied.

Of the audit chain, for any payloads, times, length and number of alterations:

* `TypeCorrect`, for any number of threads: an alteration leaves entries of the copy, or
  entries with a field rewritten (`AlterElements`).
* `AppendedAlwaysVerifies` assumes `OneThread`; `audit_threads` shows why it must.
  `AppendedVerifies` is not inductive, for it says nothing of the entry in the
  making: `ChainInv` adds that what the thread holds is numbered after, linked to and
  committed to the chain as it is now (`StillInStep`, `ExtendVerifies`).
* `CopyAlwaysGenuine`, also under `OneThread`: two chains that verify and have one
  hash at a place have one entry there (`SameHash`), hence the same hash before it,
  and so on down to the first (`HashDeterminesChain`). That descent is a least
  counterexample, whose existence comes from the well-foundedness of strict inclusion
  on finite sets (`LeastNatural`).
* `WalkAlwaysRight`, for any number of threads: `WalkInv` says that the hash the walk
  remembers is that of the last entry it saw, and that extending the list changes
  nothing of what came before.

Of the diagnoser, for any models, modes, retries, prices, budget, questions and runs:

* `DiagnoserTypeCorrect`: what needs work is that each way on from a place of the
  ladder leads to a place or past the last model (`NextPlaces`).
* `CallsAlwaysBounded`: the places are finitely many and ordered (`Precedes`), each way on
  leads further down (`OnwardsIsDown`), so the calls made are at most the places passed.
* `AlwaysBookedOnce`: `BookedOnce` is kept by each step alone only if nothing is left
  undrained when the next question forgets it; `BooksInv` says where cost may be at
  each `pc`.
* `BudgetAlwaysHeld`: `BudgetInv` adds that the models are only asked below the budget.
  It assumes that a reply uses at most `MaxTokens`.
* `AnswersAlwaysKept`: `CacheInv` adds that only what is not cached is asked.

Of the database, for any number of rows of each table:

* `ReferencesHold`: every reference of every row resolves, since what a statement removes
  is closed under the cascades and what still refers to it restricts it.
* `TrailAlwaysKept`: an audit entry is never in what a statement removes, since every
  removal that reaches it is refused; its episode is not, since a removal that would
  take it is restricted by the entry. It rests on the type invariant: every
  reference resolves.
* `OptOutAlwaysStands`: whoever is removed takes their episodes along, and an audited
  episode cannot go; an erasure leaves the date unless it read none, and then puts a
  date in its place. For any number of sessions.

Of the evaluation, for any population, shares, history and thresholds the assumptions
allow:

* `ArmsAlwaysBalanced`: the remainders add up to the leftover slots, so as many arms
  have one as there are slots, and an arm that gets a slot has a remainder: no arm is
  a whole episode from its share.
* `RetryAlwaysRests`: a statement about the operators of `Evidence`. Whatever
  `MostCommon` chooses it chooses among the causes it is given, so a mass of risky
  causes above the threshold always puts one of them in the diagnosis.
* `SummariesAlwaysTrue`: `BooksInv` adds what the counters account for at each `pc`, and
  that the snapshot is of the arm and not of the head-to-head.

**Only model-checked.** Liveness: `Closes`, `QueueDrains`, `Answered`, and the end
`RecoveryEpisode` promises (`RefinesRecoveryEpisode` without what `ConductsRecoveryEpisode`
proves of it). ENABLED and fairness are out of the prover's reach. Every safety invariant
and action property a passing run checks is a theorem; the runs show that the
hypotheses of those that have some can be met, for each holds of an instance checked.
That the risk of an unsure diagnosis and the reason of a refusal are what the code
makes them is in the definitions (`ToDomain`, `FirstObjection`) and is no property.

## Divergences met on the way

Besides the findings of `PROJECT.json`, which have a run each, these were read in the
code while it was modelled. They are recorded here because no run states them.

* Quiet hours are the arms' doing, not the gate's: `policy/gate.py:339` measures at the
  time proposed also when that has gone by, and `engine/runner.py:397` then acts at once.
  Nor is a retry of an ambiguous timeout held: the engine always tells the gate that
  capture is verified (`engine/runner.py:643`), so only the playbook's order of steps
  protects it. The shipped arms keep both, as `ShippedArmsAreQuiet` and `ShippedArmsVerify`
  prove: a property of the playbooks' offsets and order, which a new playbook need not have.
* `VALID_TRANSITIONS` (`domain.py:237`) says the engine refuses any other move; no code
  consults it. A partly paid episode is terminal, so the rest of the amount is refused
  when it comes (`api/store.py:158`).
* A paid event without an amount (`api/webhooks.py:102` reads none as 0) closes its
  episode as partially recovered with nothing on the books.
* Two simultaneous POSTs of one reference (`api/app.py:206`): the second overwrites the
  first in memory; on the database it is answered with a 500, or updates the first one's
  row in the columns that differ, by then perhaps a recovered episode's. If an episode row alone
  is deleted, its counterparty and event keep its reference from being opened again.
* `run_batch.py` publishes `summary.json` before it makes sure of the directory of
  `--out`; the report's rows read the counters after the head-to-head where the
  summary has the snapshot; `make eval-llm` and then `make eval` leave the one's summary
  beside the other's report. A stratum of fewer than about six can leave an arm empty,
  and a report without a control arm raises `KeyError`.
* `fleet.py:110` divides by the whole stream, the future included, though its comment
  calls the view causal.
* `warm_diagnoses.py` also asks for prompts of ambiguous wordings, which are never read.
* Two erasures of a counterparty at once (`db/erasure.py:60-76`) may leave the later date
  of the opt-out, and no constraint keeps `opted_out_at` from being set or cleared.
* Erasure leaves `RiskEvent.raw` and the error description, and only tests call it. The
  ORM models do not repeat migration 0002's CHECK constraints.
* `VirtualScheduler.pop_due` takes an item off the heap before `advance_to` may raise.

## Not modelled

Statistics of the evaluation (`calibrate.py`, `sensitivity.py`, `placebo.py`, the report's
intervals), the expected value of triage, population and signal generation: floating-point
arithmetic with no state of its own. Dashboard, scripts other than the warmer, signature
and body parsing, prompts' text, rate tables, redaction: text, I/O and data. The virtual
clock and its heap, which only tests drive. The externality ledger of the engine, which
nothing reads back. CHECK constraints and indexes of the database, and its columns that
refer to nothing, `opted_out_at` aside; real time
between a request and its answer in the live service. `PROJECT.json` lists the
components one by one.

What is left of the plan would be larger instances rather than new modules: two
references that share a counterparty in the live service, and more than one live
history in the evaluation.
