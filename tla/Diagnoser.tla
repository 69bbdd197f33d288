----------------------------- MODULE Diagnoser -----------------------------
(***************************************************************************)
(* The diagnosis step of src/wapas/diagnose/diagnoser.py, with the ladder  *)
(* of attempts of llm/structured.py and llm/retry.py under it, and the     *)
(* booking of what it cost by strategies/agent.py and engine/runner.py.    *)
(*                                                                         *)
(* A question stands for the prompt of an episode: episodes that build one *)
(* prompt ask one question.                                                *)
(***************************************************************************)
EXTENDS Domain

CONSTANTS
  Questions,
  Reading,        \* question -> what history makes of its wording
  RiskSeen,       \* question -> riskiest_alternative of its base rates
  RulesSay,       \* question -> the rules classifier's diagnosis
  Candidates,     \* the model and its fallback_models, in order
  Ladder,         \* model -> how many of the three structured modes it supports
  MaxRetries,     \* ask_structured's max_retries
  Attempts,       \* RetryingProvider's attempts
  Replies,        \* parsed replies, validated or not
  Rate,           \* model -> price of a token, of which Unit is a paisa
  Tokens,         \* what a reply may use
  MaxTokens, Unit, Budget,
  MaxEpisodes,    \* bound on the episodes of a run
  MaxRuns         \* bound on the runs that share a cache file

Readings == {"known", "ambiguous", "unseen"}

Reply ==
  [quality : {"specific", "weak", "generic"}, cause : RootCause,
   alternative : RootCause \union {NoCause}, confidence : 0 .. 100]

ASSUME QuestionsAssumption ==
  /\ Reading \in [Questions -> Readings]
  /\ RiskSeen \in [Questions -> NEVER_RETRY \union {NoCause}]
  /\ RulesSay \in [Questions -> Diagnosis]
  /\ Replies \subseteq Reply

ASSUME ModelsAssumption ==
  /\ Candidates \in Seq(DOMAIN Ladder) /\ Len(Candidates) > 0
  /\ Ladder \in [DOMAIN Ladder -> 1 .. 3]
  /\ MaxRetries \in Nat /\ Attempts \in Nat \ {0}

ASSUME MoneyAssumption ==
  /\ Rate \in [DOMAIN Ladder -> Nat]
  /\ MaxTokens \in Nat /\ Tokens \subseteq 0 .. MaxTokens
  /\ Unit \in Nat \ {0} /\ Budget \in Nat
  /\ MaxEpisodes \in Nat /\ MaxRuns \in Nat

VARIABLES
  pc,          \* where the step is: idle, asking, answered, drained
  question,
  call,        \* where ask_structured and RetryingProvider.complete are
  tries,       \* calls made to the provider for this question
  consumed,    \* price of every reply to this question, in paise
  answer,      \* the diagnosis, and where it came from
  cache,       \* DiagnosisCache.entries
  file,        \* what the cache's file holds
  stats,       \* DiagnoserStats.spend_usd and spend_paise
  lastCost,    \* LLMDiagnoser._last_cost
  agentCost,   \* LLMAgent._cost
  booked,      \* token cost on the results of this run's episodes
  episodes, runs

money == <<stats, lastCost, agentCost, booked>>
disk == <<cache, file, runs>>
vars == <<pc, question, call, tries, consumed, answer, cache, file, stats,
          lastCost, agentCost, booked, episodes, runs>>

NoReply == [quality |-> "none"]
NoQuestion == "none"
NoAnswer == [by |-> "none"]
NoSpend == [usd |-> 0, paise |-> 0]

Init ==
  /\ pc = "idle" /\ question = NoQuestion /\ answer = NoAnswer
  /\ call = [candidate |-> 1, rung |-> 1, retry |-> 1, inner |-> 1]
  /\ tries = 0 /\ consumed = 0
  /\ cache = [q \in Questions |-> NoReply] /\ file = cache
  /\ stats = NoSpend /\ lastCost = 0 /\ agentCost = 0 /\ booked = 0
  /\ episodes = 0 /\ runs = 1

-----------------------------------------------------------------------------
(* Money.                                                                  *)

cost_usd(model, tokens) == Rate[model] * tokens

(* Rounded up. *)
cost_paise(model, tokens) == (cost_usd(model, tokens) + Unit - 1) \div Unit

-----------------------------------------------------------------------------
(* What an answer becomes.                                                 *)

Ceiling == [specific |-> 100, weak |-> 75, generic |-> 50]

(* The schema refuses more confidence than the graded text supports. *)
Validates(reply) == reply.confidence <= Ceiling[reply.quality]

ConfidenceIn(q, reply) ==
  IF Reading[q] = "ambiguous" /\ reply.confidence > 50 THEN 50 ELSE reply.confidence

ToDomain(q, reply) ==
  LET unsure == ConfidenceIn(q, reply) < 75
  IN  [cause |-> reply.cause, alternative |-> reply.alternative,
       risk |-> IF unsure THEN RiskSeen[q] ELSE NoCause,
       confident |-> ~ unsure]

(* The rules' cause and nothing else of what they said. *)
Degraded(q) ==
  [cause |-> RulesSay[q].cause, alternative |-> NoCause, risk |-> NoCause,
   confident |-> FALSE]

Answer(by, diagnosis) == [by |-> by, diagnosis |-> diagnosis]

-----------------------------------------------------------------------------
(* diagnose, up to the first call.                                         *)

(* A question arrives, and whatever cost was not drained is forgotten. *)
Asked(q) ==
  /\ pc = "idle" /\ episodes < MaxEpisodes
  /\ question' = q
  /\ lastCost' = 0
  /\ UNCHANGED <<stats, agentCost, booked, episodes, disk>>

AnsweredAtOnce(q, a) ==
  /\ Asked(q)
  /\ pc' = "answered" /\ answer' = a
  /\ UNCHANGED <<call, tries, consumed>>

(* History has one cause for this wording, the one the rules would look up. *)
Recall(q) ==
  /\ Reading[q] = "known"
  /\ AnsweredAtOnce(q, Answer("history", RulesSay[q]))

(* History has many: the rules decide, and no model is asked. *)
NoSignal(q) ==
  /\ Reading[q] = "ambiguous"
  /\ AnsweredAtOnce(q, Answer("rules", RulesSay[q]))

CacheHit(q) ==
  /\ Reading[q] = "unseen" /\ cache[q] # NoReply
  /\ AnsweredAtOnce(q, Answer("cache", ToDomain(q, cache[q])))

\* Mutation of Missed: the cache is written and never read.
Missed_Always(q) == Reading[q] = "unseen"

Missed(q) == Reading[q] = "unseen" /\ cache[q] = NoReply

\* Mutation of Exhausted: the run may go on when it has spent its budget.
Exhausted_Past == stats.usd > Budget

Exhausted == stats.usd >= Budget

BudgetStop(q) ==
  /\ Missed(q) /\ Exhausted
  /\ AnsweredAtOnce(q, Answer("degraded", Degraded(q)))

Consult(q) ==
  /\ Missed(q) /\ ~ Exhausted
  /\ Asked(q)
  /\ pc' = "asking"
  /\ call' = [candidate |-> 1, rung |-> 1, retry |-> 1, inner |-> 1]
  /\ tries' = 0 /\ consumed' = 0
  /\ UNCHANGED answer

-----------------------------------------------------------------------------
(* The calls: models, in each the modes it supports, in each the retries of *)
(* ask_structured, in each the attempts of RetryingProvider.                *)

NextCandidate(at) ==
  [candidate |-> at.candidate + 1, rung |-> 1, retry |-> 1, inner |-> 1]

NextRung(at) ==
  IF at.rung < Ladder[Candidates[at.candidate]]
    THEN [at EXCEPT !.rung = @ + 1, !.retry = 1, !.inner = 1]
    ELSE NextCandidate(at)

\* Mutation of NextRetry: one retry more than max_retries.
NextRetry_OneMore(at) ==
  IF at.retry <= MaxRetries + 1
    THEN [at EXCEPT !.retry = @ + 1, !.inner = 1]
    ELSE NextRung(at)

NextRetry(at) ==
  IF at.retry <= MaxRetries
    THEN [at EXCEPT !.retry = @ + 1, !.inner = 1]
    ELSE NextRung(at)

\* Mutation of NextAttempt: the wrapper never gives up.
NextAttempt_Forever(at) ==
  [at EXCEPT !.inner = IF at.inner < Attempts THEN @ + 1 ELSE 1]

NextAttempt(at) ==
  IF at.inner < Attempts THEN [at EXCEPT !.inner = @ + 1] ELSE NextRetry(at)

(* The places a call is made from. *)
Position ==
  [candidate : 1 .. Len(Candidates), rung : 1 .. 3,
   retry : 1 .. MaxRetries + 1, inner : 1 .. Attempts]

(* As many calls as there are places to make one from; the count stops     *)
(* where it has shown that there were more.                                *)
MaxCalls ==
  Cardinality({at \in Position : at.rung <= Ladder[Candidates[at.candidate]]})

Tried == tries' = IF tries <= MaxCalls THEN tries + 1 ELSE tries

Model == Candidates[call.candidate]

(* A reply that validates: it is booked, cached and given. *)
ReplyValid(reply, tokens) ==
  /\ pc = "asking" /\ Validates(reply)
  /\ pc' = "answered"
  /\ Tried
  /\ consumed' = consumed + cost_paise(Model, tokens)
  /\ stats' = [usd   |-> stats.usd + cost_usd(Model, tokens),
               paise |-> stats.paise + cost_paise(Model, tokens)]
  /\ lastCost' = cost_paise(Model, tokens)
  /\ cache' = [cache EXCEPT ![question] = reply]
  /\ answer' = Answer("model", ToDomain(question, reply))
  /\ UNCHANGED <<question, call, agentCost, booked, episodes, file, runs>>

(* On to the next place to call from, or to the rules when there is none.   *)
Proceed(at) ==
  /\ Tried
  /\ \/ /\ at.candidate <= Len(Candidates)
        /\ call' = at
        /\ UNCHANGED <<pc, answer>>
     \/ /\ at.candidate > Len(Candidates)
        /\ pc' = "answered" /\ answer' = Answer("degraded", Degraded(question))
        /\ UNCHANGED call
  /\ UNCHANGED <<question, money, episodes, disk>>

(* A reply that does not parse, or does not validate: it is sent back. *)
ReplyRejected(tokens) ==
  /\ pc = "asking"
  /\ consumed' = consumed + cost_paise(Model, tokens)
  /\ Proceed(NextRetry(call))

(* Timeout, rate limit, upstream failure, empty completion. *)
FailsRetryable ==
  /\ pc = "asking"
  /\ Proceed(NextAttempt(call))
  /\ UNCHANGED consumed

(* A refused request, a malformed envelope: this mode will not do. *)
FailsForGood ==
  /\ pc = "asking"
  /\ Proceed(NextRung(call))
  /\ UNCHANGED consumed

-----------------------------------------------------------------------------
(* Booking.                                                                *)

AgentDrains ==
  /\ pc = "answered"
  /\ pc' = "drained"
  /\ agentCost' = agentCost + lastCost
  /\ lastCost' = 0
  /\ UNCHANGED <<question, call, tries, consumed, answer, stats, booked, episodes, disk>>

\* Mutation of EngineBooks: the agent's cost is read and not drained.
EngineBooks_Reads ==
  /\ pc = "drained"
  /\ pc' = "idle"
  /\ booked' = booked + agentCost
  /\ question' = NoQuestion /\ answer' = NoAnswer /\ tries' = 0 /\ consumed' = 0
  /\ episodes' = episodes + 1
  /\ UNCHANGED <<call, stats, lastCost, agentCost, disk>>

EngineBooks ==
  /\ pc = "drained"
  /\ pc' = "idle"
  /\ booked' = booked + agentCost
  /\ agentCost' = 0
  /\ question' = NoQuestion /\ answer' = NoAnswer /\ tries' = 0 /\ consumed' = 0
  /\ episodes' = episodes + 1
  /\ UNCHANGED <<call, stats, lastCost, disk>>

-----------------------------------------------------------------------------
(* Runs.  A run saves the cache when it is done; a run that is killed has   *)
(* not, and the next one starts from the file.                             *)

NewRun ==
  /\ runs < MaxRuns
  /\ runs' = runs + 1
  /\ pc' = "idle" /\ question' = NoQuestion /\ answer' = NoAnswer
  /\ tries' = 0 /\ consumed' = 0
  /\ stats' = NoSpend /\ lastCost' = 0 /\ agentCost' = 0 /\ booked' = 0
  /\ episodes' = 0
  /\ UNCHANGED call

Finish ==
  /\ pc = "idle" /\ episodes = MaxEpisodes
  /\ file' = cache
  /\ NewRun
  /\ UNCHANGED cache

Killed ==
  /\ cache' = file
  /\ NewRun
  /\ UNCHANGED file

(* The last run is over. *)
Over ==
  /\ pc = "idle" /\ episodes = MaxEpisodes /\ runs = MaxRuns
  /\ UNCHANGED vars

Opening(q) == Recall(q) \/ NoSignal(q) \/ CacheHit(q) \/ BudgetStop(q) \/ Consult(q)

Calling ==
  \/ \E reply \in Replies, tokens \in Tokens : ReplyValid(reply, tokens)
  \/ \E tokens \in Tokens : ReplyRejected(tokens)
  \/ FailsRetryable
  \/ FailsForGood

Booking == AgentDrains \/ EngineBooks

Next ==
  \/ \E q \in Questions : Opening(q)
  \/ Calling \/ Booking
  \/ Finish \/ Killed \/ Over

(* Every call returns or times out, and the run goes on with what it got.   *)
Spec == Init /\ [][Next]_vars /\ WF_vars(Calling \/ Booking)
-----------------------------------------------------------------------------
(* Properties.                                                             *)

Sources == {"history", "rules", "cache", "model", "degraded"}

(* Every variable has its type; a call is only ever made from a place of the *)
(* ladder, and what is cached has been validated.                          *)
TypeOK ==
  /\ pc \in {"idle", "asking", "answered", "drained"}
  /\ question \in Questions \union {NoQuestion}
  /\ pc # "idle" => question \in Questions /\ episodes < MaxEpisodes
  /\ call \in Position /\ call.rung <= Ladder[Candidates[call.candidate]]
  /\ tries \in Nat /\ consumed \in Nat
  /\ answer \in {NoAnswer} \union [by : Sources, diagnosis : Diagnosis]
  /\ cache \in [Questions -> Replies \union {NoReply}]
  /\ file \in [Questions -> Replies \union {NoReply}]
  /\ stats \in [usd : Nat, paise : Nat]
  /\ lastCost \in Nat /\ agentCost \in Nat /\ booked \in Nat
  /\ episodes \in 0 .. MaxEpisodes /\ runs \in Nat

(* Retries inside retries inside modes inside models: a question costs no    *)
(* more calls than the ladder has places.                                  *)
CallsBounded == tries <= MaxCalls

(* diagnoser.py: "budget_usd is a hard ceiling".  It is looked at before a   *)
(* call, so what a run books passes it by less than the price of one reply. *)
BudgetHeld ==
  \A m \in DOMAIN Ladder :
    (\A n \in DOMAIN Ladder : Rate[n] <= Rate[m]) =>
      stats.usd = 0 \/ stats.usd < Budget + MaxTokens * Rate[m]

(* diagnoser.py: "Drained rather than read so it cannot be booked twice".    *)
(* What episodes, agent and diagnoser hold between them is what was spent. *)
BookedOnce == booked + agentCost + lastCost = stats.paise

(* cache.py: "make eval must produce the same report twice".  What a run     *)
(* saved stays the answer to its question in every run after it.           *)
AnswersKept == \A q \in Questions : file[q] # NoReply => cache[q] = file[q]

(* A question put to the models is answered, whatever they do.              *)
Answered == pc = "asking" ~> pc = "idle"

(* diagnoser.py: "Every call is priced into the episode ledger, including    *)
(* the ones that failed and were retried".                                 *)
EveryCallPriced == pc = "drained" => agentCost = consumed
=============================================================================
