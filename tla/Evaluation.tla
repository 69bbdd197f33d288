----------------------------- MODULE Evaluation -----------------------------
(***************************************************************************)
(* The evaluation: history is built from resolved episodes, the diagnosis  *)
(* cache may be warmed (scripts/warm_diagnoses.py), and eval/run_batch.py  *)
(* runs the population through its arms and publishes, once with the rules *)
(* in the treatment arm and once with the agent, in any order, from the    *)
(* same cache file and into the same directory.  A process may be killed.  *)
(*                                                                         *)
(* A prompt is what the digest is taken of; within one history the prior   *)
(* and the neighbours it quotes follow from its context and wording.  Its   *)
(* band stands for what it says of the amount and the counterparty.         *)
(***************************************************************************)
EXTENDS Assignment, Evidence

CONSTANTS
  Case,         \* ref -> [wording, context, issuer, at, band]
  Queue,        \* the population in order of time
  Resolved,     \* the exemplars history may be built of
  MaxHistory,   \* bound on its length
  Trained,      \* the histories the evaluation is run with
  Affordable    \* the calls after which the budget is spent

ASSUME CaseAssumption ==
  DOMAIN Case = Refs /\ \A r \in Refs : Case[r].wording \in DOMAIN Text
ASSUME QueueAssumption == Queue \in Seq(Refs) /\ Len(Queue) = Cardinality(Refs)
ASSUME BoundsAssumption == MaxHistory \in Nat /\ Affordable \in Nat

VARIABLES
  history,    \* ResolvedHistory.exemplars
  pc,         \* where the process is
  llm,        \* was --llm given
  arm,        \* ref -> arm: the seed's assignment
  at,         \* place in the queue
  cache,      \* prompts DiagnosisCache.entries has a reply to
  file,       \* prompts its file has a reply to
  counters,   \* LLMDiagnoser's counters
  served,     \* the snapshot of them
  results     \* summary.json, summary-rules.json, and who wrote report.md

process == <<llm, at, cache, counters, served>>
vars == <<history, arm, pc, process, file, results>>

NoArms == << >>
NoCounts == [history |-> 0, deterministic |-> 0, cache |-> 0, live |-> 0, fallbacks |-> 0]
NoFile == [by |-> "nobody"]

Init ==
  /\ history = << >> /\ pc = "resolving"
  /\ arm = NoArms /\ llm = FALSE /\ at = 1 /\ cache = {} /\ file = {}
  /\ counters = NoCounts /\ served = NoCounts
  /\ results = [report |-> "nobody", summary |-> NoFile, summaryRules |-> NoFile]

-----------------------------------------------------------------------------
(* The merchant's past.                                                    *)

Resolve(x) ==
  /\ pc = "resolving" /\ Len(history) < MaxHistory
  /\ history' = Append(history, x)
  /\ UNCHANGED <<arm, pc, process, file, results>>

Prepare ==
  /\ pc = "resolving" /\ history \in Trained
  /\ arm' \in Allocation
  /\ pc' = "idle"
  /\ UNCHANGED <<history, process, file, results>>

-----------------------------------------------------------------------------
(* One diagnosis, and which counter it is counted by.                      *)

Spiked == {r \in Refs : Spiking(Case[r].issuer, Case[r].at)}

Prompt(r) == <<Case[r].wording, Case[r].context, Case[r].band, r \in Spiked>>

Counted(which) == counters' = [counters EXCEPT ![which] = @ + 1]

Known(r) == Exact(history, Case[r].wording) # NoCause
Ambiguous(r) == KnownAmbiguous(history, Case[r].wording)
Asked(r) == ~ Known(r) /\ ~ Ambiguous(r)

FromHistory(r) == Known(r) /\ Counted("history") /\ UNCHANGED cache

NoSignal(r) == Ambiguous(r) /\ Counted("deterministic") /\ UNCHANGED cache

FromCache(r) ==
  /\ Asked(r) /\ Prompt(r) \in cache
  /\ Counted("cache") /\ UNCHANGED cache

BudgetStop(r) ==
  /\ Asked(r) /\ Prompt(r) \notin cache /\ counters.live >= Affordable
  /\ UNCHANGED <<counters, cache>>

Live(r) ==
  /\ Asked(r) /\ Prompt(r) \notin cache /\ counters.live < Affordable
  /\ Counted("live")
  /\ cache' = cache \union {Prompt(r)}

FallBack(r) ==
  /\ Asked(r) /\ Prompt(r) \notin cache /\ counters.live < Affordable
  /\ Counted("fallbacks") /\ UNCHANGED cache

Diagnose(r) ==
  FromHistory(r) \/ NoSignal(r) \/ FromCache(r) \/ BudgetStop(r) \/ Live(r) \/ FallBack(r)

-----------------------------------------------------------------------------
(* run_batch.main.                                                         *)

Start(agent) ==
  /\ pc = "idle"
  /\ pc' = "running"
  /\ llm' = agent
  /\ at' = 1 /\ cache' = file /\ counters' = NoCounts /\ served' = NoCounts
  /\ UNCHANGED <<history, arm, file, results>>

InArm(a) == {r \in Refs : arm[r] = a}

(* The episodes of the treatment arm among the first n. *)
Treated(n) == {i \in 1 .. n : arm[Queue[i]] = "treatment"}

RunEpisode ==
  /\ pc = "running" /\ at <= Len(Queue)
  /\ at' = at + 1
  /\ \/ /\ llm /\ arm[Queue[at]] = "treatment"
        /\ Diagnose(Queue[at])
     \/ /\ ~ llm \/ arm[Queue[at]] # "treatment"
        /\ UNCHANGED <<cache, counters>>
  /\ UNCHANGED <<history, arm, pc, llm, file, served, results>>

SaveCache ==
  /\ pc = "running" /\ at > Len(Queue)
  /\ file' = cache
  /\ pc' = IF llm THEN "saved" ELSE "rendering"
  /\ UNCHANGED <<history, arm, process, results>>

Snapshot ==
  /\ pc = "saved"
  /\ pc' = "comparing" /\ at' = 1
  /\ served' = counters
  /\ UNCHANGED <<history, arm, llm, cache, file, counters, results>>

(* Every episode, whatever its arm, is put to the same diagnoser. *)
HeadToHead ==
  /\ pc = "comparing" /\ at <= Len(Queue)
  /\ at' = at + 1
  /\ Diagnose(Queue[at])
  /\ UNCHANGED <<history, arm, pc, llm, file, served, results>>

Compared ==
  /\ pc = "comparing" /\ at > Len(Queue)
  /\ pc' = "rendering"
  /\ UNCHANGED <<history, arm, process, file, results>>

(* The report needs both arms; and the loop over by_model rebinds `served`   *)
(* to a model's name, which the next line indexes.                         *)
Renders ==
  /\ InArm("treatment") # {} /\ InArm("control") # {}
  /\ llm => counters.live = 0

BuildReport ==
  /\ pc = "rendering"
  /\ pc' = IF Renders THEN "rendered" ELSE "crashed"
  /\ UNCHANGED <<history, arm, process, file, results>>

Planner == IF llm THEN "agent" ELSE "rules"

\* Mutation of Summary: the counters are read when the file is written.
Summary_Late ==
  [by |-> Planner, served |-> counters, n |-> Cardinality(Treated(Len(Queue)))]

Summary ==
  [by |-> Planner, served |-> served,
   n |-> Cardinality(Treated(Len(Queue)))]

WriteSummary ==
  /\ pc = "rendered"
  /\ pc' = "summarised"
  /\ results' = [report       |-> results.report,
                 summary      |-> IF llm THEN Summary ELSE results.summary,
                 summaryRules |-> IF llm THEN results.summaryRules ELSE Summary]
  /\ UNCHANGED <<history, arm, process, file>>

Ended ==
  /\ pc' = "idle"
  /\ llm' = FALSE /\ at' = 1 /\ cache' = {}
  /\ counters' = NoCounts /\ served' = NoCounts
  /\ UNCHANGED <<history, arm, file>>

WriteReport ==
  /\ pc = "summarised"
  /\ results' = [report |-> Planner, summary |-> results.summary,
                 summaryRules |-> results.summaryRules]
  /\ Ended

(* Killed, or over after it crashed. *)
Exit == pc \notin {"resolving", "idle"} /\ Ended /\ UNCHANGED results

(* The warmer asks for every prompt history does not answer outright, skips  *)
(* what the file has, and keeps what came.                                 *)
Warm ==
  /\ pc = "idle"
  /\ \E came \in SUBSET {Prompt(r) : r \in {r \in Refs : ~ Known(r)}} :
       file' = file \union came
  /\ UNCHANGED <<history, arm, pc, process, results>>

-----------------------------------------------------------------------------

Next ==
  \/ \E x \in Resolved : Resolve(x)
  \/ Prepare \/ Warm
  \/ \E agent \in BOOLEAN : Start(agent)
  \/ RunEpisode \/ SaveCache \/ Snapshot \/ HeadToHead \/ Compared
  \/ BuildReport \/ WriteSummary \/ WriteReport \/ Exit

Spec == Init /\ [][Next]_vars

-----------------------------------------------------------------------------
(* Properties.                                                             *)

(* engine/runner.py: "every arm receives the same amount profile to within   *)
(* one episode per decile", whatever order the hashes put the episodes in. *)
ArmsBalanced == arm # NoArms => Balanced(arm)

(* A retry the gate lets through on the word of history was seldom wrong:    *)
(* of the resolved episodes the diagnosis rests on, fewer than purity or   *)
(* mass allow were of causes that must never be retried.                   *)
RetryRestsOnEvidence ==
  \A r \in Refs :
    LET e == Case[r]
        d == Rules(history, e)
        told == ByText(history, e.wording)
        near == Prior(history, e.context)
    IN  ~ RetryHeld(d) =>
          /\ Exact(history, e.wording) # NoCause =>
               AtLeast(MinPurity, told \ Risky(history, told), told)
          /\ ~ d.confident /\ near # {} =>
               ~ AtLeast(MinMass, Risky(history, near), near)

(* The counters account for n episodes: all of them, unless the budget ran   *)
(* out.                                                                    *)
Accounted(s) ==
  s.history + s.deterministic + s.cache + s.live + s.fallbacks

Accounts(s, n) ==
  Accounted(s) <= n /\ (Accounted(s) < n => s.live >= Affordable)

(* run_batch.py: "a rules-only run therefore overwrote the LLM run's         *)
(* summary", and counters read late "inflate past the size of the arm they  *)
(* describe".  A summary is by the planner its name says, whatever ran      *)
(* since, and the agent's accounts for its arm.                             *)
SummariesTrue ==
  LET s == results.summary
  IN  /\ results.summaryRules = NoFile \/ results.summaryRules.by = "rules"
      /\ \/ s = NoFile
         \/ /\ s.by = "agent"
            /\ Accounts(s.served, s.n)

(* warm_diagnoses.py: "if the endpoint refuses fifty prompts, ... the report *)
(* will show the fallback rate, and the comparison stays honest": a run over *)
(* a partly warmed cache gets to its report.                               *)
ReportComes == pc # "crashed"
=============================================================================
