-------------------------- MODULE DiagnoserProofs --------------------------
(***************************************************************************)
(* What the diagnosis step promises about money, the cache and the calls   *)
(* it makes, proved for every model ladder, price, budget, set of          *)
(* questions and number of runs.                                           *)
(***************************************************************************)
EXTENDS Diagnoser, FiniteSetTheorems, TLAPS

-----------------------------------------------------------------------------
(* Types.                                                                  *)

(* A token count and a model give a price.                                 *)
LEMMA PriceTypes ==
  ASSUME NEW m \in DOMAIN Ladder, NEW tokens \in Tokens
  PROVE  /\ tokens \in 0 .. MaxTokens
         /\ cost_usd(m, tokens) \in Nat
         /\ cost_paise(m, tokens) \in Nat
<1>1. tokens \in Nat /\ tokens \in 0 .. MaxTokens /\ Rate[m] \in Nat
  BY MoneyAssumption
<1>2. Rate[m] * tokens \in Nat
  BY <1>1
<1>3. ASSUME NEW x \in Nat PROVE (x + Unit - 1) \div Unit \in Nat
  BY MoneyAssumption
<1> QED
  BY <1>1, <1>2, <1>3 DEF cost_usd, cost_paise

(* What an answer is made of is a diagnosis.                               *)
LEMMA AnswerTypes ==
  ASSUME NEW q \in Questions
  PROVE  /\ RulesSay[q] \in Diagnosis
         /\ Degraded(q) \in Diagnosis
         /\ \A reply \in Replies : ToDomain(q, reply) \in Diagnosis
<1>1. RulesSay[q] \in Diagnosis /\ RiskSeen[q] \in RootCause \union {NoCause}
  BY QuestionsAssumption DEF NEVER_RETRY, RootCause
<1>2. Degraded(q) \in Diagnosis
  BY <1>1 DEF Degraded, Diagnosis
<1>3. ASSUME NEW reply \in Replies PROVE ToDomain(q, reply) \in Diagnosis
  <2>1. reply.cause \in RootCause /\ reply.alternative \in RootCause \union {NoCause}
    BY QuestionsAssumption DEF Reply
  <2> QED
    BY <1>1, <2>1 DEF ToDomain, Diagnosis
<1> QED
  BY <1>1, <1>2, <1>3

(* A place of the ladder calls are made from.                              *)
Place(at) == at \in Position /\ at.rung <= Ladder[Candidates[at.candidate]]

(* The first place, and the model of every place.                          *)
LEMMA FirstPlace ==
  ASSUME NEW c \in 1 .. Len(Candidates)
  PROVE  /\ Candidates[c] \in DOMAIN Ladder
         /\ Ladder[Candidates[c]] \in 1 .. 3
         /\ Place([candidate |-> c, rung |-> 1, retry |-> 1, inner |-> 1])
<1>1. Candidates[c] \in DOMAIN Ladder
  BY ModelsAssumption
<1>2. Ladder[Candidates[c]] \in 1 .. 3
  BY <1>1, ModelsAssumption
<1> QED
  BY <1>1, <1>2, ModelsAssumption DEF Place, Position

(* Each way on from a place leads to a place, or past the last model.       *)
LEMMA NextPlaces ==
  ASSUME NEW at, Place(at), NEW to \in {NextRung(at), NextRetry(at), NextAttempt(at)},
         to.candidate <= Len(Candidates)
  PROVE  Place(to)
<1>1. /\ at \in Position
      /\ at.candidate \in 1 .. Len(Candidates) /\ at.rung \in 1 .. 3
      /\ at.retry \in 1 .. MaxRetries + 1 /\ at.inner \in 1 .. Attempts
      /\ at.rung <= Ladder[Candidates[at.candidate]]
      /\ Ladder[Candidates[at.candidate]] \in 1 .. 3
      /\ MaxRetries \in Nat /\ Attempts \in Nat \ {0}
      /\ Len(Candidates) \in Nat
  BY FirstPlace, ModelsAssumption DEF Place, Position
<1>2. ASSUME to = NextCandidate(at) PROVE Place(to)
  <2>1. at.candidate + 1 \in 1 .. Len(Candidates)
    BY <1>1, <1>2 DEF NextCandidate
  <2> QED
    BY <1>2, <2>1, FirstPlace DEF NextCandidate
<1>3. ASSUME to = NextRung(at) PROVE Place(to)
  <2>1. CASE at.rung < Ladder[Candidates[at.candidate]]
    <3>1. to = [candidate |-> at.candidate, rung |-> at.rung + 1,
                retry |-> 1, inner |-> 1]
      BY <1>1, <1>3, <2>1 DEF NextRung, Position
    <3>2. /\ to \in Position
          /\ to.candidate = at.candidate /\ to.rung = at.rung + 1
      BY <1>1, <2>1, <3>1 DEF Position
    <3> QED
      BY <1>1, <2>1, <3>2 DEF Place
  <2>2. CASE ~ (at.rung < Ladder[Candidates[at.candidate]])
    BY <1>2, <1>3, <2>2 DEF NextRung
  <2> QED
    BY <2>1, <2>2
<1>4. ASSUME to = NextRetry(at) PROVE Place(to)
  <2>1. CASE at.retry <= MaxRetries
    <3>1. to = [candidate |-> at.candidate, rung |-> at.rung,
                retry |-> at.retry + 1, inner |-> 1]
      BY <1>1, <1>4, <2>1 DEF NextRetry, Position
    <3>2. /\ to \in Position
          /\ to.candidate = at.candidate /\ to.rung = at.rung
      BY <1>1, <2>1, <3>1 DEF Position
    <3> QED
      BY <1>1, <3>2 DEF Place
  <2>2. CASE ~ (at.retry <= MaxRetries)
    BY <1>3, <1>4, <2>2 DEF NextRetry
  <2> QED
    BY <2>1, <2>2
<1>5. ASSUME to = NextAttempt(at) PROVE Place(to)
  <2>1. CASE at.inner < Attempts
    <3>1. to = [at EXCEPT !.inner = @ + 1]
      BY <1>5, <2>1 DEF NextAttempt
    <3>2. /\ to \in Position
          /\ to.candidate = at.candidate /\ to.rung = at.rung
      BY <1>1, <2>1, <3>1 DEF Position
    <3> QED
      BY <1>1, <3>2 DEF Place
  <2>2. CASE ~ (at.inner < Attempts)
    BY <1>4, <1>5, <2>2 DEF NextAttempt
  <2> QED
    BY <2>1, <2>2
<1> QED
  BY <1>3, <1>4, <1>5

(* The initial states are typed.                                           *)
LEMMA InitTypeOK == Init => TypeOK
<1> SUFFICES ASSUME Init PROVE TypeOK
  OBVIOUS
<1>1. 1 \in 1 .. Len(Candidates)
  BY ModelsAssumption
<1>2. Place(call)
  BY <1>1, FirstPlace DEF Init
<1>3. /\ stats \in [usd : Nat, paise : Nat]
      /\ episodes \in 0 .. MaxEpisodes
      /\ cache \in [Questions -> Replies \union {NoReply}]
  BY MoneyAssumption DEF Init, NoSpend
<1> QED
  BY <1>2, <1>3 DEF Init, TypeOK, Place

(* A question answered at once.                                            *)
LEMMA AtOnceTypeOK ==
  ASSUME TypeOK, NEW q \in Questions, NEW by \in Sources,
         NEW d \in Diagnosis, AnsweredAtOnce(q, Answer(by, d))
  PROVE  TypeOK'
  BY DEF AnsweredAtOnce, Asked, Answer, TypeOK, disk

(* A call that brought no valid reply.                                     *)
LEMMA ProceedTypeOK ==
  ASSUME TypeOK, pc = "asking", consumed' \in Nat,
         NEW to \in {NextRung(call), NextRetry(call), NextAttempt(call)},
         Proceed(to)
  PROVE  TypeOK'
<1>1. Place(call) /\ question \in Questions /\ tries \in Nat
  BY DEF TypeOK, Place
<1>2. Place(call')
  BY <1>1, NextPlaces DEF Proceed
<1>3. tries' \in Nat
  BY <1>1 DEF Proceed, Tried
<1>4. /\ pc' \in {"asking", "answered"}
      /\ answer' \in {NoAnswer} \union [by : Sources, diagnosis : Diagnosis]
  BY <1>1, AnswerTypes DEF Proceed, Answer, Sources, TypeOK
<1> QED
  BY <1>1, <1>2, <1>3, <1>4 DEF Proceed, TypeOK, Place, money, disk

(* What a valid reply is priced at.                                        *)
LEMMA ReplyTypes ==
  ASSUME TypeOK, NEW reply \in Replies, NEW tokens \in Tokens,
         ReplyValid(reply, tokens)
  PROVE  /\ Model \in DOMAIN Ladder
         /\ cost_usd(Model, tokens) \in Nat /\ cost_paise(Model, tokens) \in Nat
         /\ stats.usd \in Nat /\ stats.paise \in Nat
         /\ stats'.usd = stats.usd + cost_usd(Model, tokens)
         /\ stats'.paise = stats.paise + cost_paise(Model, tokens)
         /\ stats' \in [usd : Nat, paise : Nat]
         /\ lastCost' = cost_paise(Model, tokens)
<1>1. Model \in DOMAIN Ladder
  BY FirstPlace DEF TypeOK, Position, Model
<1>2. cost_usd(Model, tokens) \in Nat /\ cost_paise(Model, tokens) \in Nat
  BY <1>1, PriceTypes
<1> QED
  BY <1>1, <1>2 DEF ReplyValid, TypeOK

(* A valid reply.                                                          *)
LEMMA ReplyTypeOK ==
  ASSUME TypeOK, NEW reply \in Replies, NEW tokens \in Tokens,
         ReplyValid(reply, tokens)
  PROVE  TypeOK'
<1>1. question \in Questions /\ tries \in Nat /\ consumed \in Nat
  BY DEF TypeOK, ReplyValid
<1>2. tries' \in Nat /\ consumed' \in Nat
  <2>1. tries' \in Nat
    BY <1>1 DEF ReplyValid, Tried
  <2>2. consumed' = consumed + cost_paise(Model, tokens)
    BY DEF ReplyValid
  <2>3. cost_paise(Model, tokens) \in Nat
    BY ReplyTypes
  <2> QED
    BY <1>1, <2>1, <2>2, <2>3
<1>3. answer' \in [by : Sources, diagnosis : Diagnosis]
  BY <1>1, AnswerTypes DEF ReplyValid, Answer, Sources
<1>4. cache' \in [Questions -> Replies \union {NoReply}]
  BY <1>1 DEF ReplyValid, TypeOK
<1>5. stats' \in [usd : Nat, paise : Nat] /\ lastCost' \in Nat
  BY ReplyTypes
<1> QED
  BY <1>1, <1>2, <1>3, <1>4, <1>5 DEF ReplyValid, TypeOK

(* Every step keeps the types.                                             *)
LEMMA NextTypeOK == TypeOK /\ [Next]_vars => TypeOK'
<1> SUFFICES ASSUME TypeOK, [Next]_vars PROVE TypeOK'
  OBVIOUS
<1>1. CASE UNCHANGED vars
  BY <1>1 DEF vars, TypeOK
<1>2. ASSUME NEW q \in Questions, Opening(q) PROVE TypeOK'
  <2>1. CASE Consult(q)
    <3>1. 1 \in 1 .. Len(Candidates)
      BY ModelsAssumption
    <3>2. Place(call')
      BY <2>1, <3>1, FirstPlace DEF Consult
    <3> QED
      BY <2>1, <3>2 DEF Consult, Asked, TypeOK, Place, disk
  <2>2. CASE CacheHit(q)
    <3>1. cache[q] \in Replies
      BY <2>2 DEF CacheHit, TypeOK
    <3> QED
      BY <2>2, <3>1, AnswerTypes, AtOnceTypeOK DEF CacheHit, Sources
  <2>3. CASE Recall(q) \/ NoSignal(q) \/ BudgetStop(q)
    BY <2>3, AnswerTypes, AtOnceTypeOK DEF Recall, NoSignal, BudgetStop, Sources
  <2> QED
    BY <1>2, <2>1, <2>2, <2>3 DEF Opening
<1>3. ASSUME NEW reply \in Replies, NEW tokens \in Tokens,
             ReplyValid(reply, tokens)
      PROVE  TypeOK'
  BY <1>3, ReplyTypeOK
<1>4. ASSUME NEW tokens \in Tokens, ReplyRejected(tokens) PROVE TypeOK'
  <2>1. Model \in DOMAIN Ladder /\ consumed \in Nat
    BY FirstPlace DEF TypeOK, Position, Model
  <2>2. consumed' \in Nat
    BY <1>4, <2>1, PriceTypes DEF ReplyRejected
  <2> QED
    BY <1>4, <2>2, ProceedTypeOK DEF ReplyRejected
<1>5. CASE FailsRetryable \/ FailsForGood
  <2>1. consumed' \in Nat /\ pc = "asking"
    BY <1>5 DEF FailsRetryable, FailsForGood, TypeOK
  <2> QED
    BY <1>5, <2>1, ProceedTypeOK DEF FailsRetryable, FailsForGood
<1>6. CASE AgentDrains
  BY <1>6 DEF AgentDrains, TypeOK, disk
<1>7. CASE EngineBooks
  <2>1. episodes < MaxEpisodes
    BY <1>7 DEF EngineBooks, TypeOK
  <2> QED
    BY <1>7, <2>1, MoneyAssumption DEF EngineBooks, TypeOK, disk
<1>8. CASE Finish \/ Killed
  BY <1>8, MoneyAssumption DEF Finish, Killed, NewRun, NoSpend, TypeOK
<1>9. CASE Over
  BY <1>1, <1>9 DEF Over
<1> QED
  BY <1>1, <1>2, <1>3, <1>4, <1>5, <1>6, <1>7, <1>8, <1>9
  DEF Next, Calling, Booking

(* Calls are only made from places of the ladder, and a diagnosis is only    *)
(* ever a diagnosis, whatever the models answer.                           *)
THEOREM DiagnoserTypeCorrect == Spec => []TypeOK
<1>1. Init => TypeOK
  BY InitTypeOK
<1>2. TypeOK /\ [Next]_vars => TypeOK'
  BY NextTypeOK
<1> QED
  BY <1>1, <1>2, PTL DEF Spec

-----------------------------------------------------------------------------
(* What a step is, once the types are known.                               *)

(* Every step books a reply, answers without one, or does not touch what     *)
(* was spent.                                                              *)
LEMMA StepCases ==
  ASSUME [Next]_vars
  PROVE  \/ \E reply \in Replies, tokens \in Tokens : ReplyValid(reply, tokens)
         \/ AgentDrains
         \/ EngineBooks
         \/ Finish \/ Killed
         \/ \E q \in Questions : Opening(q)
         \/ /\ pc = "asking"
            /\ \E to : Proceed(to)
         \/ UNCHANGED vars
  BY DEF Next, Calling, Booking, ReplyRejected, FailsRetryable, FailsForGood, Over

-----------------------------------------------------------------------------
(* Money.                                                                  *)

(* BookedOnce alone is not inductive: between episodes nothing may be left   *)
(* undrained, for the next question forgets it.                            *)
BooksInv ==
  /\ BookedOnce
  /\ pc \in {"idle", "asking", "drained"} => lastCost = 0
  /\ pc \in {"idle", "asking", "answered"} => agentCost = 0

(* Every step keeps the books.                                             *)
LEMMA NextBooks == TypeOK /\ BooksInv /\ [Next]_vars => BooksInv'
<1> SUFFICES ASSUME TypeOK, BooksInv, [Next]_vars PROVE BooksInv'
  OBVIOUS
<1> USE DEF BooksInv, BookedOnce
<1>1. /\ booked \in Nat /\ agentCost \in Nat /\ lastCost \in Nat
      /\ stats.paise \in Nat
  BY DEF TypeOK
<1>2. ASSUME NEW reply \in Replies, NEW tokens \in Tokens,
             ReplyValid(reply, tokens)
      PROVE  BooksInv'
  <2>1. /\ pc = "asking" /\ pc' = "answered"
        /\ agentCost' = agentCost /\ booked' = booked
    BY <1>2 DEF ReplyValid
  <2>2. /\ cost_paise(Model, tokens) \in Nat
        /\ lastCost' = cost_paise(Model, tokens)
        /\ stats'.paise = stats.paise + cost_paise(Model, tokens)
    BY <1>2, ReplyTypes
  <2> QED
    BY <1>1, <2>1, <2>2
<1>3. CASE AgentDrains
  BY <1>1, <1>3 DEF AgentDrains
<1>4. CASE EngineBooks
  BY <1>1, <1>4 DEF EngineBooks
<1>5. CASE Finish \/ Killed
  BY <1>5 DEF Finish, Killed, NewRun, NoSpend
<1>6. ASSUME NEW q \in Questions, Opening(q) PROVE BooksInv'
  BY <1>1, <1>6
  DEF Opening, Recall, NoSignal, CacheHit, BudgetStop, Consult, AnsweredAtOnce, Asked
<1>7. ASSUME NEW to, pc = "asking", Proceed(to) PROVE BooksInv'
  BY <1>7 DEF Proceed, money
<1>8. CASE UNCHANGED vars
  BY <1>8 DEF vars
<1> QED
  BY <1>2, <1>3, <1>4, <1>5, <1>6, <1>7, <1>8, StepCases

(* What a run spent is on the diagnoser, the agent or an episode, never on   *)
(* two of them and never lost between them.                                *)
THEOREM AlwaysBookedOnce == Spec => []BookedOnce
<1>1. Init => BooksInv
  BY DEF Init, BooksInv, BookedOnce, NoSpend
<1>2. TypeOK /\ BooksInv /\ [Next]_vars => BooksInv'
  BY NextBooks
<1>3. BooksInv => BookedOnce
  BY DEF BooksInv
<1> QED
  BY <1>1, <1>2, <1>3, DiagnoserTypeCorrect, PTL DEF Spec

(* BudgetHeld is not inductive: it needs that the models are only asked      *)
(* while the budget lasts.                                                 *)
BudgetInv ==
  /\ BudgetHeld
  /\ pc = "asking" => stats.usd < Budget

(* A reply costs at most what the dearest model asks for the most tokens.   *)
LEMMA DearestReply ==
  ASSUME NEW r \in Nat, NEW d \in Nat, NEW t \in Nat, NEW n \in Nat,
         r <= d, t <= n
  PROVE  r * t <= n * d
<1>1. r * t <= d * t
  BY SMT
<1>2. d * t <= d * n
  BY SMT
<1>3. d * n = n * d
  BY SMT
<1> QED
  BY <1>1, <1>2, <1>3, SMT

(* Every step keeps the budget.                                            *)
LEMMA NextBudget == TypeOK /\ BudgetInv /\ [Next]_vars => BudgetInv'
<1> SUFFICES ASSUME TypeOK, BudgetInv, [Next]_vars PROVE BudgetInv'
  OBVIOUS
<1>1. ASSUME NEW reply \in Replies, NEW tokens \in Tokens,
             ReplyValid(reply, tokens)
      PROVE  BudgetInv'
  <2>1. pc = "asking" /\ pc' = "answered"
    BY <1>1 DEF ReplyValid
  <2>2. ASSUME NEW m \in DOMAIN Ladder, \A n \in DOMAIN Ladder : Rate[n] <= Rate[m]
        PROVE  stats'.usd < Budget + MaxTokens * Rate[m]
    <3>1. /\ Model \in DOMAIN Ladder
          /\ cost_usd(Model, tokens) \in Nat
          /\ stats.usd \in Nat
          /\ stats'.usd = stats.usd + cost_usd(Model, tokens)
      BY <1>1, ReplyTypes
    <3>2. /\ Rate[Model] \in Nat /\ Rate[m] \in Nat /\ Rate[Model] <= Rate[m]
          /\ MaxTokens \in Nat /\ tokens \in Nat /\ tokens <= MaxTokens
          /\ Budget \in Nat
      BY <2>2, <3>1, MoneyAssumption
    <3>3. cost_usd(Model, tokens) <= MaxTokens * Rate[m]
      BY <3>2, DearestReply DEF cost_usd
    <3>4. MaxTokens * Rate[m] \in Nat
      BY <3>2
    <3>5. stats.usd < Budget
      BY <2>1 DEF BudgetInv
    <3> HIDE DEF cost_usd
    <3> QED
      BY <3>1, <3>2, <3>3, <3>4, <3>5
  <2> QED
    BY <2>1, <2>2 DEF BudgetInv, BudgetHeld
<1>2. CASE AgentDrains \/ EngineBooks
  BY <1>2 DEF AgentDrains, EngineBooks, BudgetInv, BudgetHeld
<1>3. CASE Finish \/ Killed
  BY <1>3 DEF Finish, Killed, NewRun, NoSpend, BudgetInv, BudgetHeld
<1>4. ASSUME NEW q \in Questions, Opening(q) PROVE BudgetInv'
  <2>1. stats' = stats /\ (pc' = "asking" => ~ Exhausted)
    BY <1>4
    DEF Opening, Recall, NoSignal, CacheHit, BudgetStop, Consult, AnsweredAtOnce, Asked
  <2>2. ~ Exhausted => stats.usd < Budget
    BY MoneyAssumption DEF Exhausted, TypeOK
  <2> QED
    BY <2>1, <2>2 DEF BudgetInv, BudgetHeld
<1>5. ASSUME NEW to, pc = "asking", Proceed(to) PROVE BudgetInv'
  BY <1>5 DEF Proceed, money, BudgetInv, BudgetHeld
<1>6. CASE UNCHANGED vars
  BY <1>6 DEF vars, BudgetInv, BudgetHeld
<1> QED
  BY <1>1, <1>2, <1>3, <1>4, <1>5, <1>6, StepCases

(* A run's books pass its budget by less than the dearest reply, however     *)
(* many models, modes, retries and attempts there are.                     *)
THEOREM BudgetAlwaysHeld == Spec => []BudgetHeld
<1>1. Init => BudgetInv
  BY DEF Init, BudgetInv, BudgetHeld, NoSpend
<1>2. TypeOK /\ BudgetInv /\ [Next]_vars => BudgetInv'
  BY NextBudget
<1>3. BudgetInv => BudgetHeld
  BY DEF BudgetInv
<1> QED
  BY <1>1, <1>2, <1>3, DiagnoserTypeCorrect, PTL DEF Spec

-----------------------------------------------------------------------------
(* The cache.                                                              *)

(* AnswersKept is not inductive: it needs that the models are only asked     *)
(* what the cache does not answer.                                         *)
CacheInv ==
  /\ AnswersKept
  /\ pc = "asking" => cache[question] = NoReply

(* Every step keeps what was saved.                                        *)
LEMMA NextCache == TypeOK /\ CacheInv /\ [Next]_vars => CacheInv'
<1> SUFFICES ASSUME TypeOK, CacheInv, [Next]_vars PROVE CacheInv'
  OBVIOUS
<1> USE DEF CacheInv, AnswersKept
<1>1. ASSUME NEW reply \in Replies, NEW tokens \in Tokens,
             ReplyValid(reply, tokens)
      PROVE  CacheInv'
  <2>1. pc = "asking" /\ pc' = "answered" /\ file' = file
        /\ cache' = [cache EXCEPT ![question] = reply]
    BY <1>1 DEF ReplyValid
  <2>2. cache \in [Questions -> Replies \union {NoReply}]
        /\ file[question] = NoReply /\ question \in Questions
    BY <2>1 DEF TypeOK
  <2> QED
    BY <2>1, <2>2
<1>2. CASE AgentDrains \/ EngineBooks
  BY <1>2 DEF AgentDrains, EngineBooks, disk
<1>3. CASE Finish \/ Killed
  BY <1>3 DEF Finish, Killed, NewRun
<1>4. ASSUME NEW q \in Questions, Opening(q) PROVE CacheInv'
  BY <1>4
  DEF Opening, Recall, NoSignal, CacheHit, BudgetStop, Consult, Missed,
      AnsweredAtOnce, Asked, disk
<1>5. ASSUME NEW to, pc = "asking", Proceed(to) PROVE CacheInv'
  BY <1>5 DEF Proceed, disk
<1>6. CASE UNCHANGED vars
  BY <1>6 DEF vars
<1> QED
  BY <1>1, <1>2, <1>3, <1>4, <1>5, <1>6, StepCases

(* A question answered in a run that saved its cache has that answer in      *)
(* every run after it, killed ones between them or not.                    *)
THEOREM AnswersAlwaysKept == Spec => []AnswersKept
<1>1. Init => CacheInv
  BY DEF Init, CacheInv, AnswersKept
<1>2. TypeOK /\ CacheInv /\ [Next]_vars => CacheInv'
  BY NextCache
<1>3. CacheInv => AnswersKept
  BY DEF CacheInv
<1> QED
  BY <1>1, <1>2, <1>3, DiagnoserTypeCorrect, PTL DEF Spec

-----------------------------------------------------------------------------
(* Calls.  The places of the ladder are finitely many, each way on from a    *)
(* place leads to one further down, and no call is made from one place     *)
(* twice: so the calls made are no more than the places already passed.    *)

Places == {at \in Position : at.rung <= Ladder[Candidates[at.candidate]]}

(* Further up the ladder: an earlier model, mode, retry or attempt. *)
Precedes(a, b) ==
  \/ a.candidate < b.candidate
  \/ /\ a.candidate = b.candidate
     /\ \/ a.rung < b.rung
        \/ /\ a.rung = b.rung
           /\ \/ a.retry < b.retry
              \/ a.retry = b.retry /\ a.inner < b.inner

Passed(at) == {b \in Places : Precedes(b, at)}

LEMMA PlacesFinite == IsFiniteSet(Places)
<1> DEFINE A == 1 .. Len(Candidates)
           B == 1 .. 3
           C == 1 .. MaxRetries + 1
           D == 1 .. Attempts
           P == (A \X B) \X (C \X D)
           f == [x \in P |-> [candidate |-> x[1][1], rung |-> x[1][2],
                              retry |-> x[2][1], inner |-> x[2][2]]]
<1>1. IsFiniteSet(A) /\ IsFiniteSet(B) /\ IsFiniteSet(C) /\ IsFiniteSet(D)
  <2>1. /\ Len(Candidates) \in Int /\ 3 \in Int
        /\ MaxRetries + 1 \in Int /\ Attempts \in Int
    BY ModelsAssumption
  <2>2. \A n \in Int : IsFiniteSet(1 .. n)
    BY FS_Interval
  <2> QED
    BY <2>1, <2>2, Zenon
<1>2. Position = [candidate : A, rung : B, retry : C, inner : D]
  BY DEF Position
<1> HIDE DEF A, B, C, D
<1>3. IsFiniteSet(A \X B) /\ IsFiniteSet(C \X D)
  BY <1>1, FS_Product
<1>4. IsFiniteSet(P)
  BY <1>3, FS_Product
<1>5. f \in [P -> Position]
  BY <1>2
<1>6. ASSUME NEW at \in Position PROVE \E x \in P : f[x] = at
  <2> DEFINE x == <<<<at.candidate, at.rung>>, <<at.retry, at.inner>>>>
  <2>1. x \in P
    BY <1>2
  <2>2. f[x] = [candidate |-> at.candidate, rung |-> at.rung,
                retry |-> at.retry, inner |-> at.inner]
    BY <2>1
  <2>3. f[x] = at
    BY <1>2, <2>2
  <2> QED
    BY <2>1, <2>3
<1>7. f \in Surjection(P, Position)
  BY <1>5, <1>6 DEF Surjection
<1>8. IsFiniteSet(Position)
  BY <1>4, <1>7, FS_Surjection
<1> QED
  BY <1>8, FS_Subset DEF Places

(* Each way on from a place leads further down.                            *)
LEMMA OnwardsIsDown ==
  ASSUME NEW at \in Places,
         NEW to \in {NextRung(at), NextRetry(at), NextAttempt(at)}
  PROVE  /\ Precedes(at, to)
         /\ to.candidate \in Nat /\ to.rung \in Nat
         /\ to.retry \in Nat /\ to.inner \in Nat
<1>1. /\ at \in Position
      /\ at.candidate \in Nat /\ at.rung \in Nat /\ at.retry \in Nat /\ at.inner \in Nat
      /\ at = [candidate |-> at.candidate, rung |-> at.rung,
               retry |-> at.retry, inner |-> at.inner]
  BY DEF Places, Position
<1>2. \/ to = [candidate |-> at.candidate + 1, rung |-> 1, retry |-> 1, inner |-> 1]
      \/ to = [candidate |-> at.candidate, rung |-> at.rung + 1, retry |-> 1, inner |-> 1]
      \/ to = [candidate |-> at.candidate, rung |-> at.rung,
               retry |-> at.retry + 1, inner |-> 1]
      \/ to = [candidate |-> at.candidate, rung |-> at.rung,
               retry |-> at.retry, inner |-> at.inner + 1]
  BY <1>1 DEF NextRung, NextRetry, NextAttempt, NextCandidate
<1> QED
  BY <1>1, <1>2 DEF Precedes

(* So one place more has been passed.                                      *)
LEMMA OneMorePassed ==
  ASSUME NEW at \in Places, NEW to,
         to.candidate \in Nat, to.rung \in Nat, to.retry \in Nat, to.inner \in Nat,
         Precedes(at, to)
  PROVE  /\ Cardinality(Passed(at)) \in Nat
         /\ Cardinality(Passed(at)) + 1 <= Cardinality(Passed(to))
         /\ Cardinality(Passed(at)) + 1 <= Cardinality(Places)
<1>1. \A b \in Places : /\ b.candidate \in Nat /\ b.rung \in Nat
                        /\ b.retry \in Nat /\ b.inner \in Nat
  BY DEF Places, Position
<1>2. at \notin Passed(at)
  BY <1>1 DEF Passed, Precedes
<1>3. \A b \in Places : Precedes(b, at) => Precedes(b, to)
  BY <1>1 DEF Precedes
<1>4. Passed(at) \union {at} \in SUBSET Passed(to)
  BY <1>3 DEF Passed
<1>5. Passed(at) \in SUBSET Places /\ Passed(to) \in SUBSET Places
  BY DEF Passed
<1>6. IsFiniteSet(Passed(at)) /\ IsFiniteSet(Passed(to))
  BY <1>5, PlacesFinite, FS_Subset
<1>7. /\ IsFiniteSet(Passed(at) \union {at})
      /\ Cardinality(Passed(at) \union {at}) = Cardinality(Passed(at)) + 1
  BY <1>2, <1>6, FS_AddElement
<1>8. Cardinality(Passed(at) \union {at}) <= Cardinality(Passed(to))
  BY <1>4, <1>6, FS_Subset
<1>9. Cardinality(Passed(to)) <= Cardinality(Places)
  BY <1>5, PlacesFinite, FS_Subset
<1>10. /\ Cardinality(Passed(at)) \in Nat /\ Cardinality(Passed(to)) \in Nat
       /\ Cardinality(Places) \in Nat
  BY <1>6, PlacesFinite, FS_CardinalityType
<1> QED
  BY <1>7, <1>8, <1>9, <1>10

(* The calls made so far came from places already passed.                  *)
CallsInv ==
  /\ CallsBounded
  /\ pc = "asking" => tries <= Cardinality(Passed(call))

(* Every step makes at most one call, from a place not called from before.  *)
LEMMA NextCalls == TypeOK /\ CallsInv /\ [Next]_vars => CallsInv'
<1> SUFFICES ASSUME TypeOK, CallsInv, [Next]_vars PROVE CallsInv'
  OBVIOUS
<1>1. MaxCalls = Cardinality(Places) /\ MaxCalls \in Nat
  BY PlacesFinite, FS_CardinalityType DEF MaxCalls, Places
<1>2. tries \in Nat /\ call \in Places /\ tries <= MaxCalls
  BY DEF TypeOK, Places, CallsInv, CallsBounded
<1>3. \A at : Cardinality(Passed(at)) \in Nat
  <2>1. \A at : IsFiniteSet(Passed(at))
    BY PlacesFinite, FS_Subset DEF Passed
  <2> QED
    BY <2>1, FS_CardinalityType
<1>4. CASE UNCHANGED vars
  BY <1>4 DEF vars, CallsInv, CallsBounded
<1>5. ASSUME NEW q, Opening(q) PROVE CallsInv'
  BY <1>1, <1>2, <1>3, <1>5
  DEF Opening, Recall, NoSignal, CacheHit, BudgetStop, Consult, AnsweredAtOnce,
      CallsInv, CallsBounded
<1>6. ASSUME NEW to \in {NextRung(call), NextRetry(call), NextAttempt(call)},
             pc = "asking", Proceed(to)
      PROVE  CallsInv'
  <2>1. /\ Cardinality(Passed(call)) \in Nat
        /\ Cardinality(Passed(call)) + 1 <= Cardinality(Passed(to))
        /\ Cardinality(Passed(call)) + 1 <= MaxCalls
    BY <1>1, <1>2, OnwardsIsDown, OneMorePassed
  <2>2. tries' = tries + 1 /\ tries <= Cardinality(Passed(call))
    BY <1>2, <1>6 DEF Proceed, Tried, CallsInv
  <2>3. tries' <= MaxCalls /\ tries' <= Cardinality(Passed(to))
    BY <1>1, <1>2, <1>3, <2>1, <2>2
  <2> QED
    BY <1>6, <2>3 DEF Proceed, CallsInv, CallsBounded
<1>7. ASSUME NEW reply, NEW tokens, ReplyValid(reply, tokens) PROVE CallsInv'
  <2> DEFINE to == NextAttempt(call)
  <2>1. Cardinality(Passed(call)) \in Nat /\ Cardinality(Passed(call)) + 1 <= MaxCalls
    BY <1>1, <1>2, OnwardsIsDown, OneMorePassed
  <2>2. tries' = tries + 1 /\ tries <= Cardinality(Passed(call))
    BY <1>2, <1>7 DEF ReplyValid, Tried, CallsInv
  <2>3. tries' <= MaxCalls
    BY <1>1, <1>2, <2>1, <2>2
  <2> QED
    BY <1>7, <2>3 DEF ReplyValid, CallsInv, CallsBounded
<1>8. CASE Calling
  BY <1>6, <1>7, <1>8 DEF Calling, ReplyRejected, FailsRetryable, FailsForGood
<1>9. CASE Booking \/ Over
  BY <1>1, <1>9, <1>4 DEF Booking, AgentDrains, EngineBooks, Over, CallsInv, CallsBounded
<1>10. CASE Finish \/ Killed
  BY <1>1, <1>10 DEF Finish, Killed, NewRun, CallsInv, CallsBounded
<1> QED
  BY <1>4, <1>5, <1>8, <1>9, <1>10 DEF Next

(* Retries inside attempts inside modes inside models, and still a question *)
(* is asked no more often than the ladder has places, whatever its size.   *)
THEOREM CallsAlwaysBounded == Spec => []CallsBounded
<1>1. MaxCalls \in Nat
  BY PlacesFinite, FS_CardinalityType DEF MaxCalls, Places
<1>2. Init => CallsInv
  BY <1>1 DEF Init, CallsInv, CallsBounded
<1>3. TypeOK /\ CallsInv /\ [Next]_vars => CallsInv'
  BY NextCalls
<1>4. CallsInv => CallsBounded
  BY DEF CallsInv
<1> QED
  BY <1>2, <1>3, <1>4, DiagnoserTypeCorrect, PTL DEF Spec
=============================================================================
