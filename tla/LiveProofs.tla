----------------------------- MODULE LiveProofs -----------------------------
(***************************************************************************)
(* Theorems about the live service, for any workers, stores, references,   *)
(* requests, events and number of faults.                                  *)
(***************************************************************************)
EXTENDS LiveSafety, TLAPS

-----------------------------------------------------------------------------
(* Type correctness.                                                       *)

LEMMA EpisodeFields ==
  ASSUME NEW episode \in LiveEpisode
  PROVE  /\ episode # NoEpisode
         /\ episode.state \in {"waiting", "suppressed", "failed", "recovered",
                               "partially_recovered", "escalated"}
         /\ episode.recovered \in Nat
         /\ episode.link \in Refs \union {NoLink}
         /\ episode.seen \in SUBSET Events
  BY DEF LiveEpisode, NoEpisode

(* A request that has come as far as the actuator, and one with an episode. *)
LEMMA Diagnosed ==
  ASSUME TypeOK, NEW q \in Requests, req[q].pc \in {"diagnosed", "calling"}
  PROVE  /\ req[q].worker \in Workers
         /\ req[q] = [pc |-> req[q].pc, worker |-> req[q].worker]
  BY DEF TypeOK, Request

(* It is on its way into the store.                                        *)
Holds(q) == req[q].pc \in {"putting", "inserting", "updating"}

LEMMA Holding ==
  ASSUME TypeOK, NEW q \in Requests, Holds(q)
  PROVE  /\ req[q].worker \in Workers
         /\ req[q].episode \in LiveEpisode
         /\ req[q].pc = "putting" =>
              req[q] = [pc |-> "putting", worker |-> req[q].worker,
                        episode |-> req[q].episode]
  BY DEF TypeOK, Request, Holds

LEMMA OpenedType ==
  ASSUME NEW state \in {"waiting", "suppressed", "failed"},
         NEW link \in Refs \union {NoLink}
  PROVE  Opened(state, link) \in LiveEpisode
  BY DEF Opened, LiveEpisode

(* A request moves from one of its places to the next.                     *)
LEMMA PuttingType ==
  ASSUME TypeOK, NEW q \in Requests, req[q].pc \in {"diagnosed", "calling"},
         NEW episode \in LiveEpisode, Putting(q, episode)
  PROVE  /\ req' \in [Requests -> Request]
         /\ req'[q] = [pc |-> "putting", worker |-> req[q].worker, episode |-> episode]
         /\ \A p \in Requests \ {q} : req'[p] = req[p]
<1>1. [pc |-> "putting", worker |-> req[q].worker, episode |-> episode] \in Request
  BY Diagnosed DEF Request
<1> QED
  BY <1>1 DEF Putting, TypeOK

LEMMA ActuatedType ==
  ASSUME TypeOK, NEW q \in Requests, req[q].pc \in {"diagnosed", "calling"},
         NEW result \in Refs \union {Failed}, Actuated(q, result)
  PROVE  \E episode \in LiveEpisode :
           /\ Putting(q, episode)
           /\ \/ episode = Opened("failed", NoLink)
              \/ result # Failed /\ episode = Opened("waiting", result)
<1>1. CASE result = Failed
  BY <1>1, OpenedType DEF Actuated, StateOpened
<1>2. CASE result # Failed
  BY <1>2, OpenedType DEF Actuated, StateOpened
<1> QED
  BY <1>1, <1>2

LEMMA EventFields ==
  ASSUME NEW e \in Events
  PROVE  /\ e.kind \in {"paid", "failed", "halted", "other"}
         /\ e.ref \in Refs
         /\ e.amount \in Nat
  BY EventsAssumption DEF Event

(* apply_event returns an episode, and a terminal one as it was.           *)
LEMMA AppliedType ==
  ASSUME NEW episode \in LiveEpisode, NEW e \in Events
  PROVE  /\ Applied(episode, e) \in LiveEpisode
         /\ Terminal(episode) => Applied(episode, e) = episode
         /\ Applied(episode, e).seen = episode.seen
         /\ e.kind = "paid" => Terminal(Applied(episode, e))
<1>1. CASE Refuses(episode, e)
  BY <1>1 DEF Applied, Refuses
<1>2. CASE ~ Refuses(episode, e) /\ e.kind = "paid"
  <2> DEFINE total == episode.recovered + e.amount
             state == IF total >= Amount[e.ref] THEN "recovered" ELSE "partially_recovered"
  <2>1. Applied(episode, e) = [episode EXCEPT !.recovered = total, !.state = state]
    BY <1>2 DEF Applied
  <2>2. total \in Nat /\ state \in {"recovered", "partially_recovered"}
    BY EpisodeFields, EventFields
  <2> HIDE DEF total, state
  <2>3. /\ Applied(episode, e) \in LiveEpisode
        /\ Applied(episode, e).state = state
        /\ Applied(episode, e).seen = episode.seen
    BY <2>1, <2>2 DEF LiveEpisode
  <2> QED
    BY <1>2, <2>2, <2>3 DEF Refuses, Terminal, TERMINAL_STATES
<1>3. CASE ~ Refuses(episode, e) /\ e.kind # "paid"
  <2>1. Applied(episode, e) \in
          {episode, [episode EXCEPT !.state = "waiting"],
           [episode EXCEPT !.state = "escalated"]}
    BY <1>3, EventFields DEF Applied
  <2> QED
    BY <1>3, <2>1 DEF LiveEpisode, Refuses
<1> QED
  BY <1>1, <1>2, <1>3

(* What is flushed is an episode, whatever was read; of what the row still   *)
(* is, it is the episode put.                                              *)
LEMMA FlushedType ==
  ASSUME NEW row \in LiveEpisode, NEW episode \in LiveEpisode, NEW read
  PROVE  /\ Flushed(row, read, episode) \in LiveEpisode
         /\ Flushed(row, read, episode).state \in {row.state, episode.state}
         /\ Flushed(row, read, episode).recovered \in {row.recovered, episode.recovered}
         /\ Flushed(row, read, episode).link \in {row.link, episode.link}
         /\ Flushed(row, read, episode).seen = row.seen
         /\ read = row =>
              /\ Flushed(row, read, episode).state = episode.state
              /\ Flushed(row, read, episode).recovered = episode.recovered
              /\ Flushed(row, read, episode).link = episode.link
  BY DEF Flushed, LiveEpisode

(* What the handlers in progress hold.  TypeOK says less: that an idle       *)
(* handler holds something is allowed by it.                               *)
Staffed ==
  /\ \A q \in Requests : InProgress(q) => req[q].worker \in setup.workers
  /\ \A w \in Workers : hook[w].pc # "idle" =>
       /\ w \in setup.workers
       /\ hook[w].event \in Events
       /\ mail[hook[w].event] # "unsent"
       /\ hook[w].held \in LiveEpisode

(* An episode that is put knows no payment and no event.                   *)
Fresh(episode) ==
  /\ episode.state \in {"waiting", "suppressed", "failed"}
  /\ episode.recovered = 0
  /\ episode.seen = {}

PutsFresh == \A q \in Requests : Holds(q) => Fresh(req[q].episode)

(* What is updated is there: only the in-memory store forgets an episode,   *)
(* and no handler survives that.                                           *)
RowsStay ==
  /\ \A q \in Requests :
       req[q].pc = "updating" => setup.durable /\ store[RefOf(q)] # NoEpisode
  /\ \A w \in Workers :
       /\ hook[w].pc # "idle" => store[hook[w].event.ref] # NoEpisode
       /\ hook[w].pc = "putting" => setup.durable

TypeInv == TypeOK /\ Staffed /\ PutsFresh /\ RowsStay

LEMMA InitType == Init => TypeInv
  BY RefsAssumption, SetupsAssumption
  DEF Init, TypeInv, TypeOK, Staffed, PutsFresh, RowsStay, Holds, Request, IdleRequest,
      IdleHook, NoEpisode, NoEvent, Setup, InProgress

LEMMA AcceptType ==
  ASSUME TypeOK, NEW q \in Requests, NEW w \in Workers, Accept(q, w)
  PROVE  TypeOK'
<1>1. {[pc |-> "diagnosed", worker |-> w], Answered} \subseteq Request
  BY DEF Request, Answered
<1>2. req' \in [Requests -> Request]
  BY <1>1 DEF Accept, TypeOK
<1> QED
  BY <1>2 DEF Accept, TypeOK

(* What a request does before its episode is written.                      *)
LEMMA ActuationType ==
  ASSUME TypeOK, NEW q \in Requests,
         Suppress(q) \/ NothingActuated(q) \/ LookUp(q) \/ CreatePaymentLink(q)
  PROVE  TypeOK'
<1>1. CASE Suppress(q)
  <2>1. req' \in [Requests -> Request]
    BY <1>1, PuttingType, OpenedType DEF Suppress
  <2> QED
    BY <1>1, <2>1 DEF Suppress, TypeOK
<1>2. CASE NothingActuated(q)
  <2>1. req' \in [Requests -> Request]
    BY <1>2, PuttingType, OpenedType DEF NothingActuated
  <2> QED
    BY <1>2, <2>1 DEF NothingActuated, TypeOK
<1>3. CASE LookUp(q)
  <2> DEFINE known == ledger[req[q].worker][RefOf(q)]
  <2>1. req[q].pc = "diagnosed" /\ RefOf(q) \in Refs /\ req[q].worker \in Workers
    BY <1>3, Diagnosed, RequestsAssumption DEF LookUp
  <2>2. known \in Refs \union {NoResult, Failed}
    BY <2>1 DEF TypeOK
  <2>3. CASE known = NoResult
    <3>1. [req[q] EXCEPT !.pc = "calling"] \in Request
      <4> DEFINE record == req[q]
      <4>1. record = [pc |-> "diagnosed", worker |-> req[q].worker]
        BY <2>1, Diagnosed
      <4>2. [record EXCEPT !.pc = "calling"] = [pc |-> "calling", worker |-> req[q].worker]
        BY <4>1
      <4> QED
        BY <2>1, <4>2 DEF Request
    <3>2. req' = [req EXCEPT ![q] = [req[q] EXCEPT !.pc = "calling"]]
      BY <1>3, <2>3 DEF LookUp
    <3> QED
      BY <1>3, <3>1, <3>2 DEF LookUp, TypeOK
  <2>4. CASE known # NoResult
    <3>1. Actuated(q, known)
      BY <1>3, <2>4 DEF LookUp
    <3>2. req' \in [Requests -> Request]
      BY <2>1, <2>2, <2>4, <3>1, ActuatedType, PuttingType
    <3> QED
      BY <1>3, <3>2 DEF LookUp, TypeOK
  <2> QED
    BY <2>3, <2>4
<1>4. CASE CreatePaymentLink(q)
  <2>1. PICK outcome \in CallOutcomes(RefOf(q)) :
          /\ links' = outcome.links
          /\ ledger' = [ledger EXCEPT ![req[q].worker][RefOf(q)] = outcome.result]
          /\ Actuated(q, outcome.result)
    BY <1>4 DEF CreatePaymentLink
  <2>2. req[q].pc = "calling" /\ RefOf(q) \in Refs /\ req[q].worker \in Workers
    BY <1>4, Diagnosed, RequestsAssumption DEF CreatePaymentLink
  <2>3. outcome.links \subseteq Refs /\ outcome.result \in Refs \union {Failed}
    BY <2>2 DEF CallOutcomes, TypeOK
  <2>4. req' \in [Requests -> Request]
    BY <2>1, <2>2, <2>3, ActuatedType, PuttingType
  <2>5. ledger' \in [Workers -> [Refs -> Refs \union {NoResult, Failed}]]
    BY <2>1, <2>2, <2>3 DEF TypeOK
  <2> QED
    BY <1>4, <2>1, <2>3, <2>4, <2>5 DEF CreatePaymentLink, TypeOK
<1> QED
  BY <1>1, <1>2, <1>3, <1>4

(* What a request puts: the episode it holds, or its changed columns.      *)
PutOf(q) ==
  IF req[q].pc = "updating" THEN Flushed(store[RefOf(q)], req[q].row, req[q].episode)
                            ELSE req[q].episode

(* A put writes once and ends, fails and ends, or goes on with its episode. *)
Writes(q) ==
  /\ PutOf(q) \in LiveEpisode
  /\ store' = [store EXCEPT ![RefOf(q)] = PutOf(q)]
  /\ req'[q] = Answered

GoesOn(q) ==
  /\ store' = store
  /\ req'[q].pc \in {"inserting", "updating"}
  /\ req'[q].pc = "updating" => setup.durable /\ store[RefOf(q)] # NoEpisode
  /\ req'[q].worker = req[q].worker
  /\ req'[q].episode = req[q].episode

LEMMA Puts ==
  ASSUME TypeOK, RowsStay, NEW q \in Requests, StoreOpened(q) \/ Update(q) \/ Insert(q)
  PROVE  /\ Holds(q)
         /\ req' \in [Requests -> Request]
         /\ \A p \in Requests \ {q} : req'[p] = req[p]
         /\ UNCHANGED <<setup, deliveries, ledger, links, hook, mail, faults>>
         /\ Writes(q) \/ (store' = store /\ req'[q] = IdleRequest) \/ GoesOn(q)
<1>1. RefOf(q) \in Refs
  BY RequestsAssumption
<1>2. {Answered, IdleRequest} \subseteq Request
  BY DEF Request, Answered, IdleRequest
<1>3. ASSUME Holds(q), NEW episode, Written(q, episode)
      PROVE  /\ req' \in [Requests -> Request]
             /\ \A p \in Requests \ {q} : req'[p] = req[p]
             /\ req'[q] = Answered
             /\ store' = [store EXCEPT ![RefOf(q)] = episode]
  BY <1>2, <1>3 DEF Written, TypeOK
<1>4. ASSUME NEW record \in Request, req' = [req EXCEPT ![q] = record]
      PROVE  /\ req' \in [Requests -> Request]
             /\ \A p \in Requests \ {q} : req'[p] = req[p]
             /\ req'[q] = record
  BY <1>4 DEF TypeOK
<1>5. CASE StoreOpened(q) /\ ~ setup.durable
  BY <1>3, <1>5, Holding DEF StoreOpened, Holds, Writes, PutOf
<1>6. CASE StoreOpened(q) /\ setup.durable /\ store[RefOf(q)] = NoEpisode
  <2> DEFINE record == [pc |-> "inserting", worker |-> req[q].worker,
                        episode |-> req[q].episode]
  <2>1. req[q].pc = "putting" /\ Holds(q)
    BY <1>6 DEF StoreOpened, Holds
  <2>2. record \in Request
    BY <2>1, Holding DEF Request
  <2>3. [req[q] EXCEPT !.pc = "inserting"] = record
    <3>1. req[q] = [pc |-> "putting", worker |-> req[q].worker, episode |-> req[q].episode]
      BY <2>1, Holding
    <3> QED  BY <3>1
  <2>4. req' = [req EXCEPT ![q] = [req[q] EXCEPT !.pc = "inserting"]]
    BY <1>6 DEF StoreOpened
  <2>5. req' = [req EXCEPT ![q] = record]
    BY <2>3, <2>4
  <2>6. req'[q] = record /\ req' \in [Requests -> Request]
          /\ \A p \in Requests \ {q} : req'[p] = req[p]
    <3> HIDE DEF record
    <3> QED  BY <1>4, <2>2, <2>5
  <2> QED
    BY <1>6, <2>1, <2>6 DEF StoreOpened, GoesOn
<1>7. CASE StoreOpened(q) /\ setup.durable /\ store[RefOf(q)] # NoEpisode
  <2> DEFINE record == [pc |-> "updating", worker |-> req[q].worker,
                        episode |-> req[q].episode, row |-> store[RefOf(q)]]
  <2>1. Holds(q)
    BY <1>7 DEF StoreOpened, Holds
  <2>2. store[RefOf(q)] \in LiveEpisode
    BY <1>1, <1>7 DEF TypeOK
  <2>3. record \in Request
    BY <2>1, <2>2, Holding DEF Request
  <2>4. req' = [req EXCEPT ![q] = record]
    BY <1>7 DEF StoreOpened
  <2>5. req'[q] = record /\ req' \in [Requests -> Request]
          /\ \A p \in Requests \ {q} : req'[p] = req[p]
    <3> HIDE DEF record
    <3> QED  BY <1>4, <2>3, <2>4
  <2> QED
    BY <1>7, <2>1, <2>5 DEF StoreOpened, GoesOn
<1>8. CASE Update(q)
  <2>1. Holds(q) /\ req[q].pc = "updating"
    BY <1>8 DEF Update, Holds
  <2>2. store[RefOf(q)] \in LiveEpisode /\ req[q].episode \in LiveEpisode
    BY <1>1, <2>1, Holding DEF RowsStay, TypeOK
  <2>3. PutOf(q) \in LiveEpisode /\ Written(q, PutOf(q))
    BY <1>8, <2>1, <2>2, FlushedType DEF Update, PutOf
  <2> QED
    BY <1>3, <1>8, <2>1, <2>3 DEF Update, Writes
<1>9. CASE Insert(q)
  <2>1. Holds(q) /\ req[q].pc = "inserting" /\ PutOf(q) = req[q].episode
    BY <1>9 DEF Insert, Holds, PutOf
  <2>2. CASE store[RefOf(q)] = NoEpisode
    BY <1>3, <1>9, <2>1, <2>2, Holding DEF Insert, Writes
  <2>3. CASE store[RefOf(q)] # NoEpisode
    BY <1>2, <1>4, <1>9, <2>1, <2>3 DEF Insert
  <2> QED
    BY <1>9, <2>1, <2>2, <2>3 DEF Insert
<1> QED
  BY <1>5, <1>6, <1>7, <1>8, <1>9

LEMMA PutType ==
  ASSUME TypeOK, RowsStay, NEW q \in Requests, StoreOpened(q) \/ Update(q) \/ Insert(q)
  PROVE  TypeOK'
<1>1. store' \in [Refs -> LiveEpisode \union {NoEpisode}]
  BY Puts DEF Writes, GoesOn, TypeOK
<1> QED
  BY <1>1, Puts DEF TypeOK

LEMMA AnswerType ==
  ASSUME TypeOK, NEW e \in Events, Answer(e), setup' = setup
  PROVE  /\ mail' \in [Events -> {"unsent", "pending", "acked"}]
         /\ faults' \in 0 .. setup'.faults
         /\ \A f \in Events : mail[f] # "unsent" => mail'[f] # "unsent"
<1>1. setup.faults \in Nat
  BY SetupsAssumption DEF TypeOK, Setup
<1> QED
  BY <1>1 DEF Answer, TypeOK

LEMMA EmitType ==
  ASSUME TypeOK, NEW e \in Events, Emit(e)
  PROVE  TypeOK'
  BY DEF Emit, TypeOK

(* Where a handler may be.                                                 *)
Hook ==
  [pc : {"idle", "matched", "claimed", "putting"}, event : Events \union {NoEvent},
   held : LiveEpisode \union {NoEpisode}, row : LiveEpisode \union {NoEpisode}]

LEMMA IdleHookType == IdleHook \in Hook
  BY DEF IdleHook, Hook

LEMMA HandleType ==
  ASSUME TypeOK, Staffed, RowsStay, NEW w \in Workers, Handle(w)
  PROVE  TypeOK'
<1>h. hook \in [Workers -> Hook]
  BY DEF TypeOK, Hook
<1>1. ASSUME NEW e \in Events, Unmatched(w, e)
      PROVE  TypeOK'
  BY <1>1, AnswerType DEF Unmatched, TypeOK
<1>2. ASSUME NEW e \in Events, Match(w, e)
      PROVE  TypeOK'
  <2>1. store[e.ref] \in LiveEpisode /\ e.ref \in Refs
    BY <1>2, EventFields DEF Match, Matches, TypeOK
  <2>2. [pc |-> "matched", event |-> e, held |-> store[e.ref], row |-> NoEpisode] \in Hook
    BY <2>1 DEF Hook
  <2>3. hook' \in [Workers -> Hook]
    BY <1>2, <1>h, <2>2 DEF Match
  <2> QED
    BY <1>2, <2>3 DEF Match, TypeOK, Hook
<1>3. CASE Duplicate(w)
  <2>1. hook[w].event \in Events
    BY <1>3 DEF Duplicate, Staffed
  <2>2. hook' \in [Workers -> Hook]
    BY <1>3, <1>h, IdleHookType DEF Duplicate
  <2> QED
    BY <1>3, <2>1, <2>2, AnswerType DEF Duplicate, TypeOK, Hook
<1>4. CASE ClaimEvent(w)
  <2>1. hook[w].event \in Events /\ hook[w].event.ref \in Refs /\ hook[w].held \in LiveEpisode
    BY <1>4, EventFields DEF ClaimEvent, Staffed
  <2> DEFINE held == [hook[w].held EXCEPT !.seen = @ \union {hook[w].event}]
  <2>2. held \in LiveEpisode
    BY <2>1 DEF LiveEpisode
  <2>3. CASE setup.durable
    <3>1. hook' = [hook EXCEPT ![w].pc = "claimed"]
      BY <1>4, <2>3 DEF ClaimEvent
    <3>2. deliveries' = [deliveries EXCEPT ![hook[w].event.ref] = @ \union {hook[w].event}]
      BY <1>4, <2>3 DEF ClaimEvent
    <3>3. hook' \in [Workers -> Hook]
      BY <1>h, <3>1 DEF Hook
    <3>4. deliveries' \in [Refs -> SUBSET Events]
      BY <2>1, <3>2 DEF TypeOK
    <3> QED
      BY <1>4, <2>3, <3>3, <3>4 DEF ClaimEvent, TypeOK, Hook
  <2>4. CASE ~ setup.durable
    <3>1. hook' = [hook EXCEPT ![w].pc = "claimed", ![w].held.seen = @ \union {hook[w].event}]
      BY <1>4, <2>4 DEF ClaimEvent
    <3>2. hook' = [hook EXCEPT ![w] = [hook[w] EXCEPT !.pc = "claimed", !.held = held]]
      BY <3>1
    <3>3. [hook[w] EXCEPT !.pc = "claimed", !.held = held] \in Hook
      <4> HIDE DEF held
      <4> QED  BY <1>h, <2>2 DEF Hook
    <3>4. hook' \in [Workers -> Hook]
      BY <1>h, <3>2, <3>3
    <3> QED
      BY <1>4, <2>4, <3>4 DEF ClaimEvent, TypeOK, Hook
  <2> QED
    BY <2>3, <2>4
<1>5. CASE ApplyEvent(w)
  <2> DEFINE applied == Applied(hook[w].held, hook[w].event)
  <2>1. hook[w].event \in Events /\ hook[w].event.ref \in Refs /\ hook[w].held \in LiveEpisode
    BY <1>5, EventFields DEF ApplyEvent, Staffed
  <2>2. applied \in LiveEpisode
    BY <2>1, AppliedType
  <2> HIDE DEF applied
  <2>3. CASE ~ setup.durable
    <3>1. hook' \in [Workers -> Hook]
      BY <1>5, <1>h, <2>3, IdleHookType DEF ApplyEvent
    <3>2. store' = [store EXCEPT ![hook[w].event.ref] = applied]
      BY <1>5, <2>3 DEF ApplyEvent, applied
    <3> QED
      BY <1>5, <2>1, <2>2, <2>3, <3>1, <3>2, AnswerType DEF ApplyEvent, TypeOK, Hook
  <2>4. CASE setup.durable
    <3>1. hook' = [hook EXCEPT ![w] = [pc |-> "putting", event |-> hook[w].event,
                                       held |-> applied, row |-> store[hook[w].event.ref]]]
      BY <1>5, <2>4 DEF ApplyEvent, applied
    <3>2. [pc |-> "putting", event |-> hook[w].event, held |-> applied,
           row |-> store[hook[w].event.ref]] \in Hook
      BY <2>1, <2>2 DEF TypeOK, Hook
    <3>3. hook' \in [Workers -> Hook]
      BY <1>h, <3>1, <3>2
    <3> QED
      BY <1>5, <2>4, <3>3 DEF ApplyEvent, TypeOK, Hook
  <2> QED
    BY <2>3, <2>4
<1>6. CASE PutApplied(w)
  <2> DEFINE r == hook[w].event.ref
             flushed == Flushed(store[r], hook[w].row, hook[w].held)
  <2>1. hook[w].event \in Events /\ r \in Refs /\ hook[w].held \in LiveEpisode
    BY <1>6, EventFields DEF PutApplied, Staffed
  <2>2. store[r] \in LiveEpisode
    BY <1>6, <2>1 DEF PutApplied, RowsStay, TypeOK
  <2>3. flushed \in LiveEpisode
    BY <2>1, <2>2, FlushedType
  <2>4. store' = [store EXCEPT ![r] = flushed]
    BY <1>6 DEF PutApplied
  <2>5. hook' \in [Workers -> Hook]
    BY <1>6, <1>h, IdleHookType DEF PutApplied
  <2> HIDE DEF flushed
  <2> QED
    BY <1>6, <2>1, <2>3, <2>4, <2>5, AnswerType DEF PutApplied, TypeOK, Hook
<1> QED
  BY <1>1, <1>2, <1>3, <1>4, <1>5, <1>6 DEF Handle

LEMMA CrashType ==
  ASSUME TypeOK, NEW w \in Workers, Crash(w)
  PROVE  TypeOK'
<1>1. setup.faults \in Nat
  BY SetupsAssumption DEF TypeOK, Setup
<1>2. req' \in [Requests -> Request]
  BY DEF Crash, TypeOK, Request, IdleRequest
<1>3. ledger' \in [Workers -> [Refs -> Refs \union {NoResult, Failed}]]
  BY DEF Crash, TypeOK
<1>4. hook' \in [Workers -> Hook]
  BY IdleHookType DEF Crash, TypeOK, Hook
<1> QED
  BY <1>1, <1>2, <1>3, <1>4 DEF Crash, TypeOK, Hook

LEMMA StepType == TypeInv /\ [Next]_vars => TypeOK'
<1> SUFFICES ASSUME TypeInv, [Next]_vars
             PROVE  TypeOK'
  OBVIOUS
<1> USE DEF TypeInv
<1>1. CASE UNCHANGED vars
  BY <1>1 DEF vars, TypeOK
<1>2. ASSUME NEW q \in Requests, NEW w \in Workers, Accept(q, w)
      PROVE  TypeOK'
  BY <1>2, AcceptType
<1>3. ASSUME NEW q \in Requests, Serve(q)
      PROVE  TypeOK'
  BY <1>3, ActuationType, PutType DEF Serve
<1>4. ASSUME NEW e \in Events, Emit(e)
      PROVE  TypeOK'
  BY <1>4, EmitType
<1>5. ASSUME NEW w \in Workers, Handle(w) \/ Crash(w)
      PROVE  TypeOK'
  BY <1>5, HandleType, CrashType
<1> QED
  BY <1>1, <1>2, <1>3, <1>4, <1>5 DEF Next, Quiet

-----------------------------------------------------------------------------
(* How each kind of step moves a request and a handler.                    *)

(* Serving q touches no other request and no handler, keeps q's worker, and *)
(* holds a fresh episode if it holds one.                                  *)
Served(q) ==
  /\ InProgress(q)
  /\ \A p \in Requests \ {q} : req'[p] = req[p]
  /\ InProgress(q)' => req'[q].worker = req[q].worker
  /\ Holds(q)' => Fresh(req'[q].episode)
  /\ req'[q].pc = "updating" => setup.durable /\ store[RefOf(q)] # NoEpisode
  /\ \A r \in Refs : store[r] # NoEpisode => store'[r] # NoEpisode
  /\ UNCHANGED <<setup, deliveries, hook, mail, faults>>

LEMMA PuttingServes ==
  ASSUME TypeOK, NEW q \in Requests, req[q].pc \in {"diagnosed", "calling"},
         NEW episode \in LiveEpisode, Putting(q, episode), Fresh(episode),
         UNCHANGED <<setup, store, deliveries, hook, mail, faults>>
  PROVE  Served(q)
<1>1. req'[q] = [pc |-> "putting", worker |-> req[q].worker, episode |-> episode]
  BY PuttingType
<1>2. req'[q].worker = req[q].worker /\ req'[q].episode = episode
  BY <1>1
<1>3. \A p \in Requests \ {q} : req'[p] = req[p]
  BY PuttingType
<1> QED
  BY <1>1, <1>2, <1>3 DEF Served, InProgress, Holds

LEMMA OpenedFresh ==
  ASSUME NEW state \in {"waiting", "suppressed", "failed"}, NEW link
  PROVE  Fresh(Opened(state, link))
  BY DEF Fresh, Opened

LEMMA ActuatedServes ==
  ASSUME TypeOK, NEW q \in Requests, req[q].pc \in {"diagnosed", "calling"},
         NEW result \in Refs \union {Failed}, Actuated(q, result),
         UNCHANGED <<setup, store, deliveries, hook, mail, faults>>
  PROVE  Served(q)
  BY ActuatedType, PuttingServes, OpenedFresh

LEMMA ServeServes ==
  ASSUME TypeInv, NEW q \in Requests, Serve(q)
  PROVE  Served(q)
<1> USE DEF TypeInv
<1>1. CASE Suppress(q)
  BY <1>1, OpenedType, OpenedFresh, PuttingServes DEF Suppress
<1>2. CASE NothingActuated(q)
  BY <1>2, OpenedType, OpenedFresh, PuttingServes DEF NothingActuated
<1>3. CASE LookUp(q)
  <2> DEFINE known == ledger[req[q].worker][RefOf(q)]
  <2>1. req[q].pc = "diagnosed" /\ RefOf(q) \in Refs /\ req[q].worker \in Workers
    BY <1>3, Diagnosed, RequestsAssumption DEF LookUp
  <2>2. known \in Refs \union {NoResult, Failed}
    BY <2>1 DEF TypeOK
  <2>3. CASE known = NoResult
    <3>1. req' = [req EXCEPT ![q].pc = "calling"]
      BY <1>3, <2>3 DEF LookUp
    <3>2. req'[q].pc = "calling" /\ req'[q].worker = req[q].worker
      BY <2>1, <3>1, Diagnosed DEF TypeOK
    <3> QED
      BY <1>3, <2>1, <3>1, <3>2 DEF LookUp, Served, InProgress, Holds, TypeOK
  <2>4. CASE known # NoResult
    BY <1>3, <2>1, <2>2, <2>4, ActuatedServes DEF LookUp
  <2> QED
    BY <2>3, <2>4
<1>4. CASE CreatePaymentLink(q)
  <2>1. PICK outcome \in CallOutcomes(RefOf(q)) : Actuated(q, outcome.result)
    BY <1>4 DEF CreatePaymentLink
  <2>2. outcome.result \in Refs \union {Failed}
    BY RequestsAssumption DEF CallOutcomes
  <2> QED
    BY <1>4, <2>1, <2>2, ActuatedServes DEF CreatePaymentLink
<1>5. CASE StoreOpened(q) \/ Update(q) \/ Insert(q)
  <2>1. InProgress(q) /\ Holds(q)
    BY <1>5, Puts DEF Holds, InProgress
  <2>2. \A r \in Refs : store[r] # NoEpisode => store'[r] # NoEpisode
    BY <1>5, Puts, EpisodeFields DEF Writes, GoesOn, TypeOK
  <2>3. CASE req'[q] \in {Answered, IdleRequest}
    BY <1>5, <2>1, <2>2, <2>3, Puts
    DEF Served, InProgress, Holds, Answered, IdleRequest
  <2>4. CASE GoesOn(q)
    BY <1>5, <2>1, <2>2, <2>4, Puts DEF Served, GoesOn, InProgress, Holds, PutsFresh
  <2> QED
    BY <1>5, <2>3, <2>4, Puts DEF Writes
<1> QED
  BY <1>1, <1>2, <1>3, <1>4, <1>5 DEF Serve

(* Accepting q gives it to a worker, or answers it.                        *)
LEMMA Accepts ==
  ASSUME TypeOK, NEW q \in Requests, NEW w \in Workers, Accept(q, w)
  PROVE  /\ req[q].pc = "idle"
         /\ \A p \in Requests \ {q} : req'[p] = req[p]
         /\ \/ req'[q].pc = "answered"
            \/ /\ req'[q].pc = "diagnosed"
               /\ req'[q].worker = w
               /\ w \in setup.workers
               /\ store[RefOf(q)] = NoEpisode
               /\ setup.patient => Alone(q)
         /\ UNCHANGED <<setup, store, deliveries, ledger, links, hook, mail, faults>>
  BY DEF Accept, TypeOK, Answered

(* A handler moves alone, and forgets no news.                             *)
LEMMA Handles ==
  ASSUME TypeInv, NEW w \in Workers, Handle(w)
  PROVE  /\ \A v \in Workers \ {w} : hook'[v] = hook[v]
         /\ hook'[w].pc # "idle" =>
              /\ w \in setup.workers
              /\ hook'[w].event \in Events
              /\ mail[hook'[w].event] # "unsent"
         /\ \A e \in Events : mail[e] # "unsent" => mail'[e] # "unsent"
         /\ UNCHANGED <<setup, ledger, links, req>>
<1> USE DEF TypeInv
<1>1. ASSUME NEW e \in Events, Unmatched(w, e) \/ Match(w, e)
      PROVE  /\ \A v \in Workers \ {w} : hook'[v] = hook[v]
             /\ hook'[w].pc # "idle" =>
                  w \in setup.workers /\ hook'[w].event \in Events
                    /\ mail[hook'[w].event] # "unsent"
             /\ \A f \in Events : mail[f] # "unsent" => mail'[f] # "unsent"
  BY <1>1, AnswerType DEF Unmatched, Match, TypeOK
<1>2. ASSUME Duplicate(w) \/ ClaimEvent(w) \/ ApplyEvent(w) \/ PutApplied(w)
      PROVE  /\ \A v \in Workers \ {w} : hook'[v] = hook[v]
             /\ hook'[w].pc # "idle" =>
                  w \in setup.workers /\ hook'[w].event \in Events
                    /\ mail[hook'[w].event] # "unsent"
             /\ \A f \in Events : mail[f] # "unsent" => mail'[f] # "unsent"
  <2>1. /\ hook[w].pc # "idle" /\ hook[w].event \in Events
        /\ mail[hook[w].event] # "unsent" /\ w \in setup.workers
    BY <1>2 DEF Duplicate, ClaimEvent, ApplyEvent, PutApplied, Staffed
  <2>2. CASE Duplicate(w)
    BY <2>1, <2>2, AnswerType DEF Duplicate, TypeOK, IdleHook
  <2>3. CASE ClaimEvent(w)
    BY <2>1, <2>3 DEF ClaimEvent, TypeOK
  <2>4. CASE ApplyEvent(w)
    BY <2>1, <2>4, AnswerType DEF ApplyEvent, TypeOK, IdleHook
  <2>5. CASE PutApplied(w)
    BY <2>1, <2>5, AnswerType DEF PutApplied, TypeOK, IdleHook
  <2> QED
    BY <1>2, <2>2, <2>3, <2>4, <2>5
<1>3. UNCHANGED <<setup, ledger, links, req>>
  BY DEF Handle, Unmatched, Match, Duplicate, ClaimEvent, ApplyEvent, PutApplied
<1> QED
  BY <1>1, <1>2, <1>3 DEF Handle

(* A request writes once, and then what it puts.                           *)
LEMMA ServeStores ==
  ASSUME TypeInv, NEW q \in Requests, Serve(q)
  PROVE  \/ store' = store
         \/ /\ Holds(q)
            /\ req'[q] = Answered
            /\ PutOf(q) \in LiveEpisode
            /\ store'[RefOf(q)] = PutOf(q)
            /\ \A r \in Refs \ {RefOf(q)} : store'[r] = store[r]
            /\ links' = links
<1>1. CASE StoreOpened(q) \/ Update(q) \/ Insert(q)
  BY <1>1, Puts, RequestsAssumption DEF Writes, GoesOn, TypeInv, TypeOK
<1>2. CASE ~ (StoreOpened(q) \/ Update(q) \/ Insert(q))
  BY <1>2 DEF Serve, Suppress, NothingActuated, LookUp, CreatePaymentLink
<1> QED
  BY <1>1, <1>2

(* claim_event: the handler keeps its event, and its episode but for what   *)
(* the episode has seen.                                                   *)
LEMMA Claims ==
  ASSUME TypeInv, NEW w \in Workers, ClaimEvent(w)
  PROVE  /\ hook[w].pc = "matched"
         /\ hook'[w].pc = "claimed"
         /\ hook'[w].event = hook[w].event
         /\ hook'[w].held \in LiveEpisode
         /\ hook'[w].held.state = hook[w].held.state
         /\ hook'[w].held.recovered = hook[w].held.recovered
         /\ hook'[w].held.link = hook[w].held.link
         /\ setup.durable => hook'[w].held = hook[w].held
         /\ ~ setup.durable =>
              hook'[w].held.seen = hook[w].held.seen \union {hook[w].event}
         /\ UNCHANGED <<store, mail, faults>>
<1>1. hook[w].held \in LiveEpisode /\ hook[w].event \in Events
  BY DEF ClaimEvent, TypeInv, Staffed
<1>2. CASE setup.durable
  BY <1>1, <1>2 DEF ClaimEvent, TypeInv, TypeOK
<1>3. CASE ~ setup.durable
  <2> DEFINE held == [hook[w].held EXCEPT !.seen = @ \union {hook[w].event}]
  <2>1. /\ held \in LiveEpisode
        /\ held.state = hook[w].held.state
        /\ held.recovered = hook[w].held.recovered
        /\ held.link = hook[w].held.link
        /\ held.seen = hook[w].held.seen \union {hook[w].event}
    BY <1>1 DEF LiveEpisode
  <2>2. hook' = [hook EXCEPT ![w].pc = "claimed", ![w].held.seen = @ \union {hook[w].event}]
    BY <1>3 DEF ClaimEvent
  <2>3. hook' = [hook EXCEPT ![w] = [hook[w] EXCEPT !.pc = "claimed", !.held = held]]
    BY <2>2
  <2>4. hook'[w] = [hook[w] EXCEPT !.pc = "claimed", !.held = held]
    BY <2>3 DEF TypeInv, TypeOK
  <2>5. /\ hook'[w].pc = "claimed"
        /\ hook'[w].event = hook[w].event
        /\ hook'[w].held = held
    <3> HIDE DEF held
    <3> QED  BY <2>4 DEF TypeInv, TypeOK
  <2> QED
    BY <1>3, <2>1, <2>5 DEF ClaimEvent
<1> QED
  BY <1>2, <1>3

(* The ways a handler moves: it drops its event, takes an episode from the   *)
(* store, notes an event in it, and puts it with the event applied, at once *)
(* or after it has read the row.                                           *)
Drops(w) ==
  /\ hook' = hook \/ (hook[w].pc = "matched" /\ hook'[w].pc = "idle")
  /\ UNCHANGED <<store, deliveries>>

Takes(w, e) ==
  /\ store[e.ref] \in LiveEpisode
  /\ hook[w].pc = "idle"
  /\ hook'[w] = [pc |-> "matched", event |-> e, held |-> store[e.ref], row |-> NoEpisode]
  /\ UNCHANGED <<store, deliveries, mail, faults>>

InHandNow(w) ==
  /\ hook[w].event \in Events
  /\ hook[w].event.ref \in Refs
  /\ hook[w].held \in LiveEpisode
  /\ store[hook[w].event.ref] \in LiveEpisode

Keeps(w, episode) ==
  /\ hook[w].pc = "claimed"
  /\ ~ setup.durable
  /\ hook'[w].pc = "idle"
  /\ episode = Applied(hook[w].held, hook[w].event)
  /\ store' = [store EXCEPT ![hook[w].event.ref] = episode]
  /\ UNCHANGED deliveries

Reads(w, episode) ==
  /\ hook[w].pc = "claimed"
  /\ setup.durable
  /\ episode = Applied(hook[w].held, hook[w].event)
  /\ hook'[w] = [pc |-> "putting", event |-> hook[w].event, held |-> episode,
                 row |-> store[hook[w].event.ref]]
  /\ UNCHANGED <<store, deliveries, mail, faults>>

Flushes(w, episode) ==
  /\ hook[w].pc = "putting"
  /\ setup.durable
  /\ hook'[w].pc = "idle"
  /\ episode = Flushed(store[hook[w].event.ref], hook[w].row, hook[w].held)
  /\ store' = [store EXCEPT ![hook[w].event.ref] = episode]
  /\ UNCHANGED deliveries

LEMMA HandleStores ==
  ASSUME TypeInv, NEW w \in Workers, Handle(w)
  PROVE  /\ hook[w].pc # "idle" => InHandNow(w)
         /\ \/ Drops(w)
            \/ \E e \in Events : Takes(w, e)
            \/ ClaimEvent(w) /\ store' = store
            \/ \E episode \in LiveEpisode :
                 Keeps(w, episode) \/ Reads(w, episode) \/ Flushes(w, episode)
<1> USE DEF TypeInv
<1>h. hook \in [Workers -> Hook]
  BY DEF TypeOK, Hook
<1>0. hook[w].pc # "idle" => InHandNow(w)
  BY EventFields DEF InHandNow, Staffed, RowsStay, TypeOK
<1>1. ASSUME NEW e \in Events, Unmatched(w, e)
      PROVE  Drops(w)
  BY <1>1 DEF Unmatched, Drops
<1>2. ASSUME NEW e \in Events, Match(w, e)
      PROVE  Takes(w, e)
  <2>1. store[e.ref] \in LiveEpisode
    BY <1>2, EventFields DEF Match, Matches, TypeOK
  <2> QED
    BY <1>2, <1>h, <2>1 DEF Match, Takes
<1>3. CASE Duplicate(w)
  BY <1>0, <1>3, <1>h DEF Duplicate, IdleHook, Drops, Hook
<1>4. CASE ClaimEvent(w)
  BY <1>0, <1>4 DEF ClaimEvent
<1>5. CASE ApplyEvent(w)
  <2>1. Applied(hook[w].held, hook[w].event) \in LiveEpisode
    BY <1>0, <1>5, AppliedType DEF ApplyEvent, InHandNow
  <2>2. CASE setup.durable
    BY <1>0, <1>5, <1>h, <2>1, <2>2 DEF ApplyEvent, Reads
  <2>3. CASE ~ setup.durable
    BY <1>0, <1>5, <1>h, <2>1, <2>3 DEF ApplyEvent, IdleHook, Keeps
  <2> QED
    BY <2>2, <2>3
<1>6. CASE PutApplied(w)
  <2>1. Flushed(store[hook[w].event.ref], hook[w].row, hook[w].held) \in LiveEpisode
    BY <1>0, <1>6, FlushedType DEF PutApplied, InHandNow
  <2>2. setup.durable
    BY <1>6 DEF PutApplied, RowsStay
  <2> QED
    BY <1>0, <1>6, <1>h, <2>1, <2>2 DEF PutApplied, IdleHook, Flushes
<1> QED
  BY <1>0, <1>1, <1>2, <1>3, <1>4, <1>5, <1>6 DEF Handle

(* A process dies with what it had in hand; of an in-memory store it was the *)
(* only one.                                                               *)
LEMMA Crashes ==
  ASSUME TypeInv, NEW w \in Workers, Crash(w)
  PROVE  /\ \A q \in Requests : req'[q] = IdleRequest \/ req'[q] = req[q]
         /\ \A v \in Workers : hook'[v] = IdleHook \/ hook'[v] = hook[v]
         /\ hook'[w] = IdleHook
         /\ \A v \in Workers, r \in Refs :
              ledger'[v][r] = ledger[v][r] \/ ledger'[v][r] = NoResult
         /\ UNCHANGED <<setup, mail, deliveries, links>>
         /\ \/ store' = store
            \/ /\ ~ setup.durable
               /\ \A r \in Refs : store'[r] = NoEpisode
               /\ \A v \in Workers : hook'[v].pc = "idle"
<1>1. CASE setup.durable
  BY <1>1 DEF Crash, TypeInv, TypeOK
<1>2. CASE ~ setup.durable
  <2>1. \A v \in setup.workers : v = w
    BY <1>2, MemoryAssumption DEF Crash, TypeInv, TypeOK
  <2>2. \A v \in Workers : hook'[v].pc = "idle"
    BY <2>1 DEF Crash, TypeInv, TypeOK, Staffed, IdleHook
  <2> QED
    BY <1>2, <2>2 DEF Crash, TypeInv, TypeOK
<1> QED
  BY <1>1, <1>2

LEMMA StepTypeInv == TypeInv /\ [Next]_vars => TypeInv'
<1> SUFFICES ASSUME TypeInv, [Next]_vars
             PROVE  TypeInv'
  OBVIOUS
<1>t. TypeOK /\ TypeOK'
  BY StepType DEF TypeInv
<1> SUFFICES Staffed' /\ PutsFresh' /\ RowsStay'
  BY <1>t DEF TypeInv
<1>1. CASE UNCHANGED vars
  BY <1>1 DEF vars, TypeInv, Staffed, PutsFresh, RowsStay, Holds, InProgress
<1>2. ASSUME NEW q \in Requests, NEW w \in Workers, Accept(q, w)
      PROVE  Staffed' /\ PutsFresh' /\ RowsStay'
  <2>1. /\ \A p \in Requests \ {q} : req'[p] = req[p]
        /\ InProgress(q)' => req'[q].worker \in setup.workers
        /\ ~ Holds(q)'
        /\ UNCHANGED <<setup, store, hook, mail>>
    <3>1. \/ req'[q].pc = "answered"
          \/ req'[q].pc = "diagnosed" /\ req'[q].worker = w /\ w \in setup.workers
      BY <1>2, <1>t, Accepts
    <3> QED
      BY <1>2, <1>t, <3>1, Accepts DEF InProgress, Holds
  <2> QED
    BY <2>1 DEF TypeInv, Staffed, PutsFresh, RowsStay, InProgress, Holds
<1>3. ASSUME NEW q \in Requests, Serve(q)
      PROVE  Staffed' /\ PutsFresh' /\ RowsStay'
  <2>1. Served(q)
    BY <1>3, ServeServes
  <2>2. Staffed' /\ PutsFresh'
    BY <2>1 DEF Served, TypeInv, Staffed, PutsFresh, InProgress, Holds
  <2>3. RowsStay'
    BY <2>1, EventFields, RequestsAssumption DEF Served, TypeInv, Staffed, RowsStay
  <2> QED
    BY <2>2, <2>3
<1>4. ASSUME NEW e \in Events, Emit(e)
      PROVE  Staffed' /\ PutsFresh' /\ RowsStay'
  <2>1. \A f \in Events : mail[f] # "unsent" => mail'[f] # "unsent"
    BY <1>4, <1>t DEF Emit, TypeOK
  <2> QED
    BY <1>4, <2>1 DEF Emit, TypeInv, Staffed, PutsFresh, RowsStay, Holds, InProgress
<1>5. ASSUME NEW w \in Workers, Handle(w)
      PROVE  Staffed' /\ PutsFresh' /\ RowsStay'
  <2>h. /\ \A v \in Workers \ {w} : hook'[v] = hook[v]
        /\ UNCHANGED <<setup, req>>
    BY <1>5, Handles
  <2> DEFINE Stays ==
               /\ hook'[w].pc # "idle" =>
                    /\ hook'[w].held \in LiveEpisode
                    /\ store'[hook'[w].event.ref] # NoEpisode
               /\ hook'[w].pc = "putting" => setup.durable
               /\ \A r \in Refs : store[r] # NoEpisode => store'[r] # NoEpisode
  <2>1. Stays
    <3>0. hook[w].pc # "idle" => InHandNow(w)
      BY <1>5, HandleStores
    <3>1. CASE Drops(w)
      BY <3>0, <3>1, EpisodeFields DEF Drops, InHandNow, TypeInv, RowsStay
    <3>2. ASSUME NEW e \in Events, Takes(w, e)
          PROVE  Stays
      BY <3>2, EpisodeFields DEF Takes
    <3>3. CASE ClaimEvent(w) /\ store' = store
      BY <3>0, <3>3, Claims, EpisodeFields DEF InHandNow
    <3>4. ASSUME NEW episode \in LiveEpisode, Keeps(w, episode) \/ Flushes(w, episode)
          PROVE  Stays
      <4>1. store' = [store EXCEPT ![hook[w].event.ref] = episode] /\ hook'[w].pc = "idle"
        BY <3>4 DEF Keeps, Flushes
      <4> QED
        BY <1>t, <4>1, EpisodeFields DEF TypeOK
    <3>5. ASSUME NEW episode \in LiveEpisode, Reads(w, episode)
          PROVE  Stays
      BY <3>0, <3>5, EpisodeFields DEF Reads, InHandNow
    <3> QED
      BY <1>5, <3>1, <3>2, <3>3, <3>4, <3>5, HandleStores
  <2>2. Staffed'
    BY <1>5, <2>1, Handles DEF TypeInv, Staffed, InProgress
  <2>3. PutsFresh'
    BY <2>h DEF TypeInv, PutsFresh, Holds
  <2>4. RowsStay'
    BY <2>h, <2>1, EventFields, RequestsAssumption DEF TypeInv, Staffed, RowsStay
  <2> QED
    BY <2>2, <2>3, <2>4
<1>6. ASSUME NEW w \in Workers, Crash(w)
      PROVE  Staffed' /\ PutsFresh' /\ RowsStay'
  <2>1. Staffed' /\ PutsFresh'
    BY <1>6, Crashes
    DEF TypeInv, Staffed, PutsFresh, Holds, InProgress, IdleRequest, IdleHook
  <2>2. RowsStay'
    BY <1>6, Crashes DEF TypeInv, RowsStay, IdleRequest, IdleHook
  <2> QED
    BY <2>1, <2>2
<1> QED
  BY <1>1, <1>2, <1>3, <1>4, <1>5, <1>6 DEF Next, Quiet

(* Every variable of the live service keeps its type, and what a handler    *)
(* holds is an event that was sent and an episode.                         *)
THEOREM TypeInvariant == Spec => []TypeInv
<1>1. TypeInv /\ [Next]_vars => TypeInv'
  BY StepTypeInv
<1> QED
  BY InitType, <1>1, PTL DEF Spec

(* LiveSafety's type invariant, whoever dies and whatever is said.          *)
THEOREM LiveTypeCorrect == Spec => []TypeOK
<1>1. TypeInv => TypeOK
  BY DEF TypeInv
<1> QED
  BY TypeInvariant, <1>1, PTL

-----------------------------------------------------------------------------
(* What every step does to the store and to the mail.                      *)

(* No news is unsent again.                                                *)
LEMMA NewsStays ==
  ASSUME TypeInv, [Next]_vars, NEW e \in Events, mail[e] # "unsent"
  PROVE  mail'[e] # "unsent"
<1>1. ASSUME NEW q \in Requests, Serve(q) \/ \E w \in Workers : Accept(q, w)
      PROVE  mail' = mail
  BY <1>1, ServeServes DEF Served, Accept
<1>2. ASSUME NEW f \in Events, Emit(f)
      PROVE  mail'[e] # "unsent"
  BY <1>2 DEF Emit, TypeInv, TypeOK
<1>3. ASSUME NEW w \in Workers, Handle(w) \/ Crash(w)
      PROVE  mail'[e] # "unsent"
  BY <1>3, Handles DEF Crash
<1> QED
  BY <1>1, <1>2, <1>3 DEF Next, Quiet, vars

-----------------------------------------------------------------------------
(* Where nothing races.                                                    *)

LEMMA SetupStays ==
  ASSUME [Next]_vars
  PROVE  setup' = setup
  BY DEF Next, Accept, Serve, Suppress, NothingActuated, LookUp, CreatePaymentLink,
         StoreOpened, Update, Insert, Emit, Handle, Unmatched, Match, Duplicate,
         ClaimEvent, ApplyEvent, PutApplied, Crash, Quiet, vars

(* Patient merchants: a reference in the making is not in the store and is   *)
(* made once.                                                              *)
PatientInv ==
  setup.patient =>
    /\ \A p, q \in Requests :
         InProgress(p) /\ InProgress(q) /\ RefOf(p) = RefOf(q) => p = q
    /\ \A q \in Requests : InProgress(q) => store[RefOf(q)] = NoEpisode

LEMMA PatientStep ==
  ASSUME TypeInv, PatientInv, [Next]_vars
  PROVE  PatientInv'
<1> USE DEF TypeInv
<1>1. CASE ~ setup.patient
  BY <1>1, SetupStays DEF PatientInv
<1>2. ASSUME setup.patient, NEW q \in Requests, NEW w \in Workers, Accept(q, w)
      PROVE  PatientInv'
  <2>1. /\ \A p \in Requests \ {q} : req'[p] = req[p]
        /\ UNCHANGED <<setup, store>>
        /\ InProgress(q)' => store[RefOf(q)] = NoEpisode /\ Alone(q)
    BY <1>2, Accepts DEF InProgress
  <2>2. \A p \in Requests :
          InProgress(p)' /\ InProgress(q)' /\ RefOf(p) = RefOf(q) => p = q
    BY <2>1 DEF Alone, InProgress
  <2>3. \A p1, p2 \in Requests :
          InProgress(p1)' /\ InProgress(p2)' /\ RefOf(p1) = RefOf(p2) => p1 = p2
    BY <1>2, <2>1, <2>2 DEF PatientInv, InProgress
  <2> QED
    BY <1>2, <2>1, <2>3 DEF PatientInv, InProgress
<1>3. ASSUME setup.patient, NEW q \in Requests, Serve(q)
      PROVE  PatientInv'
  <2>s. Served(q)
    BY <1>3, ServeServes
  <2>1. \A p \in Requests : InProgress(p)' => InProgress(p)
    BY <2>s DEF Served, InProgress
  <2>2. CASE store' = store
    BY <1>3, <2>1, <2>2 DEF PatientInv
  <2>3. CASE /\ req'[q] = Answered
             /\ \A r \in Refs \ {RefOf(q)} : store'[r] = store[r]
    <3>1. \A p \in Requests : InProgress(p)' => InProgress(p) /\ RefOf(p) # RefOf(q)
      BY <1>3, <2>1, <2>3, <2>s DEF PatientInv, Served, InProgress, Answered
    <3> QED
      BY <1>3, <2>1, <2>3, <3>1, RequestsAssumption DEF PatientInv
  <2> QED
    BY <1>3, <2>2, <2>3, ServeStores
<1>4. ASSUME setup.patient, NEW w \in Workers, Handle(w)
      PROVE  PatientInv'
  <2>1. UNCHANGED <<setup, req>>
    BY <1>4, Handles
  <2>2. \A r \in Refs : store[r] = NoEpisode => store'[r] = NoEpisode
    <3>1. CASE store' = store
      BY <3>1
    <3>2. ASSUME NEW episode, store' = [store EXCEPT ![hook[w].event.ref] = episode],
                 InHandNow(w)
          PROVE  \A r \in Refs : store[r] = NoEpisode => store'[r] = NoEpisode
      <4>1. store[hook[w].event.ref] # NoEpisode
        BY <3>2, EpisodeFields DEF InHandNow
      <4> QED
        BY <3>2, <4>1 DEF InHandNow, TypeOK
    <3> QED
      BY <1>4, <3>1, <3>2, HandleStores DEF Drops, Takes, Keeps, Reads, Flushes
  <2> QED
    BY <1>4, <2>1, <2>2, RequestsAssumption DEF PatientInv, InProgress
<1>5. ASSUME setup.patient, NEW w \in Workers, Crash(w)
      PROVE  PatientInv'
  <2>1. \A q \in Requests : InProgress(q)' => InProgress(q)
    BY <1>5, Crashes DEF InProgress, IdleRequest
  <2>2. \A r \in Refs : store[r] = NoEpisode => store'[r] = NoEpisode
    BY <1>5, Crashes
  <2> QED
    BY <1>5, <2>1, <2>2, RequestsAssumption DEF PatientInv
<1>6. CASE UNCHANGED <<setup, store, req>>
  BY <1>6 DEF PatientInv, InProgress
<1> QED
  BY <1>1, <1>2, <1>3, <1>4, <1>5, <1>6 DEF Next, Emit, Quiet, vars

LEMMA PatientHolds == Spec => []PatientInv
<1>1. Init => PatientInv
  BY DEF Init, PatientInv, InProgress, IdleRequest
<1>2. TypeInv /\ PatientInv /\ [Next]_vars => PatientInv'
  BY PatientStep
<1> QED
  BY TypeInvariant, <1>1, <1>2, PTL DEF Spec

(* In memory, or of patient merchants, a request puts the episode it made:   *)
(* it never finds a row to update.                                         *)
LEMMA PutsItsOwn ==
  ASSUME TypeInv, PatientInv, setup.patient \/ ~ setup.durable,
         NEW q \in Requests, Holds(q)
  PROVE  PutOf(q) = req[q].episode /\ Fresh(PutOf(q))
  BY DEF TypeInv, PatientInv, RowsStay, PutsFresh, Holds, InProgress, PutOf

(* A handler's episode and the store's, where one worker serves patient      *)
(* merchants: the same, but in memory for the event just noted in it, until *)
(* the event is applied; then the row is still the one that was read.      *)
Agree(a, b) == a.state = b.state /\ a.recovered = b.recovered

SeenInHand(w) ==
  ~ setup.durable =>
    hook[w].held.seen = store[hook[w].event.ref].seen
                          \union (IF hook[w].pc = "claimed" THEN {hook[w].event} ELSE {})

Mine(w) ==
  IF hook[w].pc = "putting"
    THEN /\ hook[w].row = store[hook[w].event.ref]
         /\ Terminal(store[hook[w].event.ref]) =>
              Agree(hook[w].held, store[hook[w].event.ref])
         /\ hook[w].event.kind = "paid" => Terminal(hook[w].held)
    ELSE /\ Agree(hook[w].held, store[hook[w].event.ref])
         /\ SeenInHand(w)

AloneInv == Unraced => \A w \in Workers : hook[w].pc # "idle" => Mine(w)

(* The other handlers of the only worker are none.                         *)
LEMMA OthersIdle ==
  ASSUME TypeInv, Unraced, NEW w \in Workers, hook[w].pc # "idle",
         NEW v \in Workers \ {w}
  PROVE  hook[v].pc = "idle"
  BY DEF TypeInv, Staffed, Unraced

LEMMA AloneHandles ==
  ASSUME TypeInv, AloneInv, Unraced, NEW w \in Workers, Handle(w)
  PROVE  AloneInv'
<1> USE DEF TypeInv
<1>t. TypeInv'
  BY StepTypeInv DEF Next
<1>h. /\ \A v \in Workers \ {w} : hook'[v] = hook[v]
      /\ UNCHANGED setup
  BY Handles
<1>o. hook'[w].pc # "idle" => \A v \in Workers \ {w} : hook'[v].pc = "idle"
  BY <1>t, <1>h, OthersIdle DEF Staffed, Unraced
<1>0. hook[w].pc # "idle" => InHandNow(w) /\ Mine(w)
  BY HandleStores DEF AloneInv
<1>1. ASSUME hook'[w].pc # "idle" => Mine(w)'
      PROVE  AloneInv'
  <2>1. CASE hook'[w].pc # "idle"
    BY <1>1, <1>o, <2>1 DEF AloneInv
  <2>2. CASE hook'[w].pc = "idle" /\ hook[w].pc # "idle"
    <3>1. \A v \in Workers : hook'[v].pc = "idle"
      BY <1>h, <2>2, OthersIdle
    <3> QED
      BY <3>1 DEF AloneInv
  <2>3. CASE hook'[w].pc = "idle" /\ hook[w].pc = "idle"
    <3>1. store' = store
      BY <2>3, HandleStores DEF Drops, Takes, Keeps, Reads, Flushes
    <3> QED
      BY <1>h, <2>3, <3>1 DEF AloneInv, Mine, SeenInHand
  <2> QED
    BY <2>1, <2>2, <2>3
<1>2. CASE Drops(w)
  BY <1>0, <1>1, <1>2, <1>h DEF Drops, Mine, SeenInHand
<1>3. ASSUME NEW e \in Events, Takes(w, e)
      PROVE  AloneInv'
  <2>1. /\ hook'[w].pc = "matched"
        /\ hook'[w].event = e
        /\ hook'[w].held = store[e.ref]
        /\ UNCHANGED store
    BY <1>3 DEF Takes
  <2> QED
    BY <1>1, <2>1 DEF Mine, SeenInHand, Agree
<1>4. CASE ClaimEvent(w)
  <2>1. Mine(w)
    BY <1>0, <1>4, Claims
  <2> QED
    BY <1>1, <1>4, <1>h, <2>1, Claims DEF Mine, SeenInHand, Agree
<1>5. ASSUME NEW episode \in LiveEpisode, Reads(w, episode)
      PROVE  AloneInv'
  <2>1. /\ hook'[w].pc = "putting"
        /\ hook'[w].event = hook[w].event
        /\ hook'[w].held = episode
        /\ hook'[w].row = store[hook[w].event.ref]
        /\ UNCHANGED store
    BY <1>5 DEF Reads
  <2>2. InHandNow(w) /\ Agree(hook[w].held, store[hook[w].event.ref])
    BY <1>0, <1>5 DEF Reads, Mine
  <2>3. Terminal(store[hook[w].event.ref]) => episode = hook[w].held
    BY <1>5, <2>2, AppliedType DEF Reads, InHandNow, Agree, Terminal
  <2>4. hook[w].event.kind = "paid" => Terminal(episode)
    BY <1>5, <2>2, AppliedType DEF Reads, InHandNow
  <2> QED
    BY <1>1, <2>1, <2>2, <2>3, <2>4 DEF Mine, Terminal
<1>6. CASE hook'[w].pc = "idle"
  BY <1>1, <1>6
<1> QED
  BY <1>2, <1>3, <1>4, <1>5, <1>6, HandleStores DEF Keeps, Flushes

(* A request only writes where nothing was, and so under no handler's hand. *)
LEMMA AloneStep ==
  ASSUME TypeInv, PatientInv, AloneInv, [Next]_vars
  PROVE  AloneInv'
<1> USE DEF TypeInv
<1>1. CASE ~ Unraced
  BY <1>1, SetupStays DEF AloneInv, Unraced
<1>2. ASSUME Unraced, NEW q \in Requests, Serve(q)
      PROVE  AloneInv'
  <2>1. Served(q)
    BY <1>2, ServeServes
  <2>2. store[RefOf(q)] = NoEpisode
    BY <1>2, <2>1 DEF PatientInv, Served, Unraced
  <2>3. \A w \in Workers :
          hook[w].pc # "idle" => store'[hook[w].event.ref] = store[hook[w].event.ref]
    BY <1>2, <2>2, ServeStores, EventFields DEF Staffed, RowsStay
  <2> QED
    BY <2>1, <2>3 DEF AloneInv, Mine, SeenInHand, Agree, Terminal, Served, Unraced
<1>3. ASSUME Unraced, NEW w \in Workers, Handle(w)
      PROVE  AloneInv'
  BY <1>3, AloneHandles
<1>4. ASSUME Unraced, NEW w \in Workers, Crash(w)
      PROVE  AloneInv'
  <2>1. \A v \in Workers : hook'[v].pc = "idle"
    <3>1. w \in setup.workers
      BY <1>4 DEF Crash
    <3>2. \A v \in Workers \ {w} : hook[v].pc = "idle"
      BY <1>4, <3>1 DEF Staffed, Unraced
    <3> QED
      BY <1>4, <3>2, Crashes DEF IdleHook
  <2> QED
    BY <2>1 DEF AloneInv
<1>5. CASE UNCHANGED <<setup, store, hook>>
  BY <1>5 DEF AloneInv, Mine, SeenInHand, Agree, Terminal, Unraced
<1> QED
  BY <1>1, <1>2, <1>3, <1>4, <1>5 DEF Next, Accept, Emit, Quiet, vars

LEMMA AloneHolds == Spec => []AloneInv
<1>1. Init => AloneInv
  BY DEF Init, AloneInv, IdleHook
<1>2. TypeInv /\ PatientInv /\ AloneInv /\ [Next]_vars => AloneInv'
  BY AloneStep
<1> QED
  BY TypeInvariant, PatientHolds, <1>1, <1>2, PTL DEF Spec

(* A put that finds the row as it was read leaves what the handler held.    *)
LEMMA FlushesItsOwn ==
  ASSUME TypeInv, AloneInv, Unraced, NEW w \in Workers, InHandNow(w),
         NEW episode \in LiveEpisode, Flushes(w, episode)
  PROVE  Agree(episode, hook[w].held) /\ Mine(w)
<1>1. Mine(w)
  BY DEF AloneInv, Flushes
<1> QED
  BY <1>1, FlushedType DEF InHandNow, Flushes, Mine, Agree

-----------------------------------------------------------------------------
(* What is booked is a payment.                                            *)

(* A payment is of something.  (apply_event takes an event without an       *)
(* amount for a payment of nothing, and closes the episode.)               *)
PaymentsPositive == \A e \in Events : e.kind = "paid" => e.amount > 0

Booked(r, episode) ==
  /\ episode.recovered > 0 <=> episode.state \in RecoveredStates
  /\ episode.recovered > 0 => \E e \in Receipts(r) : e.amount = episode.recovered

(* OneReceiptBooked, and the same of the episodes in hand: they are what the *)
(* store will hold.                                                        *)
BooksInv ==
  Whole =>
    /\ \A r \in Refs : store[r] # NoEpisode => Booked(r, store[r])
    /\ \A w \in Workers :
         hook[w].pc # "idle" => Booked(hook[w].event.ref, hook[w].held)

(* apply_event books the payment it is told of, and no other: an episode    *)
(* with money in hand refuses.                                             *)
LEMMA AppliedBooked ==
  ASSUME PaymentsPositive, NEW e \in Events, mail[e] # "unsent",
         NEW episode \in LiveEpisode, Booked(e.ref, episode)
  PROVE  Booked(e.ref, Applied(episode, e))
<1>1. CASE Refuses(episode, e)
  BY <1>1 DEF Applied
<1>2. CASE ~ Refuses(episode, e)
  <2>1. episode.state = "waiting" /\ episode.recovered = 0
    BY <1>2, EpisodeFields DEF Refuses, Terminal, TERMINAL_STATES, Booked, RecoveredStates
  <2>2. CASE e.kind = "paid"
    <3> DEFINE total == episode.recovered + e.amount
               state == IF total >= Amount[e.ref] THEN "recovered" ELSE "partially_recovered"
    <3>1. Applied(episode, e) = [episode EXCEPT !.recovered = total, !.state = state]
      BY <1>2, <2>2 DEF Applied
    <3>2. total = e.amount /\ total > 0 /\ state \in RecoveredStates
      BY <2>1, <2>2, EventFields DEF PaymentsPositive, RecoveredStates
    <3>3. e \in Receipts(e.ref)
      BY <2>2 DEF Receipts
    <3> HIDE DEF total, state
    <3>4. Applied(episode, e).recovered = total /\ Applied(episode, e).state = state
      BY <3>1 DEF LiveEpisode
    <3> QED
      BY <3>2, <3>3, <3>4 DEF Booked
  <2>3. CASE e.kind # "paid"
    <3>1. /\ Applied(episode, e).recovered = 0
          /\ Applied(episode, e).state \in {"waiting", "escalated"}
      BY <1>2, <2>1, <2>3, EventFields DEF Applied, LiveEpisode
    <3> QED
      BY <3>1 DEF Booked, RecoveredStates
  <2> QED
    BY <2>2, <2>3
<1> QED
  BY <1>1, <1>2

LEMMA BooksServes ==
  ASSUME TypeInv, PatientInv, BooksInv, Whole, NEW q \in Requests, Serve(q)
  PROVE  BooksInv'
<1> USE DEF TypeInv
<1>1. UNCHANGED <<hook, mail>>
  BY ServeServes DEF Served
<1>2. \A r \in Refs :
        \/ store'[r] = store[r]
        \/ store'[r].recovered = 0 /\ store'[r].state \notin RecoveredStates
  <2>1. Holds(q) => PutOf(q).recovered = 0 /\ PutOf(q).state \notin RecoveredStates
    BY PutsItsOwn DEF Whole, Unraced, Fresh, RecoveredStates
  <2> QED
    BY <2>1, ServeStores
<1> QED
  BY <1>1, <1>2 DEF BooksInv, Booked, Receipts

LEMMA BooksHandles ==
  ASSUME PaymentsPositive, TypeInv, AloneInv, BooksInv, Whole,
         NEW w \in Workers, Handle(w)
  PROVE  BooksInv'
<1> USE DEF TypeInv
<1>h. \A v \in Workers \ {w} : hook'[v] = hook[v]
  BY Handles
<1>n. \A r \in Refs : Receipts(r) \subseteq Receipts(r)'
  BY Handles DEF Receipts
<1>0. hook[w].pc # "idle" =>
        InHandNow(w) /\ Booked(hook[w].event.ref, hook[w].held)
          /\ mail[hook[w].event] # "unsent"
  BY HandleStores DEF BooksInv, Staffed
<1>1. ASSUME \A r \in Refs :
               \/ store'[r] = store[r]
               \/ store'[r] # NoEpisode /\ Booked(r, store'[r]),
             hook'[w].pc # "idle" =>
               hook'[w].event.ref \in Refs /\ Booked(hook'[w].event.ref, hook'[w].held)
      PROVE  BooksInv'
  BY <1>1, <1>h, <1>n, EventFields DEF BooksInv, Booked, Staffed
<1>2. CASE Drops(w)
  BY <1>0, <1>1, <1>2 DEF Drops, InHandNow
<1>3. ASSUME NEW e \in Events, Takes(w, e)
      PROVE  BooksInv'
  <2>1. /\ hook'[w].event = e
        /\ hook'[w].held = store[e.ref]
        /\ UNCHANGED store
    BY <1>3 DEF Takes
  <2>2. e.ref \in Refs /\ Booked(e.ref, store[e.ref])
    BY <1>3, EventFields, EpisodeFields DEF Takes, BooksInv
  <2> QED
    BY <1>1, <2>1, <2>2
<1>4. CASE ClaimEvent(w) /\ store' = store
  BY <1>0, <1>1, <1>4, Claims DEF InHandNow, Booked
<1>5. ASSUME NEW episode \in LiveEpisode, Keeps(w, episode) \/ Reads(w, episode)
      PROVE  BooksInv'
  <2>1. InHandNow(w) /\ Booked(hook[w].event.ref, episode)
    BY <1>0, <1>5, AppliedBooked DEF Keeps, Reads, InHandNow
  <2>2. CASE Keeps(w, episode)
    <3>1. \A r \in Refs :
            store'[r] = IF r = hook[w].event.ref THEN episode ELSE store[r]
      BY <2>1, <2>2 DEF Keeps, InHandNow, TypeOK
    <3> QED
      BY <1>1, <2>1, <2>2, <3>1, EpisodeFields DEF Keeps
  <2>3. CASE Reads(w, episode)
    BY <1>1, <2>1, <2>3 DEF Reads, InHandNow
  <2> QED
    BY <1>5, <2>2, <2>3
<1>6. ASSUME NEW episode \in LiveEpisode, Flushes(w, episode)
      PROVE  BooksInv'
  <2>1. InHandNow(w) /\ Booked(hook[w].event.ref, hook[w].held)
    BY <1>0, <1>6 DEF Flushes
  <2>2. Booked(hook[w].event.ref, episode)
    BY <1>6, <2>1, FlushesItsOwn DEF Flushes, Whole, Agree, Booked
  <2>3. \A r \in Refs :
          store'[r] = IF r = hook[w].event.ref THEN episode ELSE store[r]
    BY <1>6, <2>1 DEF Flushes, InHandNow, TypeOK
  <2> QED
    BY <1>1, <1>6, <2>2, <2>3, EpisodeFields DEF Flushes
<1> QED
  BY <1>2, <1>3, <1>4, <1>5, <1>6, HandleStores

LEMMA BooksStep ==
  ASSUME PaymentsPositive, TypeInv, PatientInv, AloneInv, BooksInv, [Next]_vars
  PROVE  BooksInv'
<1> USE DEF TypeInv
<1>1. CASE ~ Whole
  BY <1>1, SetupStays DEF BooksInv, Whole, Unraced
<1>2. CASE UNCHANGED <<store, hook>> /\ Whole
  <2>1. \A r \in Refs : Receipts(r) \subseteq Receipts(r)'
    BY NewsStays DEF Receipts
  <2> QED
    BY <1>2, <2>1, EventFields DEF BooksInv, Booked, Staffed
<1>3. ASSUME Whole, NEW q \in Requests, Serve(q)
      PROVE  BooksInv'
  BY <1>3, BooksServes
<1>4. ASSUME Whole, NEW w \in Workers, Handle(w)
      PROVE  BooksInv'
  BY <1>4, BooksHandles
<1>5. ASSUME Whole, NEW w \in Workers, Crash(w)
      PROVE  BooksInv'
  <2>1. /\ \A r \in Refs : store'[r] = store[r] \/ store'[r] = NoEpisode
        /\ \A v \in Workers : hook'[v] = hook[v] \/ hook'[v].pc = "idle"
        /\ mail' = mail
    BY <1>5, Crashes DEF IdleHook
  <2> QED
    BY <1>5, <2>1 DEF BooksInv, Booked, Receipts
<1> QED
  BY <1>1, <1>2, <1>3, <1>4, <1>5 DEF Next, Accept, Emit, Quiet, vars

(* OneReceiptBooked: redelivered, late or interrupted, and in memory whoever *)
(* asks again meanwhile, a payment is booked once and the state says so, if *)
(* every payment is of something.  On the durable store it is so while one  *)
(* worker serves patient merchants.                                        *)
THEOREM OneReceiptAlwaysBooked ==
  ASSUME PaymentsPositive
  PROVE  Spec => []OneReceiptBooked
<1>1. Init => BooksInv
  BY RefsAssumption DEF Init, BooksInv, IdleHook
<1>2. TypeInv /\ PatientInv /\ AloneInv /\ BooksInv /\ [Next]_vars => BooksInv'
  BY BooksStep
<1>3. BooksInv => OneReceiptBooked
  BY DEF BooksInv, Booked, OneReceiptBooked
<1> QED
  BY TypeInvariant, PatientHolds, AloneHolds, <1>1, <1>2, <1>3, PTL DEF Spec

-----------------------------------------------------------------------------
(* An episode that waits can be paid.                                      *)

Payable(r, episode) ==
  episode.state = "waiting" => episode.link = r /\ r \in links

(* Who is to be paid through a link, and asks again only when answered or in *)
(* memory.                                                                 *)
Linked == setup.actuator /\ (setup.patient \/ ~ setup.durable)

(* WaitingHasLink, the same of the episodes in hand, and what it comes from: *)
(* a result in an actuator's ledger is a failure or the link, and on the    *)
(* durable store no handler's put changes the link.                        *)
LinkInv ==
  Linked =>
    /\ \A r \in Refs : Payable(r, store[r])
    /\ \A q \in Requests : Holds(q) => Payable(RefOf(q), req[q].episode)
    /\ \A w \in Workers :
         hook[w].pc # "idle" =>
           /\ Payable(hook[w].event.ref, hook[w].held)
           /\ setup.durable => hook[w].held.link = store[hook[w].event.ref].link
    /\ \A w \in Workers, r \in Refs :
         ledger[w][r] \notin {NoResult, Failed} => ledger[w][r] = r /\ r \in links

(* No event makes an episode wait that did not, or changes its link.       *)
LEMMA AppliedPayable ==
  ASSUME NEW e \in Events, NEW episode \in LiveEpisode
  PROVE  /\ Applied(episode, e).link = episode.link
         /\ Applied(episode, e).state = "waiting" => episode.state = "waiting"
<1>1. CASE Refuses(episode, e)
  BY <1>1 DEF Applied
<1>2. CASE ~ Refuses(episode, e)
  <2>1. episode.state = "waiting"
    BY <1>2, EpisodeFields DEF Refuses, Terminal, TERMINAL_STATES
  <2>2. Applied(episode, e).link = episode.link
    BY <1>2, EventFields DEF Applied, LiveEpisode
  <2> QED
    BY <2>1, <2>2
<1> QED
  BY <1>1, <1>2

(* What a request is given to put is the link, if it waits.                *)
LEMMA ActuatedPayable ==
  ASSUME TypeOK, NEW q \in Requests, req[q].pc \in {"diagnosed", "calling"},
         NEW result \in {RefOf(q), Failed}, Actuated(q, result)
  PROVE  /\ \A p \in Requests \ {q} : req'[p] = req[p]
         /\ req'[q].episode.state = "waiting" =>
              req'[q].episode.link = RefOf(q) /\ result # Failed
<1>1. PICK episode \in LiveEpisode :
        /\ Putting(q, episode)
        /\ \/ episode = Opened("failed", NoLink)
           \/ result # Failed /\ episode = Opened("waiting", result)
  BY ActuatedType, RequestsAssumption
<1>2. req'[q] = [pc |-> "putting", worker |-> req[q].worker, episode |-> episode]
  BY <1>1, PuttingType
<1>3. req'[q].episode = episode
  BY <1>2
<1>4. episode.state = "waiting" => episode.link = RefOf(q) /\ result # Failed
  BY <1>1 DEF Opened
<1> QED
  BY <1>1, <1>3, <1>4, PuttingType

LEMMA LinkServes ==
  ASSUME TypeInv, PatientInv, LinkInv, Linked, NEW q \in Requests, Serve(q)
  PROVE  LinkInv'
<1> USE DEF TypeInv
<1> DEFINE r == RefOf(q)
<1>r. r \in Refs
  BY RequestsAssumption
<1>s. Served(q)
  BY ServeServes
<1>1. ASSUME UNCHANGED <<store, links, ledger>>,
             Holds(q)' => Payable(r, req'[q].episode)
      PROVE  LinkInv'
  BY <1>1, <1>s DEF LinkInv, Linked, Payable, Holds, Served
<1>2. CASE Suppress(q)
  <2>1. req'[q] = [pc |-> "putting", worker |-> req[q].worker,
                   episode |-> Opened("suppressed", NoLink)]
    BY <1>2, PuttingType, OpenedType DEF Suppress
  <2>2. req'[q].episode.state = "suppressed"
    BY <2>1 DEF Opened
  <2> QED
    BY <1>1, <1>2, <2>2 DEF Suppress, Payable
<1>3. CASE LookUp(q)
  <2> DEFINE known == ledger[req[q].worker][r]
  <2>1. req[q].pc = "diagnosed" /\ req[q].worker \in Workers
    BY <1>3, Diagnosed DEF LookUp
  <2>2. CASE known = NoResult
    <3>1. req' = [req EXCEPT ![q].pc = "calling"]
      BY <1>3, <2>2 DEF LookUp
    <3>2. req'[q].pc = "calling"
      BY <2>1, <3>1, Diagnosed DEF TypeOK
    <3> QED
      BY <1>1, <1>3, <3>2 DEF LookUp, Holds
  <2>3. CASE known # NoResult
    <3>1. known = Failed \/ (known = r /\ r \in links)
      BY <1>r, <2>1, <2>3 DEF LinkInv
    <3>2. Actuated(q, known)
      BY <1>3, <2>3 DEF LookUp
    <3>3. req'[q].episode.state = "waiting" =>
            req'[q].episode.link = r /\ known # Failed
      BY <2>1, <3>1, <3>2, ActuatedPayable
    <3> QED
      BY <1>1, <1>3, <3>1, <3>3 DEF LookUp, Payable
  <2> QED
    BY <2>2, <2>3
<1>4. CASE CreatePaymentLink(q)
  <2>1. PICK outcome \in CallOutcomes(r) :
          /\ links' = outcome.links
          /\ ledger' = [ledger EXCEPT ![req[q].worker][r] = outcome.result]
          /\ Actuated(q, outcome.result)
    BY <1>4 DEF CreatePaymentLink
  <2>2. req[q].pc = "calling" /\ req[q].worker \in Workers
    BY <1>4, Diagnosed DEF CreatePaymentLink
  <2>3. /\ links \subseteq links'
        /\ outcome.result \in {r, Failed}
        /\ outcome.result # Failed => r \in links'
    BY <2>1 DEF CallOutcomes
  <2>4. req'[q].episode.state = "waiting" =>
          req'[q].episode.link = r /\ r \in links'
    BY <2>1, <2>2, <2>3, ActuatedPayable
  <2>5. \A w \in Workers, p \in Refs :
          ledger'[w][p] = ledger[w][p] \/ (p = r /\ ledger'[w][p] = outcome.result)
    BY <1>r, <2>1, <2>2 DEF TypeOK
  <2>6. \A w \in Workers, p \in Refs :
          ledger'[w][p] \notin {NoResult, Failed} => ledger'[w][p] = p /\ p \in links'
    BY <2>3, <2>5 DEF LinkInv
  <2>7. UNCHANGED store
    BY <1>4 DEF CreatePaymentLink
  <2> QED
    BY <1>s, <2>3, <2>4, <2>6, <2>7 DEF LinkInv, Linked, Payable, Holds, Served
<1>5. CASE StoreOpened(q) \/ Update(q) \/ Insert(q)
  <2>1. UNCHANGED <<links, ledger>> /\ Payable(r, req[q].episode)
    BY <1>5, Puts DEF LinkInv
  <2>2. CASE store' = store /\ (req'[q] \in {Answered, IdleRequest} \/ GoesOn(q))
    BY <1>1, <2>1, <2>2 DEF GoesOn, Payable, Holds, Answered, IdleRequest
  <2>3. CASE Writes(q)
    <3>1. PutOf(q) = req[q].episode
      BY <1>5, Puts, PutsItsOwn DEF Linked
    <3>2. Payable(r, store'[r]) /\ \A p \in Refs \ {r} : store'[p] = store[p]
      BY <1>r, <2>1, <2>3, <3>1 DEF Writes, TypeOK
    <3>3. setup.durable => store[r] = NoEpisode
      BY <1>s DEF Linked, PatientInv, Served
    <3>4. \A w \in Workers :
            setup.durable /\ hook[w].pc # "idle" =>
              store'[hook[w].event.ref] = store[hook[w].event.ref]
      BY <3>2, <3>3, EventFields DEF Staffed, RowsStay
    <3> QED
      BY <1>s, <2>1, <2>3, <3>2, <3>4 DEF Writes, LinkInv, Linked, Payable, Holds, Answered, Served
  <2> QED
    BY <1>5, <2>2, <2>3, Puts DEF GoesOn
<1> QED
  BY <1>2, <1>3, <1>4, <1>5 DEF Serve, NothingActuated, Linked

LEMMA LinkHandles ==
  ASSUME TypeInv, LinkInv, Linked, NEW w \in Workers, Handle(w)
  PROVE  LinkInv'
<1> USE DEF TypeInv
<1>h. /\ \A v \in Workers \ {w} : hook'[v] = hook[v]
      /\ UNCHANGED <<setup, ledger, links, req>>
  BY Handles
<1>0. hook[w].pc # "idle" =>
        /\ InHandNow(w)
        /\ Payable(hook[w].event.ref, hook[w].held)
        /\ setup.durable => hook[w].held.link = store[hook[w].event.ref].link
  BY HandleStores DEF LinkInv
<1>1. ASSUME \A r \in Refs : Payable(r, store'[r]),
             setup.durable => \A r \in Refs : store'[r].link = store[r].link,
             hook'[w].pc # "idle" =>
               /\ Payable(hook'[w].event.ref, hook'[w].held)
               /\ setup.durable => hook'[w].held.link = store'[hook'[w].event.ref].link
      PROVE  LinkInv'
  <2>1. \A v \in Workers \ {w} :
          hook'[v].pc # "idle" =>
            /\ Payable(hook'[v].event.ref, hook'[v].held)
            /\ setup.durable => hook'[v].held.link = store'[hook'[v].event.ref].link
    BY <1>1, <1>h, EventFields DEF LinkInv, Staffed
  <2> QED
    BY <1>1, <1>h, <2>1 DEF LinkInv, Linked, Payable, Holds
<1>2. CASE Drops(w)
  BY <1>0, <1>1, <1>2 DEF Drops, LinkInv
<1>3. ASSUME NEW e \in Events, Takes(w, e)
      PROVE  LinkInv'
  <2>1. /\ hook'[w].event = e
        /\ hook'[w].held = store[e.ref]
        /\ UNCHANGED store
    BY <1>3 DEF Takes
  <2>2. \A r \in Refs : Payable(r, store[r])
    BY DEF LinkInv
  <2> QED
    BY <1>1, <2>1, <2>2, EventFields
<1>4. CASE ClaimEvent(w) /\ store' = store
  BY <1>0, <1>1, <1>4, Claims DEF LinkInv, Payable
<1>5. ASSUME NEW episode \in LiveEpisode, Keeps(w, episode) \/ Reads(w, episode)
      PROVE  LinkInv'
  <2>1. InHandNow(w) /\ Payable(hook[w].event.ref, hook[w].held)
    BY <1>0, <1>5 DEF Keeps, Reads
  <2>2. episode.link = hook[w].held.link /\ Payable(hook[w].event.ref, episode)
    BY <1>5, <2>1, AppliedPayable DEF Keeps, Reads, InHandNow, Payable
  <2>3. CASE Keeps(w, episode)
    <3>1. \A r \in Refs :
            store'[r] = IF r = hook[w].event.ref THEN episode ELSE store[r]
      BY <2>1, <2>3 DEF Keeps, InHandNow, TypeOK
    <3>2. \A r \in Refs : Payable(r, store'[r])
      BY <2>2, <3>1 DEF LinkInv
    <3> QED
      BY <1>1, <2>3, <3>2 DEF Keeps
  <2>4. CASE Reads(w, episode)
    BY <1>0, <1>1, <2>2, <2>4 DEF Reads, LinkInv
  <2> QED
    BY <1>5, <2>3, <2>4
<1>6. ASSUME NEW episode \in LiveEpisode, Flushes(w, episode)
      PROVE  LinkInv'
  <2> DEFINE ref == hook[w].event.ref
  <2>1. InHandNow(w) /\ Payable(ref, hook[w].held) /\ hook[w].held.link = store[ref].link
    BY <1>0, <1>6 DEF Flushes
  <2>2. /\ episode.link \in {store[ref].link, hook[w].held.link}
        /\ episode.state \in {store[ref].state, hook[w].held.state}
    BY <1>6, <2>1, FlushedType DEF Flushes, InHandNow
  <2>3. Payable(ref, store[ref])
    BY <2>1 DEF LinkInv, InHandNow
  <2>4. episode.link = store[ref].link /\ Payable(ref, episode)
    BY <2>1, <2>2, <2>3 DEF Payable
  <2>5. \A r \in Refs : store'[r] = IF r = ref THEN episode ELSE store[r]
    BY <1>6, <2>1 DEF Flushes, InHandNow, TypeOK
  <2>6. \A r \in Refs : Payable(r, store'[r])
    BY <2>4, <2>5 DEF LinkInv
  <2> QED
    BY <1>1, <1>6, <2>4, <2>5, <2>6 DEF Flushes
<1> QED
  BY <1>2, <1>3, <1>4, <1>5, <1>6, HandleStores

LEMMA LinkStep ==
  ASSUME TypeInv, PatientInv, LinkInv, [Next]_vars
  PROVE  LinkInv'
<1> USE DEF TypeInv
<1>1. CASE ~ Linked
  BY <1>1, SetupStays DEF LinkInv, Linked
<1>2. ASSUME Linked, NEW q \in Requests, NEW w \in Workers, Accept(q, w)
      PROVE  LinkInv'
  <2>1. /\ \A p \in Requests \ {q} : req'[p] = req[p]
        /\ ~ Holds(q)'
        /\ UNCHANGED <<setup, store, ledger, links, hook>>
    BY <1>2, Accepts DEF Holds
  <2> QED
    BY <2>1 DEF LinkInv, Linked, Payable, Holds
<1>3. ASSUME Linked, NEW q \in Requests, Serve(q)
      PROVE  LinkInv'
  BY <1>3, LinkServes
<1>4. ASSUME Linked, NEW w \in Workers, Handle(w)
      PROVE  LinkInv'
  BY <1>4, LinkHandles
<1>5. ASSUME Linked, NEW w \in Workers, Crash(w)
      PROVE  LinkInv'
  <2>1. \/ store' = store
        \/ /\ \A r \in Refs : store'[r] = NoEpisode
           /\ \A v \in Workers : hook'[v].pc = "idle"
    BY <1>5, Crashes
  <2> QED
    BY <1>5, <2>1, Crashes
    DEF LinkInv, Linked, Payable, Holds, NoEpisode, IdleHook, IdleRequest
<1>6. CASE UNCHANGED <<setup, store, ledger, links, req, hook>>
  BY <1>6 DEF LinkInv, Linked, Payable, Holds
<1> QED
  BY <1>1, <1>2, <1>3, <1>4, <1>5, <1>6 DEF Next, Emit, Quiet, vars

(* WaitingHasLink: however a call, a replay or a crash comes out, and however *)
(* handlers' puts mix, an episode that waits has the link the provider made *)
(* for it; on the durable store, of merchants who wait for their answers.   *)
THEOREM WaitingAlwaysHasLink == Spec => []WaitingHasLink
<1>1. Init => LinkInv
  BY RefsAssumption DEF Init, LinkInv, Payable, Holds, NoEpisode, IdleHook, IdleRequest
<1>2. TypeInv /\ PatientInv /\ LinkInv /\ [Next]_vars => LinkInv'
  BY LinkStep
<1>3. LinkInv => WaitingHasLink
  BY DEF LinkInv, Linked, Payable, WaitingHasLink
<1> QED
  BY TypeInvariant, PatientHolds, <1>1, <1>2, <1>3, PTL DEF Spec

-----------------------------------------------------------------------------
(* Closed episodes and recorded payments, where nothing races.             *)

(* No step reopens or pays a terminal episode.                             *)
LEMMA TerminalStep ==
  ASSUME TypeInv, PatientInv, AloneInv, [Next]_vars, Unraced,
         NEW r \in Refs, Terminal(store[r])
  PROVE  \/ /\ store'[r].state = store[r].state
            /\ store'[r].recovered = store[r].recovered
         \/ ~ setup.durable /\ store'[r] = NoEpisode
<1> USE DEF TypeInv
<1>1. store[r] # NoEpisode
  BY DEF Terminal, TERMINAL_STATES, NoEpisode
<1>2. ASSUME NEW q \in Requests, Serve(q)
      PROVE  store'[r] = store[r]
  <2>1. InProgress(q)
    BY <1>2, ServeServes DEF Served
  <2>2. RefOf(q) # r
    BY <1>1, <2>1 DEF PatientInv, Unraced
  <2> QED
    BY <1>2, <2>2, ServeStores
<1>3. ASSUME NEW w \in Workers, Handle(w), store'[r] # store[r]
      PROVE  Agree(store'[r], store[r])
  <2>1. PICK episode \in LiveEpisode : Keeps(w, episode) \/ Flushes(w, episode)
    BY <1>3, HandleStores DEF Drops, Takes, Reads
  <2>2. InHandNow(w) /\ Mine(w)
    BY <1>3, <2>1, HandleStores DEF Keeps, Flushes, AloneInv
  <2>3. hook[w].event.ref = r /\ store'[r] = episode
    BY <1>3, <2>1, <2>2 DEF Keeps, Flushes, InHandNow, TypeOK
  <2>4. CASE Keeps(w, episode)
    <3>1. Agree(hook[w].held, store[r])
      BY <2>2, <2>3, <2>4 DEF Keeps, Mine
    <3>2. Terminal(hook[w].held)
      BY <3>1 DEF Agree, Terminal
    <3> QED
      BY <2>2, <2>3, <2>4, <3>1, <3>2, AppliedType DEF Keeps, InHandNow
  <2>5. CASE Flushes(w, episode)
    BY <2>2, <2>3, <2>5, FlushesItsOwn DEF Flushes, Mine, Agree
  <2> QED
    BY <2>1, <2>4, <2>5
<1>4. ASSUME NEW w \in Workers, Crash(w)
      PROVE  store'[r] = store[r] \/ (~ setup.durable /\ store'[r] = NoEpisode)
  BY <1>4, Crashes
<1> QED
  BY <1>2, <1>3, <1>4 DEF Next, Accept, Emit, Quiet, vars, Agree

(* StaysTerminalUnraced: with one worker and patient merchants, whatever     *)
(* comes late, twice or after a crash.                                     *)
THEOREM UnracedStaysTerminal == Spec => StaysTerminalUnraced
<1>1. TypeInv /\ PatientInv /\ AloneInv /\ [Next]_vars =>
        [\A r \in Refs :
           Unraced /\ Terminal(store[r]) =>
             \/ /\ store'[r].state = store[r].state
                /\ store'[r].recovered = store[r].recovered
             \/ ~ setup.durable /\ store'[r] = NoEpisode]_vars
  BY TerminalStep
<1> QED
  BY TypeInvariant, PatientHolds, AloneHolds, <1>1, PTL DEF Spec, StaysTerminalUnraced

(* RecordedMeansApplied, and that what is recorded of an episode is about   *)
(* it, and not before there is one.                                        *)
RecordInv ==
  faults = 0 /\ Unraced =>
    /\ RecordedMeansApplied
    /\ \A r \in Refs : \A e \in RecordedPayments(r) : e.ref = r
    /\ \A r \in Refs : store[r] = NoEpisode => deliveries[r] = {}

LEMMA RecordServes ==
  ASSUME TypeInv, PatientInv, RecordInv, faults = 0, Unraced,
         NEW q \in Requests, Serve(q)
  PROVE  RecordInv'
<1> USE DEF TypeInv
<1>s. Served(q)
  BY ServeServes
<1>1. CASE UNCHANGED store
  BY <1>1, <1>s DEF RecordInv, RecordedMeansApplied, RecordedPayments, InHand, Unraced, Served
<1>2. CASE /\ Holds(q)
           /\ PutOf(q) \in LiveEpisode
           /\ store'[RefOf(q)] = PutOf(q)
           /\ \A r \in Refs \ {RefOf(q)} : store'[r] = store[r]
  <2>1. store[RefOf(q)] = NoEpisode /\ RefOf(q) \in Refs
    BY <1>s, RequestsAssumption DEF PatientInv, Served, Unraced
  <2>2. deliveries[RefOf(q)] = {} /\ store'[RefOf(q)].seen = {}
    BY <1>2, <2>1, PutsItsOwn DEF RecordInv, Unraced, Fresh
  <2>3. UNCHANGED <<setup, deliveries, hook>>
    BY <1>s DEF Served
  <2>4. ASSUME NEW r \in Refs, NEW e \in RecordedPayments(r)'
        PROVE  e.ref = r /\ (InHand(e)' \/ Terminal(store'[r]))
    <3>1. r # RefOf(q)
      BY <2>2, <2>3, <2>4 DEF RecordedPayments
    <3>2. store'[r] = store[r]
      BY <1>2, <3>1
    <3>3. e \in RecordedPayments(r)
      BY <2>3, <2>4, <3>2 DEF RecordedPayments
    <3> QED
      BY <2>3, <3>2, <3>3 DEF RecordInv, RecordedMeansApplied, InHand
  <2>5. \A r \in Refs : store'[r] = NoEpisode => deliveries'[r] = {}
    BY <1>2, <2>2, <2>3 DEF RecordInv
  <2>6. RecordedMeansApplied'
    BY <2>4 DEF RecordedMeansApplied, Terminal
  <2> QED
    BY <2>4, <2>5, <2>6 DEF RecordInv
<1> QED
  BY <1>1, <1>2, ServeStores

(* A payment that is applied closes its episode, and one applied before it   *)
(* had closed it already.                                                  *)
LEMMA RecordPut ==
  ASSUME TypeInv, AloneInv, RecordInv, faults = 0, Unraced,
         NEW w \in Workers, InHandNow(w), UNCHANGED <<setup, deliveries>>,
         \A v \in Workers \ {w} : hook[v].pc = "idle",
         NEW episode \in LiveEpisode, Keeps(w, episode) \/ Flushes(w, episode)
  PROVE  /\ \A r \in Refs : \A f \in RecordedPayments(r)' :
              f.ref = r /\ Terminal(store'[r])
         /\ \A r \in Refs : store'[r] = NoEpisode => deliveries'[r] = {}
<1> USE DEF TypeInv
<1> DEFINE e == hook[w].event
           ref == hook[w].event.ref
<1>1. Mine(w) /\ ref \in Refs /\ store[ref] \in LiveEpisode
  BY DEF AloneInv, Keeps, Flushes, InHandNow
<1>2. \A r \in Refs : store'[r] = IF r = ref THEN episode ELSE store[r]
  BY <1>1 DEF Keeps, Flushes, TypeOK
<1>3. /\ Terminal(store[ref]) => Terminal(episode)
      /\ e.kind = "paid" => Terminal(episode)
      /\ ~ setup.durable => episode.seen = store[ref].seen \union {e}
  <2>1. CASE Keeps(w, episode)
    <3>1. Agree(hook[w].held, store[ref]) /\ SeenInHand(w)
      BY <1>1, <2>1 DEF Keeps, Mine
    <3>2. episode.seen = hook[w].held.seen
      BY <2>1, AppliedType DEF Keeps, InHandNow
    <3>3. Terminal(store[ref]) => Terminal(episode)
      BY <2>1, <3>1, AppliedType DEF Keeps, InHandNow, Agree, Terminal
    <3>4. e.kind = "paid" => Terminal(episode)
      BY <2>1, AppliedType DEF Keeps, InHandNow
    <3> QED
      BY <2>1, <3>1, <3>2, <3>3, <3>4 DEF Keeps, SeenInHand
  <2>2. CASE Flushes(w, episode)
    <3>1. Agree(episode, hook[w].held)
      BY <2>2, FlushesItsOwn
    <3> QED
      BY <1>1, <2>2, <3>1 DEF Flushes, Mine, Agree, Terminal
  <2> QED
    BY <2>1, <2>2
<1>4. ASSUME NEW r \in Refs, NEW f \in RecordedPayments(r)'
      PROVE  f.kind = "paid" /\ (f \in RecordedPayments(r) \/ (r = ref /\ f = e))
  BY <1>1, <1>2, <1>3, <1>4, EpisodeFields DEF RecordedPayments
<1>5. ASSUME NEW r \in Refs, NEW f \in RecordedPayments(r)'
      PROVE  f.ref = r
  BY <1>4, <1>5 DEF RecordInv
<1>6. ASSUME NEW r \in Refs, NEW f \in RecordedPayments(r)'
      PROVE  Terminal(store'[r])
  <2>1. CASE f = e
    BY <1>2, <1>3, <1>4, <1>5, <1>6, <2>1
  <2>2. CASE f # e
    <3>1. ~ InHand(f) /\ f \in RecordedPayments(r)
      BY <1>4, <1>6, <2>2 DEF InHand
    <3>2. Terminal(store[r])
      BY <3>1 DEF RecordInv, RecordedMeansApplied
    <3> QED
      BY <1>2, <1>3, <3>2
  <2> QED
    BY <2>1, <2>2
<1>7. \A r \in Refs : store'[r] = NoEpisode => deliveries'[r] = {}
  BY <1>2, EpisodeFields DEF RecordInv
<1> QED
  BY <1>5, <1>6, <1>7

LEMMA RecordHandles ==
  ASSUME TypeInv, AloneInv, RecordInv, faults' = 0, Unraced,
         NEW w \in Workers, Handle(w)
  PROVE  RecordInv'
<1> USE DEF TypeInv
<1>f. faults = 0
  BY SetupsAssumption
  DEF Handle, Unmatched, Match, Duplicate, ClaimEvent, ApplyEvent, PutApplied, Answer,
      TypeOK, Setup
<1>h. /\ \A v \in Workers \ {w} : hook'[v] = hook[v]
      /\ UNCHANGED setup
  BY Handles
<1>o. hook[w].pc # "idle" =>
        InHandNow(w) /\ \A v \in Workers \ {w} : hook[v].pc = "idle"
  BY OthersIdle, HandleStores
<1>p. \A r \in Refs : \A e \in RecordedPayments(r) : InHand(e) \/ Terminal(store[r])
  BY <1>f DEF RecordInv, RecordedMeansApplied
<1>1. ASSUME UNCHANGED <<store, deliveries>>, \A f : InHand(f) => InHand(f)'
      PROVE  RecordInv'
  BY <1>1, <1>f, <1>h DEF RecordInv, RecordedMeansApplied, RecordedPayments, Unraced, Terminal
<1>2. CASE Drops(w)
  BY <1>1, <1>2, <1>h DEF Drops, InHand
<1>3. ASSUME NEW e \in Events, Takes(w, e)
      PROVE  RecordInv'
  BY <1>1, <1>3, <1>h DEF Takes, InHand
<1>4. CASE ClaimEvent(w)
  <2> DEFINE e == hook[w].event
  <2>1. /\ hook[w].pc = "matched"
        /\ hook'[w].pc = "claimed"
        /\ hook'[w].event = e
        /\ UNCHANGED store
    BY <1>4, Claims
  <2>2. e \in Events /\ e.ref \in Refs /\ store[e.ref] # NoEpisode
    BY <1>o, <2>1, EpisodeFields DEF InHandNow
  <2>3. \A f : ~ InHand(f)
    BY <2>1, <1>o DEF InHand
  <2>4. InHand(e)'
    BY <2>1 DEF InHand
  <2>5. \A r \in Refs :
          deliveries'[r] = deliveries[r]
            \/ (r = e.ref /\ deliveries'[r] = deliveries[r] \union {e})
    BY <1>4, <2>2 DEF ClaimEvent, TypeOK
  <2>6. \A r \in Refs : \A f \in RecordedPayments(r)' : f \in RecordedPayments(r) \/ f = e
    BY <2>1, <2>5, <1>h DEF RecordedPayments
  <2>7. \A r \in Refs : \A f \in RecordedPayments(r)' : InHand(f)' \/ Terminal(store'[r])
    BY <1>p, <2>1, <2>3, <2>4, <2>6
  <2>8. \A r \in Refs : store'[r] = NoEpisode => deliveries'[r] = {}
    BY <1>f, <2>1, <2>2, <2>5 DEF RecordInv
  <2>9. RecordedMeansApplied'
    BY <2>7 DEF RecordedMeansApplied, Terminal
  <2>10. \A r \in Refs : \A f \in RecordedPayments(r)' : f.ref = r
    <3>1. ASSUME NEW r \in Refs, NEW f \in RecordedPayments(r)', f \notin RecordedPayments(r)
          PROVE  f = e /\ r = e.ref
      BY <2>1, <2>5, <3>1, <1>h DEF RecordedPayments
    <3> QED
      BY <1>f, <3>1 DEF RecordInv
  <2> QED
    BY <2>8, <2>9, <2>10 DEF RecordInv
<1>5. ASSUME NEW episode \in LiveEpisode, Reads(w, episode)
      PROVE  RecordInv'
  <2>1. /\ hook[w].pc = "claimed"
        /\ hook'[w].pc = "putting"
        /\ hook'[w].event = hook[w].event
        /\ UNCHANGED <<store, deliveries>>
    BY <1>5 DEF Reads
  <2> QED
    BY <1>1, <1>h, <2>1 DEF InHand
<1>6. ASSUME NEW episode \in LiveEpisode, Keeps(w, episode) \/ Flushes(w, episode)
      PROVE  RecordInv'
  <2>1. UNCHANGED deliveries /\ hook[w].pc # "idle"
    BY <1>6 DEF Keeps, Flushes
  <2>2. /\ \A r \in Refs : \A f \in RecordedPayments(r)' :
             f.ref = r /\ Terminal(store'[r])
        /\ \A r \in Refs : store'[r] = NoEpisode => deliveries'[r] = {}
    BY <1>6, <1>f, <1>h, <1>o, <2>1, RecordPut
  <2>3. RecordedMeansApplied'
    BY <2>2 DEF RecordedMeansApplied, Terminal
  <2> QED
    BY <2>2, <2>3 DEF RecordInv
<1> QED
  BY <1>2, <1>3, <1>4, <1>5, <1>6, HandleStores

LEMMA RecordStep ==
  ASSUME TypeInv, PatientInv, AloneInv, RecordInv, [Next]_vars
  PROVE  RecordInv'
<1> USE DEF TypeInv
<1>s. setup' = setup
  BY SetupStays
<1>1. CASE faults' # 0 \/ ~ Unraced
  BY <1>1, <1>s DEF RecordInv, Unraced
<1>2. ASSUME faults' = 0, Unraced, NEW q \in Requests, Serve(q)
      PROVE  RecordInv'
  <2>1. faults = 0
    BY <1>2, ServeServes DEF Served
  <2> QED
    BY <1>2, <2>1, RecordServes
<1>3. ASSUME faults' = 0, Unraced, NEW w \in Workers, Handle(w)
      PROVE  RecordInv'
  BY <1>3, RecordHandles
<1>4. ASSUME faults' = 0, NEW w \in Workers, Crash(w)
      PROVE  FALSE
  BY <1>4, SetupsAssumption DEF Crash, TypeOK, Setup
<1>5. CASE UNCHANGED <<setup, store, deliveries, hook, faults>>
  BY <1>5 DEF RecordInv, RecordedMeansApplied, RecordedPayments, InHand, Unraced
<1> QED
  BY <1>1, <1>2, <1>3, <1>4, <1>5 DEF Next, Accept, Emit, Quiet, vars

(* RecordedMeansApplied: "already applied" is true while nobody dies and     *)
(* nothing races.                                                          *)
THEOREM RecordedAlwaysApplied == Spec => []RecordedMeansApplied
<1>1. Init => RecordInv
  BY RefsAssumption DEF Init, RecordInv, RecordedMeansApplied, RecordedPayments
<1>2. TypeInv /\ PatientInv /\ AloneInv /\ RecordInv /\ [Next]_vars => RecordInv'
  BY RecordStep
<1>3. RecordInv => RecordedMeansApplied
  BY DEF RecordInv, RecordedMeansApplied
<1> QED
  BY TypeInvariant, PatientHolds, AloneHolds, <1>1, <1>2, <1>3, PTL DEF Spec

-----------------------------------------------------------------------------
(* Nothing is credited twice, whatever races.                              *)

(* Money that is a sum of payments of the log other than e.                 *)
Backed(log, money, e) ==
  \E S \in SUBSET {f \in log : f.kind = "paid"} : e \notin S /\ money = Total[S]

(* What is recorded of a reference, by the store or in the episode itself.  *)
Log(r, episode) == IF setup.durable THEN deliveries[r] ELSE episode.seen

(* NothingBookedTwice, the same of the episodes in hand, and that an event   *)
(* being applied is recorded and not yet counted in the episode it is       *)
(* applied to.                                                             *)
InHandBacked(w) ==
  LET log == Log(hook[w].event.ref, hook[w].held)
  IN  IF hook[w].pc = "claimed"
        THEN hook[w].event \in log /\ Backed(log, hook[w].held.recovered, hook[w].event)
        ELSE Backed(log, hook[w].held.recovered, NoEvent)

SumInv ==
  /\ \A r \in Refs :
       store[r] # NoEpisode => Backed(Log(r, store[r]), store[r].recovered, NoEvent)
  /\ \A w \in Workers : hook[w].pc # "idle" => InHandBacked(w)

LEMMA NothingBacked ==
  ASSUME TotalsAdd, NEW log
  PROVE  Backed(log, 0, NoEvent)
  BY DEF TotalsAdd, Backed

LEMMA BackedByMore ==
  ASSUME NEW log, NEW more, log \subseteq more, NEW money, NEW e, Backed(log, money, e)
  PROVE  Backed(more, money, e)
<1>1. PICK S \in SUBSET {f \in log : f.kind = "paid"} : e \notin S /\ money = Total[S]
  BY DEF Backed
<1>2. S \in SUBSET {f \in more : f.kind = "paid"}
  OBVIOUS
<1> QED
  BY <1>1, <1>2 DEF Backed

(* No event is NoEvent, so the exception is none; and what is not in the log *)
(* is in no sum of it.                                                     *)
LEMMA BackedBut ==
  ASSUME NEW log \in SUBSET Events, NEW money, NEW e
  PROVE  /\ Backed(log, money, e) => Backed(log, money, NoEvent)
         /\ e \notin log /\ Backed(log, money, NoEvent) =>
              Backed(log \union {e}, money, e)
<1>1. NoEvent \notin Events
  BY EventFields DEF NoEvent
<1> QED
  BY <1>1 DEF Backed

LEMMA LogType ==
  ASSUME TypeInv, NEW r \in Refs, NEW episode \in LiveEpisode
  PROVE  Log(r, episode) \in SUBSET Events
  BY DEF TypeInv, TypeOK, Log, LiveEpisode

(* apply_event adds the event's payment, and only to a sum it is not in.    *)
LEMMA AppliedBacked ==
  ASSUME TotalsAdd, NEW episode \in LiveEpisode, NEW e \in Events,
         NEW log \in SUBSET Events, e \in log, Backed(log, episode.recovered, e)
  PROVE  Backed(log, Applied(episode, e).recovered, NoEvent)
<1> DEFINE after == Applied(episode, e)
<1>1. CASE after.recovered = episode.recovered
  BY <1>1, BackedBut
<1>2. CASE after.recovered # episode.recovered
  <2>1. ~ Refuses(episode, e)
    BY <1>2 DEF Applied
  <2>2. e.kind = "paid"
    BY <1>2, <2>1, EventFields DEF Applied, LiveEpisode
  <2> DEFINE total == episode.recovered + e.amount
             state == IF total >= Amount[e.ref] THEN "recovered" ELSE "partially_recovered"
  <2>3. after = [episode EXCEPT !.recovered = total, !.state = state]
    BY <2>1, <2>2 DEF Applied
  <2> HIDE DEF total, state
  <2>4. after.recovered = total
    BY <2>3 DEF LiveEpisode
  <2>5. PICK S \in SUBSET {f \in log : f.kind = "paid"} :
          e \notin S /\ episode.recovered = Total[S]
    BY DEF Backed
  <2>6. Total[S \union {e}] = total
    BY <2>5 DEF TotalsAdd, total
  <2>7. /\ S \union {e} \in SUBSET {f \in log : f.kind = "paid"}
        /\ NoEvent \notin S \union {e}
    BY <2>2, EventFields DEF NoEvent
  <2> HIDE DEF after
  <2> QED
    BY <2>4, <2>6, <2>7 DEF Backed, after
<1> QED
  BY <1>1, <1>2

(* A request adds nothing: what it puts has no money, and of a row it        *)
(* changes only other columns, or takes the money away.                    *)
LEMMA SumServes ==
  ASSUME TotalsAdd, TypeInv, SumInv, NEW q \in Requests, Serve(q)
  PROVE  SumInv'
<1> USE DEF TypeInv
<1>1. UNCHANGED <<setup, deliveries, hook>>
  BY ServeServes DEF Served
<1>2. CASE store' = store
  BY <1>1, <1>2 DEF SumInv, InHandBacked, Log
<1>3. CASE /\ Holds(q)
           /\ store'[RefOf(q)] = PutOf(q)
           /\ \A r \in Refs \ {RefOf(q)} : store'[r] = store[r]
  <2> DEFINE r == RefOf(q)
  <2>1. Backed(Log(r, PutOf(q)), PutOf(q).recovered, NoEvent)
    <3>1. CASE req[q].pc # "updating"
      <4>1. PutOf(q).recovered = 0
        BY <1>3, <3>1 DEF PutOf, PutsFresh, Fresh
      <4> QED
        BY <4>1, NothingBacked
    <3>2. CASE req[q].pc = "updating"
      <4>1. /\ r \in Refs
            /\ setup.durable
            /\ store[r] \in LiveEpisode
            /\ req[q].episode \in LiveEpisode
            /\ req[q].episode.recovered = 0
        BY <1>3, <3>2, Holding, RequestsAssumption
        DEF RowsStay, TypeOK, PutsFresh, Fresh
      <4>2. PutOf(q).recovered \in {store[r].recovered, 0}
        BY <3>2, <4>1, FlushedType DEF PutOf
      <4>3. Backed(deliveries[r], store[r].recovered, NoEvent)
        BY <4>1, EpisodeFields DEF SumInv, Log
      <4>4. Log(r, PutOf(q)) = deliveries[r]
        BY <4>1 DEF Log
      <4> QED
        BY <4>2, <4>3, <4>4, NothingBacked
    <3> QED
      BY <3>1, <3>2
  <2>2. \A p \in Refs :
          store'[p] # NoEpisode => Backed(Log(p, store[p])', store'[p].recovered, NoEvent)
    BY <1>1, <1>3, <2>1 DEF SumInv, Log
  <2> QED
    BY <1>1, <2>2 DEF SumInv, InHandBacked, Log
<1> QED
  BY <1>2, <1>3, ServeStores

LEMMA SumHandles ==
  ASSUME TotalsAdd, TypeInv, SumInv, NEW w \in Workers, Handle(w)
  PROVE  SumInv'
<1> USE DEF TypeInv
<1> DEFINE e == hook[w].event
           ref == hook[w].event.ref
           held == hook[w].held
<1>h. /\ \A v \in Workers \ {w} : hook'[v] = hook[v]
      /\ UNCHANGED setup
  BY Handles
<1>0. hook[w].pc # "idle" => InHandNow(w) /\ InHandBacked(w)
  BY HandleStores DEF SumInv
<1>1. ASSUME \A r \in Refs : deliveries[r] \subseteq deliveries'[r],
             \A r \in Refs :
               \/ store'[r] = store[r]
               \/ Backed(Log(r, store[r])', store'[r].recovered, NoEvent),
             hook'[w].pc # "idle" => InHandBacked(w)'
      PROVE  SumInv'
  <2>1. \A r \in Refs :
          store'[r] # NoEpisode =>
            Backed(Log(r, store[r])', store'[r].recovered, NoEvent)
    <3>1. ASSUME NEW r \in Refs, store'[r] = store[r], store[r] # NoEpisode
          PROVE  Backed(Log(r, store[r])', store'[r].recovered, NoEvent)
      <4>1. Log(r, store[r]) \subseteq Log(r, store[r])'
        BY <1>1, <1>h, <3>1 DEF Log
      <4>2. Backed(Log(r, store[r]), store[r].recovered, NoEvent)
        BY <3>1 DEF SumInv
      <4> QED
        BY <3>1, <4>1, <4>2, BackedByMore
    <3> QED
      BY <1>1, <3>1
  <2>2. ASSUME NEW v \in Workers \ {w}, hook'[v].pc # "idle"
        PROVE  InHandBacked(v)'
    <3>1. hook'[v] = hook[v] /\ InHandBacked(v) /\ hook[v].event.ref \in Refs
      BY <1>h, <2>2, EventFields DEF SumInv, Staffed
    <3>2. Log(hook[v].event.ref, hook[v].held) \subseteq Log(hook[v].event.ref, hook[v].held)'
      BY <1>1, <1>h, <3>1 DEF Log
    <3>3. CASE hook[v].pc = "claimed"
      BY <3>1, <3>2, <3>3, BackedByMore DEF InHandBacked
    <3>4. CASE hook[v].pc # "claimed"
      BY <3>1, <3>2, <3>4, BackedByMore DEF InHandBacked
    <3> QED
      BY <3>3, <3>4
  <2> QED
    BY <1>1, <2>1, <2>2 DEF SumInv
<1>2. CASE Drops(w)
  BY <1>0, <1>1, <1>2, <1>h DEF Drops, InHandBacked, Log
<1>3. ASSUME NEW f \in Events, Takes(w, f)
      PROVE  SumInv'
  <2>1. /\ hook'[w].pc = "matched"
        /\ hook'[w].event = f
        /\ hook'[w].held = store[f.ref]
        /\ UNCHANGED <<store, deliveries>>
    BY <1>3 DEF Takes
  <2>2. Backed(Log(f.ref, store[f.ref]), store[f.ref].recovered, NoEvent)
    BY <1>3, EventFields, EpisodeFields DEF Takes, SumInv
  <2>3. InHandBacked(w)'
    BY <1>h, <2>1, <2>2 DEF InHandBacked, Log
  <2> QED
    BY <1>1, <2>1, <2>3
<1>4. CASE ClaimEvent(w) /\ store' = store
  <2> DEFINE log == Log(ref, held)
  <2>1. InHandNow(w) /\ Backed(log, held.recovered, NoEvent)
    BY <1>0, <1>4, Claims DEF InHandBacked
  <2>2. e \notin log
    BY <1>4 DEF ClaimEvent, Recorded, Log
  <2>3. \A r \in Refs : deliveries[r] \subseteq deliveries'[r]
    BY <1>4, <2>1 DEF ClaimEvent, InHandNow, TypeOK
  <2>4. Log(hook[w].event.ref, hook[w].held)' = log \union {e}
    <3>1. CASE setup.durable
      <4>1. deliveries' = [deliveries EXCEPT ![ref] = @ \union {e}]
        BY <1>4, <3>1 DEF ClaimEvent
      <4>2. deliveries'[ref] = deliveries[ref] \union {e}
        BY <2>1, <4>1 DEF InHandNow, TypeOK
      <4> QED
        BY <1>4, <1>h, <3>1, <4>2, Claims DEF Log
    <3>2. CASE ~ setup.durable
      BY <1>4, <1>h, <3>2, Claims DEF Log
    <3> QED
      BY <3>1, <3>2
  <2>5. log \in SUBSET Events
    BY <2>1, LogType DEF InHandNow
  <2>6. Backed(log \union {e}, held.recovered, e)
    <3> HIDE DEF log
    <3> QED  BY <2>1, <2>2, <2>5, BackedBut
  <2>7. InHandBacked(w)'
    BY <1>4, <2>4, <2>6, Claims DEF InHandBacked
  <2> QED
    BY <1>1, <1>4, <2>3, <2>7
<1>5. ASSUME NEW episode \in LiveEpisode, Keeps(w, episode) \/ Reads(w, episode)
      PROVE  SumInv'
  <2> DEFINE log == Log(ref, held)
  <2>1. /\ InHandNow(w)
        /\ e \in log
        /\ Backed(log, held.recovered, e)
        /\ UNCHANGED deliveries
        /\ episode = Applied(held, e)
    BY <1>0, <1>5 DEF Keeps, Reads, InHandBacked
  <2>2. log \in SUBSET Events
    BY <2>1, LogType DEF InHandNow
  <2>3. Backed(log, episode.recovered, NoEvent)
    <3> HIDE DEF log
    <3> QED  BY <2>1, <2>2, AppliedBacked DEF InHandNow
  <2>4. Log(ref, episode) = log
    BY <2>1, AppliedType DEF InHandNow, Log
  <2>5. CASE Keeps(w, episode)
    <3>1. \A r \in Refs : store'[r] = IF r = ref THEN episode ELSE store[r]
      BY <2>1, <2>5 DEF Keeps, InHandNow, TypeOK
    <3>2. \A r \in Refs :
            r = ref => Backed(Log(r, store[r])', store'[r].recovered, NoEvent)
      BY <1>h, <2>1, <2>3, <2>4, <3>1 DEF Log
    <3> QED
      BY <1>1, <2>1, <2>5, <3>1, <3>2 DEF Keeps
  <2>6. CASE Reads(w, episode)
    <3>1. InHandBacked(w)'
      BY <1>h, <2>1, <2>3, <2>4, <2>6 DEF Reads, InHandBacked, Log
    <3> QED
      BY <1>1, <2>1, <2>6, <3>1 DEF Reads
  <2> QED
    BY <1>5, <2>5, <2>6
<1>6. ASSUME NEW episode \in LiveEpisode, Flushes(w, episode)
      PROVE  SumInv'
  <2>1. /\ InHandNow(w)
        /\ Backed(deliveries[ref], held.recovered, NoEvent)
        /\ Backed(deliveries[ref], store[ref].recovered, NoEvent)
        /\ UNCHANGED deliveries
    BY <1>0, <1>6, EpisodeFields DEF Flushes, InHandNow, InHandBacked, SumInv, Log
  <2>2. episode.recovered \in {store[ref].recovered, held.recovered}
    BY <1>6, <2>1, FlushedType DEF Flushes, InHandNow
  <2>3. \A r \in Refs : store'[r] = IF r = ref THEN episode ELSE store[r]
    BY <1>6, <2>1 DEF Flushes, InHandNow, TypeOK
  <2>4. \A r \in Refs :
          r = ref => Backed(Log(r, store[r])', store'[r].recovered, NoEvent)
    BY <1>6, <1>h, <2>1, <2>2, <2>3 DEF Flushes, Log
  <2> QED
    BY <1>1, <1>6, <2>1, <2>3, <2>4 DEF Flushes
<1> QED
  BY <1>2, <1>3, <1>4, <1>5, <1>6, HandleStores

LEMMA SumStep ==
  ASSUME TotalsAdd, TypeInv, SumInv, [Next]_vars
  PROVE  SumInv'
<1>1. ASSUME NEW q \in Requests, Serve(q)
      PROVE  SumInv'
  BY <1>1, SumServes
<1>2. ASSUME NEW w \in Workers, Handle(w)
      PROVE  SumInv'
  BY <1>2, SumHandles
<1>3. ASSUME NEW w \in Workers, Crash(w)
      PROVE  SumInv'
  BY <1>3, Crashes DEF SumInv, InHandBacked, Log, IdleHook
<1>4. CASE UNCHANGED <<setup, store, deliveries, hook>>
  BY <1>4 DEF SumInv, InHandBacked, Log
<1> QED
  BY <1>1, <1>2, <1>3, <1>4 DEF Next, Accept, Emit, Quiet, vars

(* NothingBookedTwice: in every deployment, whatever is asked twice, comes   *)
(* again, races or dies, and however puts mix.                             *)
THEOREM NothingEverBookedTwice ==
  ASSUME TotalsAdd
  PROVE  Spec => []NothingBookedTwice
<1>1. Init => SumInv
  BY RefsAssumption DEF Init, SumInv, IdleHook
<1>2. TypeInv /\ SumInv /\ [Next]_vars => SumInv'
  BY SumStep
<1>3. SumInv => NothingBookedTwice
  <2> SUFFICES ASSUME SumInv, NEW r \in Refs, store[r] # NoEpisode
               PROVE  \E S \in SUBSET RecordedPayments(r) : store[r].recovered = Total[S]
    BY DEF NothingBookedTwice
  <2>1. PICK S \in SUBSET {f \in Log(r, store[r]) : f.kind = "paid"} :
          store[r].recovered = Total[S]
    BY DEF SumInv, Backed
  <2>2. {f \in Log(r, store[r]) : f.kind = "paid"} = RecordedPayments(r)
    BY DEF Log, RecordedPayments
  <2> QED
    BY <2>1, <2>2
<1> QED
  BY TypeInvariant, <1>1, <1>2, <1>3, PTL DEF Spec
=============================================================================
