---------------------------- MODULE LiveService ----------------------------
(***************************************************************************)
(* The running service (src/wapas/api): POST /episodes opens an episode    *)
(* and creates its payment link, POST /webhooks/razorpay applies what the  *)
(* provider says of it.                                                    *)
(*                                                                         *)
(* open_episode runs on a thread of its own: its reads and writes of the   *)
(* store and its call to the provider are separate steps.  The webhook     *)
(* handler never awaits after it has the body, so a worker handles one     *)
(* event at a time; several workers share the durable store, and a worker  *)
(* may die between any two steps.  A put to the durable store reads the    *)
(* row and then updates the columns in which the episode differs from what *)
(* it read, with no lock and no version: two puts may leave a mixture.     *)
(***************************************************************************)
EXTENDS Domain

CONSTANTS
  Workers,       \* processes that may serve the application
  Setups,        \* what the service may find itself with (Setup)
  Refs,          \* merchants' references, one episode each
  Amount,        \* reference -> paise at stake
  Requests,      \* POST /episodes
  RefOf(_),      \* request -> reference
  Events         \* what the provider may come to say

(* A link is identified with the reference it was created for. *)
NoLink == "no_link"

(* `named`: the notes carry our reference; `onLink`: the entity is the link. *)
Event ==
  [kind : {"paid", "failed", "halted", "other"}, ref : Refs, amount : Nat,
   named : BOOLEAN, onLink : BOOLEAN, id : Nat]

(* Is the database reachable, are there Razorpay credentials, which           *)
(* references have a diagnosis the gate refuses a link for, which processes *)
(* serve, does a merchant wait for its answer before it asks again, what    *)
(* will the provider say, and how many crashes and lost answers come?       *)
Setup ==
  [durable : BOOLEAN, actuator : BOOLEAN, denied : SUBSET Refs,
   workers : SUBSET Workers, patient : BOOLEAN,
   news : SUBSET Events, faults : Nat]

ASSUME RefsAssumption == NoLink \notin Refs
ASSUME AmountAssumption == Amount \in [Refs -> Nat \ {0}]
ASSUME RequestsAssumption == \A r \in Requests : RefOf(r) \in Refs
ASSUME EventsAssumption == Events \subseteq Event
ASSUME SetupsAssumption == Setups \subseteq Setup
(* The in-memory store belongs to one process. *)
ASSUME MemoryAssumption ==
  \A s \in Setups : ~ s.durable => \A v, w \in s.workers : v = w

NoEpisode == [state |-> "absent"]
NoEvent == [kind |-> "none"]
NoResult == "no_result"
Failed == "failed"

VARIABLES
  setup,
  store,       \* reference -> LiveEpisode
  deliveries,  \* reference -> events in webhook_delivery
  ledger,      \* worker -> reference -> result in the actuator's store
  links,       \* references the provider has a link for
  req,         \* request -> where open_episode is
  hook,        \* worker -> where razorpay_webhook is
  mail,        \* event -> unsent, pending (no 2xx yet) or acked
  faults

vars == <<setup, store, deliveries, ledger, links, req, hook, mail, faults>>

IdleRequest == [pc |-> "idle"]
Answered == [pc |-> "answered"]
IdleHook == [pc |-> "idle", event |-> NoEvent, held |-> NoEpisode, row |-> NoEpisode]

Init ==
  /\ setup \in Setups
  /\ store = [r \in Refs |-> NoEpisode]
  /\ deliveries = [r \in Refs |-> {}]
  /\ ledger = [w \in Workers |-> [r \in Refs |-> NoResult]]
  /\ links = {}
  /\ req = [q \in Requests |-> IdleRequest]
  /\ hook = [w \in Workers |-> IdleHook]
  /\ mail = [e \in Events |-> "unsent"]
  /\ faults = 0

Terminal(episode) == episode.state \in TERMINAL_STATES

-----------------------------------------------------------------------------
(* POST /episodes.                                                         *)

InProgress(q) == req[q].pc \notin {"idle", "answered"}

Alone(q) == \A other \in Requests : RefOf(other) = RefOf(q) => ~ InProgress(other)

(* A reference already known is answered from the store. *)
Accept(q, w) ==
  /\ req[q].pc = "idle"
  /\ w \in setup.workers
  /\ setup.patient => Alone(q)
  /\ req' = [req EXCEPT ![q] =
               IF store[RefOf(q)] = NoEpisode THEN [pc |-> "diagnosed", worker |-> w]
                                              ELSE Answered]
  /\ UNCHANGED <<setup, store, deliveries, ledger, links, hook, mail, faults>>

(* The episode put is a new object: it knows no event and no payment. *)
Opened(state, link) == [state |-> state, recovered |-> 0, link |-> link, seen |-> {}]

Putting(q, episode) ==
  req' = [req EXCEPT ![q] = [pc |-> "putting", worker |-> @.worker, episode |-> episode]]

Suppress(q) ==
  /\ req[q].pc = "diagnosed"
  /\ RefOf(q) \in setup.denied
  /\ Putting(q, Opened("suppressed", NoLink))
  /\ UNCHANGED <<setup, store, deliveries, ledger, links, hook, mail, faults>>

NothingActuated(q) ==
  /\ req[q].pc = "diagnosed"
  /\ RefOf(q) \notin setup.denied
  /\ ~ setup.actuator
  /\ Putting(q, Opened("waiting", NoLink))
  /\ UNCHANGED <<setup, store, deliveries, ledger, links, hook, mail, faults>>

\* Mutation of StateOpened: a failed actuation is taken for a link.
StateOpened_Blind(result) == "waiting"

StateOpened(result) == IF result = Failed THEN "failed" ELSE "waiting"

\* Mutation of Actuated: the result is stored as the link, whatever it is.
Actuated_Raw(q, result) == Putting(q, Opened(StateOpened(result), result))

Actuated(q, result) ==
  Putting(q, Opened(StateOpened(result), IF result = Failed THEN NoLink ELSE result))

(* A result in the ledger is replayed; the read of the ledger and the call  *)
(* are two steps, and two requests may both come to call.                   *)
LookUp(q) ==
  LET known == ledger[req[q].worker][RefOf(q)]
  IN  /\ req[q].pc = "diagnosed"
      /\ RefOf(q) \notin setup.denied
      /\ setup.actuator
      /\ IF known = NoResult THEN req' = [req EXCEPT ![q].pc = "calling"]
                             ELSE Actuated(q, known)
      /\ UNCHANGED <<setup, store, deliveries, ledger, links, hook, mail, faults>>

(* The provider keeps reference_id unique.  A call may fail before or after *)
(* it took effect; a duplicate is looked for among the first hundred links, *)
(* which may not show it or not answer.                                    *)
CallOutcomes(r) ==
  IF r \in links THEN {[result |-> r, links |-> links], [result |-> Failed, links |-> links]}
  ELSE {[result |-> r, links |-> links \union {r}],
        [result |-> Failed, links |-> links \union {r}],
        [result |-> Failed, links |-> links]}

CreatePaymentLink(q) ==
  /\ req[q].pc = "calling"
  /\ \E outcome \in CallOutcomes(RefOf(q)) :
       /\ links' = outcome.links
       /\ ledger' = [ledger EXCEPT ![req[q].worker][RefOf(q)] = outcome.result]
       /\ Actuated(q, outcome.result)
  /\ UNCHANGED <<setup, store, deliveries, hook, mail, faults>>

\* Mutation of Flushed: money is added to what the row holds.
Flushed_Added(row, read, episode) ==
  LET column(c) == IF episode[c] = read[c] THEN row[c] ELSE episode[c]
  IN  [state |-> column("state"), link |-> column("link"), seen |-> row.seen,
       recovered |-> IF episode.recovered = read.recovered THEN row.recovered
                     ELSE row.recovered + episode.recovered]

(* The UPDATE at commit sets the columns in which the episode differs from   *)
(* the row as the transaction read it; the others are what the row holds.  *)
Flushed(row, read, episode) ==
  LET column(c) == IF episode[c] = read[c] THEN row[c] ELSE episode[c]
  IN  [state |-> column("state"), recovered |-> column("recovered"),
       link |-> column("link"), seen |-> row.seen]

Written(q, episode) ==
  /\ store' = [store EXCEPT ![RefOf(q)] = episode]
  /\ req' = [req EXCEPT ![q] = Answered]

(* put: a dictionary takes the object; of a table the row is read first.    *)
StoreOpened(q) ==
  /\ req[q].pc = "putting"
  /\ \/ ~ setup.durable /\ Written(q, req[q].episode)
     \/ /\ setup.durable /\ store[RefOf(q)] = NoEpisode
        /\ req' = [req EXCEPT ![q].pc = "inserting"] /\ UNCHANGED store
     \/ /\ setup.durable /\ store[RefOf(q)] # NoEpisode
        /\ req' = [req EXCEPT ![q] = [pc |-> "updating", worker |-> @.worker,
                                       episode |-> @.episode, row |-> store[RefOf(q)]]]
        /\ UNCHANGED store
  /\ UNCHANGED <<setup, deliveries, ledger, links, hook, mail, faults>>

Update(q) ==
  /\ req[q].pc = "updating"
  /\ Written(q, Flushed(store[RefOf(q)], req[q].row, req[q].episode))
  /\ UNCHANGED <<setup, deliveries, ledger, links, hook, mail, faults>>

(* A reference is unique: if another request has inserted it meanwhile, this *)
(* one fails without an effect, and the merchant may ask again.             *)
Insert(q) ==
  /\ req[q].pc = "inserting"
  /\ IF store[RefOf(q)] = NoEpisode
       THEN Written(q, req[q].episode)
       ELSE req' = [req EXCEPT ![q] = IdleRequest] /\ UNCHANGED store
  /\ UNCHANGED <<setup, deliveries, ledger, links, hook, mail, faults>>

-----------------------------------------------------------------------------
(* POST /webhooks/razorpay.                                                *)

(* The provider comes to say e; of a link it can only speak once created. *)
Emit(e) ==
  /\ e \in setup.news
  /\ mail[e] = "unsent"
  /\ e.onLink => e.ref \in links
  /\ mail' = [mail EXCEPT ![e] = "pending"]
  /\ UNCHANGED <<setup, store, deliveries, ledger, links, req, hook, faults>>

(* Everything verified is answered with a 2xx; the answer may be lost, and   *)
(* the provider then delivers the event again.                              *)
Answer(e) ==
  \/ mail' = [mail EXCEPT ![e] = "acked"] /\ UNCHANGED faults
  \/ faults < setup.faults /\ faults' = faults + 1 /\ UNCHANGED mail

Matches(e) ==
  /\ store[e.ref] # NoEpisode
  /\ e.named \/ (e.onLink /\ store[e.ref].link = e.ref)

Unmatched(w, e) ==
  /\ w \in setup.workers
  /\ hook[w].pc = "idle"
  /\ mail[e] = "pending"
  /\ ~ Matches(e)
  /\ Answer(e)
  /\ UNCHANGED <<setup, store, deliveries, ledger, links, req, hook>>

Match(w, e) ==
  /\ w \in setup.workers
  /\ hook[w].pc = "idle"
  /\ mail[e] = "pending"
  /\ Matches(e)
  /\ hook' = [hook EXCEPT ![w] = [pc |-> "matched", event |-> e, held |-> store[e.ref],
                              row |-> NoEpisode]]
  /\ UNCHANGED <<setup, store, deliveries, ledger, links, req, mail, faults>>

(* What the store compares a delivery with. *)
Recorded(w) ==
  IF setup.durable THEN deliveries[hook[w].event.ref] ELSE hook[w].held.seen

\* Mutation of Duplicate: a duplicate is not answered with a 2xx.
Duplicate_Refused(w) ==
  /\ hook[w].pc = "matched"
  /\ hook[w].event \in Recorded(w)
  /\ hook' = [hook EXCEPT ![w] = IdleHook]
  /\ UNCHANGED <<setup, store, deliveries, ledger, links, req, mail, faults>>

Duplicate(w) ==
  /\ hook[w].pc = "matched"
  /\ hook[w].event \in Recorded(w)
  /\ Answer(hook[w].event)
  /\ hook' = [hook EXCEPT ![w] = IdleHook]
  /\ UNCHANGED <<setup, store, deliveries, ledger, links, req>>

ClaimEvent(w) ==
  /\ hook[w].pc = "matched"
  /\ hook[w].event \notin Recorded(w)
  /\ IF setup.durable
       THEN /\ deliveries' = [deliveries EXCEPT ![hook[w].event.ref] =
                                @ \union {hook[w].event}]
            /\ hook' = [hook EXCEPT ![w].pc = "claimed"]
       ELSE /\ hook' = [hook EXCEPT ![w].pc = "claimed",
                                    ![w].held.seen = @ \union {hook[w].event}]
            /\ UNCHANGED deliveries
  /\ UNCHANGED <<setup, store, ledger, links, req, mail, faults>>

\* Mutation of Refuses: a terminal episode takes a late failure for news.
Refuses_PaidOnly(episode, e) == Terminal(episode) /\ e.kind = "paid"

\* Mutation of Refuses: a terminal episode takes another payment.
Refuses_Never(episode, e) == FALSE

Refuses(episode, e) == Terminal(episode)

(* apply_event. *)
Applied(episode, e) ==
  IF Refuses(episode, e) THEN episode
  ELSE CASE e.kind = "paid" ->
              LET total == episode.recovered + e.amount
              IN  [episode EXCEPT
                     !.recovered = total,
                     !.state = IF total >= Amount[e.ref] THEN "recovered"
                                                         ELSE "partially_recovered"]
         [] e.kind = "failed" -> [episode EXCEPT !.state = "waiting"]
         [] e.kind = "halted" -> [episode EXCEPT !.state = "escalated"]
         [] OTHER -> episode

\* Mutation of ApplyEvent: the episode is not written back.
ApplyEvent_NoPut(w) ==
  /\ hook[w].pc = "claimed"
  /\ Answer(hook[w].event)
  /\ hook' = [hook EXCEPT ![w] = IdleHook]
  /\ UNCHANGED <<setup, store, deliveries, ledger, links, req>>

(* The event is applied to the held episode, whatever the store holds by     *)
(* now, and the episode is put: into the dictionary, or the row is read.   *)
ApplyEvent(w) ==
  LET e == hook[w].event
      applied == Applied(hook[w].held, e)
  IN  /\ hook[w].pc = "claimed"
      /\ \/ /\ ~ setup.durable
            /\ store' = [store EXCEPT ![e.ref] = applied]
            /\ Answer(e)
            /\ hook' = [hook EXCEPT ![w] = IdleHook]
         \/ /\ setup.durable
            /\ hook' = [hook EXCEPT ![w] = [pc |-> "putting", event |-> e,
                                            held |-> applied, row |-> store[e.ref]]]
            /\ UNCHANGED <<store, mail, faults>>
      /\ UNCHANGED <<setup, deliveries, ledger, links, req>>

PutApplied(w) ==
  LET ref == hook[w].event.ref
  IN  /\ hook[w].pc = "putting"
      /\ store' = [store EXCEPT ![ref] = Flushed(@, hook[w].row, hook[w].held)]
      /\ Answer(hook[w].event)
      /\ hook' = [hook EXCEPT ![w] = IdleHook]
      /\ UNCHANGED <<setup, deliveries, ledger, links, req>>

-----------------------------------------------------------------------------
(* A worker dies: the handlers it was running, the actuator's store and an  *)
(* in-memory episode store die with it.  The merchant and the provider try  *)
(* again.                                                                  *)
Crash(w) ==
  /\ w \in setup.workers
  /\ faults < setup.faults
  /\ faults' = faults + 1
  /\ hook' = [hook EXCEPT ![w] = IdleHook]
  /\ ledger' = [ledger EXCEPT ![w] = [r \in Refs |-> NoResult]]
  /\ req' = [q \in Requests |->
               IF InProgress(q) /\ req[q].worker = w THEN IdleRequest ELSE req[q]]
  /\ store' = IF setup.durable THEN store ELSE [r \in Refs |-> NoEpisode]
  /\ UNCHANGED <<setup, deliveries, links, mail>>

(* Nothing asked, nothing said, nothing in hand. *)
Quiet ==
  /\ \A q \in Requests : ~ InProgress(q)
  /\ \A w \in Workers : hook[w].pc = "idle"
  /\ \A e \in Events : mail[e] # "pending"
  /\ UNCHANGED vars

Serve(q) ==
  \/ Suppress(q) \/ NothingActuated(q)
  \/ LookUp(q) \/ CreatePaymentLink(q) \/ StoreOpened(q) \/ Update(q) \/ Insert(q)

Handle(w) ==
  \/ \E e \in Events : Unmatched(w, e) \/ Match(w, e)
  \/ Duplicate(w) \/ ClaimEvent(w) \/ ApplyEvent(w) \/ PutApplied(w)

Next ==
  \/ \E q \in Requests, w \in Workers : Accept(q, w)
  \/ \E q \in Requests : Serve(q)
  \/ \E e \in Events : Emit(e)
  \/ \E w \in Workers : Handle(w) \/ Crash(w)
  \/ Quiet

Spec == Init /\ [][Next]_vars

(* The event loop of a worker and the thread of a request keep running. *)
FairSpec ==
  /\ Spec
  /\ \A w \in Workers : WF_vars(Handle(w))
  /\ \A q \in Requests : WF_vars(Serve(q))
=============================================================================
