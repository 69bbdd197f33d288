----------------------------- MODULE LiveSafety -----------------------------
(***************************************************************************)
(* What the live service promises the merchant about money.                *)
(***************************************************************************)
EXTENDS LiveService

LOCAL INSTANCE FiniteSetsExt

LiveEpisode ==
  [state : {"waiting", "suppressed", "failed", "recovered",
            "partially_recovered", "escalated"},
   recovered : Nat, link : Refs \union {NoLink}, seen : SUBSET Events]

Request ==
  [pc : {"idle", "answered"}] \union [pc : {"diagnosed", "calling"}, worker : Workers]
    \union [pc : {"putting", "inserting"}, worker : Workers, episode : LiveEpisode]
    \union [pc : {"updating"}, worker : Workers, episode : LiveEpisode, row : LiveEpisode]

(* Every variable of the service keeps its type. *)
TypeOK ==
  /\ setup \in Setups
  /\ store \in [Refs -> LiveEpisode \union {NoEpisode}]
  /\ deliveries \in [Refs -> SUBSET Events]
  /\ ledger \in [Workers -> [Refs -> Refs \union {NoResult, Failed}]]
  /\ links \subseteq Refs
  /\ req \in [Requests -> Request]
  /\ hook \in [Workers -> [pc : {"idle", "matched", "claimed", "putting"},
                           event : Events \union {NoEvent},
                           held : LiveEpisode \union {NoEpisode},
                           row : LiveEpisode \union {NoEpisode}]]
  /\ mail \in [Events -> {"unsent", "pending", "acked"}]
  /\ faults \in 0 .. setup.faults

-----------------------------------------------------------------------------

(* api/store.py: "a terminal episode stays terminal".  A late payment.failed *)
(* does not reopen a recovered episode and no second payment is added to    *)
(* it; only the in-memory store forgets it, when its process dies.          *)
TerminalStaysTerminal ==
  [][\A r \in Refs :
       Terminal(store[r]) =>
         \/ /\ store'[r].state = store[r].state
            /\ store'[r].recovered = store[r].recovered
         \/ ~ setup.durable /\ store'[r] = NoEpisode]_vars

(* One process serves, and merchants wait for their answers: nothing comes   *)
(* between a read of the store and the write that rests on it.             *)
Unraced == setup.patient /\ \A v, w \in setup.workers : v = w

(* The same, where it holds: with one worker and patient merchants no late   *)
(* failure, second capture, redelivery, replay or crash reopens an episode. *)
StaysTerminalUnraced ==
  [][\A r \in Refs :
       Unraced /\ Terminal(store[r]) =>
         \/ /\ store'[r].state = store[r].state
            /\ store'[r].recovered = store[r].recovered
         \/ ~ setup.durable /\ store'[r] = NoEpisode]_vars

Receipts(r) == {e \in Events : e.ref = r /\ e.kind = "paid" /\ mail[e] # "unsent"}

(* A put finds what its reader left, or replaces it whole: on the durable    *)
(* store while nothing comes between, in memory always.                    *)
Whole == Unraced \/ ~ setup.durable

(* What is booked as recovered is one payment the provider reported, counted *)
(* once, and is there exactly when the episode is in a recovered state:     *)
(* through late and second captures, redeliveries, crashes and, in memory,  *)
(* merchants who ask twice at once.  Puts that race on the durable store    *)
(* may leave an escalated or failed episode with money booked.             *)
OneReceiptBooked ==
  Whole =>
    \A r \in Refs :
      store[r] # NoEpisode =>
        /\ store[r].recovered > 0 <=> store[r].state \in RecoveredStates
        /\ store[r].recovered > 0 =>
             \E e \in Receipts(r) : e.amount = store[r].recovered

(* An episode that still waits has a payment link, and the provider has it:  *)
(* a failed call, a replay, a reconciliation, a crash between the call and  *)
(* the write, and puts of several workers that each update some columns     *)
(* never leave an open episode nobody can pay.  On the durable store the    *)
(* merchant must wait for an answer before asking again.                   *)
WaitingHasLink ==
  setup.actuator /\ (setup.patient \/ ~ setup.durable) =>
    \A r \in Refs :
      store[r].state = "waiting" => store[r].link = r /\ r \in links

RecordedPayments(r) ==
  {e \in (IF setup.durable THEN deliveries[r]
          ELSE IF store[r] = NoEpisode THEN {} ELSE store[r].seen) : e.kind = "paid"}

(* What payments come to: Total[S] is the sum of the amounts of S.           *)
Total == [S \in SUBSET Events |-> MapThenSumSet(LAMBDA e : e.amount, S)]

(* A sum of amounts is what it should be.                                   *)
TotalsAdd ==
  /\ Total[{}] = 0
  /\ \A S \in SUBSET Events : \A e \in Events \ S :
       Total[S \union {e}] = Total[S] + e.amount

(* In every deployment, whatever races, crashes or comes again: what is      *)
(* booked is the sum of payments recorded of the episode, each counted at   *)
(* most once.  A put may erase or revive what another wrote, and mix their  *)
(* columns, but no payment is credited twice and none is made up.          *)
NothingBookedTwice ==
  \A r \in Refs :
    store[r] # NoEpisode =>
      \E S \in SUBSET RecordedPayments(r) : store[r].recovered = Total[S]

InHand(e) ==
  \E w \in Workers : hook[w].pc \in {"claimed", "putting"} /\ hook[w].event = e

(* A payment that was recorded, and is not just being applied, has taken     *)
(* effect: its episode waits no more.  This is what makes it safe to answer *)
(* "already applied" to a duplicate, and it holds while no worker dies and   *)
(* nothing races.                                                          *)
RecordedMeansApplied ==
  faults = 0 /\ Unraced =>
    \A r \in Refs : \A e \in RecordedPayments(r) :
      InHand(e) \/ Terminal(store[r])

(* api/app.py answers a duplicate with "already applied", and               *)
(* api/pg_store.py says the store is correct for "a provider that           *)
(* redelivers events precisely when a worker went away mid-request".        *)
AlreadyAppliedIsTrue ==
  \A r \in Refs : \A e \in RecordedPayments(r) : InHand(e) \/ Terminal(store[r])

(* "retrying an event we will never act on is a queue that never drains":    *)
(* every event the provider delivers is acknowledged in the end.            *)
QueueDrains == \A e \in Events : mail[e] = "pending" ~> mail[e] = "acked"
=============================================================================
