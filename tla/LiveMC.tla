------------------------------- MODULE LiveMC -------------------------------
(***************************************************************************)
(* The live service with one worker or two and one reference.  References  *)
(* never meet, for every operation reads and writes the one it names.      *)
(***************************************************************************)
EXTENDS LiveSafety

MCAmount == [r \in Refs |-> 2]

(* Requests are reference and number: the merchant asks twice.              *)
MCRequests == Refs \X {1, 2}
MCRefOf(q) == q[1]

Says(kind, ref, amount, named, onLink, id) ==
  [kind |-> kind, ref |-> ref, amount |-> amount, named |-> named,
   onLink |-> onLink, id |-> id]

(* The link is paid, or part of it captured, an attempt fails, and the      *)
(* subscription is halted.                                                 *)
MCEvents ==
  {Says("paid", "r1", 2, TRUE, TRUE, 1), Says("paid", "r1", 1, FALSE, TRUE, 2),
   Says("failed", "r1", 0, TRUE, FALSE, 3), Says("halted", "r1", 0, TRUE, FALSE, 4)}

(* Without the halt; what names the reference; a payment and a failure.      *)
NoHalt == {e \in MCEvents : e.kind # "halted"}
Named == {e \in MCEvents : e.named}
PaidAndFailed == {e \in NoHalt : e.named}

Found(ws, news, bound) ==
  [durable |-> TRUE, actuator |-> TRUE, denied |-> {},
   workers |-> ws, patient |-> TRUE,
   news |-> news, faults |-> bound]

One == {CHOOSE w \in Workers : TRUE}

(* One worker with both stores, without credentials, with a denied          *)
(* diagnosis and with impatient merchants; and all the workers together, of *)
(* which one may die, or of which the halt is put beside a payment, or with *)
(* impatient merchants.                                                    *)
MCSetups ==
  LET one == Found(One, MCEvents, 2)
      quieter == [one EXCEPT !.faults = 1]
      impatient == [one EXCEPT !.patient = FALSE, !.news = PaidAndFailed, !.faults = 1]
  IN  {one, [quieter EXCEPT !.durable = FALSE],
       [quieter EXCEPT !.actuator = FALSE], [quieter EXCEPT !.denied = Refs],
       impatient, [impatient EXCEPT !.durable = FALSE, !.news = NoHalt],
       Found(Workers, NoHalt, 1), Found(Workers, Named, 0),
       [Found(Workers, PaidAndFailed, 0) EXCEPT !.patient = FALSE]}

(* What the proof that nothing is booked twice takes of the sum of the       *)
(* receipts.                                                               *)
ASSUME TotalsAssumption == TotalsAdd

(* The deployments of the runs that expect a violation. *)
OneWorkerDies == {Found(Workers, PaidAndFailed, 1)}
NobodyDies == {Found(Workers, PaidAndFailed, 0)}
=============================================================================
