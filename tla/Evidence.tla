------------------------------ MODULE Evidence ------------------------------
(***************************************************************************)
(* What a diagnosis rests on when no model is asked: the resolved history  *)
(* of diagnose/history.py, the outage detector of diagnose/fleet.py and    *)
(* the rules classifier of strategies/rules.py that consults them in turn. *)
(*                                                                         *)
(* A wording stands for an error description, case and spaces aside, and   *)
(* Text for what the code table and the keywords make of it.  A context is *)
(* <<surface, rail, step, source, code>>: the backoff goes over its         *)
(* prefixes.  Shares are compared by cross-multiplying, in percent.        *)
(***************************************************************************)
EXTENDS Domain

CONSTANTS
  Text,          \* wording -> Diagnosis by code or keyword, or Unread
  MinPurity,     \* exact's min_purity
  MinSupport,    \* prior's min_support
  MinMass,       \* riskiest_alternative's min_mass
  Stream,        \* the failures the fleet view indexes
  Window,        \* window_minutes
  MinFailures, SpikeLift

Unread == [cause |-> NoCause]

Failure == [ref : Nat, issuer : STRING, at : Nat]

(* The two rows of the tables the gate would not take for sure are of causes *)
(* that are never retried.                                                 *)
ASSUME TextAssumption ==
  \A w \in DOMAIN Text :
    \/ Text[w] = Unread
    \/ /\ Text[w] \in Diagnosis
       /\ Text[w].alternative = NoCause /\ Text[w].risk = NoCause
       /\ Text[w].confident \/ Text[w].cause \in {"invoice_forgotten", "risk_declined"}

ASSUME ThresholdsAssumption ==
  /\ MinPurity \in 75 .. 100 /\ MinMass \in 1 .. 100 /\ MinSupport \in Nat \ {0}
  /\ Window \in Nat \ {0} /\ MinFailures \in Nat /\ SpikeLift \in Nat

ASSUME StreamAssumption ==
  IsFiniteSet(Stream) /\ \A f \in Stream : f.ref \in Nat /\ f.at \in Nat

-----------------------------------------------------------------------------
(* ResolvedHistory: the sequence of its exemplars h; the code's counters are *)
(* counts over sets of their places.                                       *)

Exemplar(wording, context, cause) ==
  [wording |-> wording, context |-> context, cause |-> cause]

ByText(h, wording) == {i \in DOMAIN h : h[i].wording = wording}

ByContext(h, context, n) ==
  {i \in DOMAIN h : SubSeq(h[i].context, 1, n) = SubSeq(context, 1, n)}

Having(h, S, cause) == {i \in S : h[i].cause = cause}

Causes(h, S) == {h[i].cause : i \in S}

(* Counter.most_common: of equals, the one met first. *)
Ahead(h, S, c, d) ==
  LET n == Cardinality(Having(h, S, c))
      m == Cardinality(Having(h, S, d))
  IN  \/ n > m
      \/ n = m /\ \E i \in Having(h, S, c) : \A j \in Having(h, S, d) : i < j

MostCommon(h, S, among) ==
  CHOOSE c \in among : \A d \in among \ {c} : Ahead(h, S, c, d)

AtLeast(percent, part, whole) == 100 * Cardinality(part) >= percent * Cardinality(whole)

(* A wording resolved consistently before. *)
Exact(h, wording) ==
  LET S == ByText(h, wording)
      cause == MostCommon(h, S, Causes(h, S))
  IN  IF S # {} /\ AtLeast(MinPurity, Having(h, S, cause), S) THEN cause ELSE NoCause

KnownAmbiguous(h, wording) == ByText(h, wording) # {} /\ Exact(h, wording) = NoCause

Supported(h, context) ==
  {n \in 1 .. 5 : Cardinality(ByContext(h, context, n)) >= MinSupport}

(* The narrowest context with support; no field of it at all is "global". *)
Level(h, context) ==
  IF Supported(h, context) = {} THEN 0
  ELSE CHOOSE n \in Supported(h, context) : \A m \in Supported(h, context) : m <= n

Prior(h, context) == ByContext(h, context, Level(h, context))

Risky(h, S) == {i \in S : h[i].cause \in NEVER_RETRY}

\* Mutation of RiskiestAlternative: each cause is tested by itself.
RiskiestAlternative_Alone(h, S) ==
  LET alarming == {c \in Causes(h, Risky(h, S)) : AtLeast(MinMass, Having(h, S, c), S)}
  IN  IF alarming = {} THEN NoCause ELSE MostCommon(h, S, alarming)

(* The test is on the mass of them all. *)
RiskiestAlternative(h, S) ==
  IF Risky(h, S) # {} /\ AtLeast(MinMass, Risky(h, S), S)
    THEN MostCommon(h, S, Causes(h, Risky(h, S)))
    ELSE NoCause

-----------------------------------------------------------------------------
(* FleetView.  Failures without an issuer are not indexed, and an hour is    *)
(* the least span.                                                         *)

Larger(a, b) == IF a >= b THEN a ELSE b

Indexed == {f \in Stream : f.issuer # ""}

SpanMinutes == CHOOSE s \in {Larger(60, f.at - g.at) : f, g \in Indexed} :
                 \A f, g \in Indexed : f.at - g.at <= s

Stamps(issuer) == {f \in Indexed : f.issuer = issuer}

InWindowAt(issuer, at) == {f \in Stamps(issuer) : at - Window <= f.at /\ f.at <= at}

(* As many as min_failures, and spike_lift times what is expected: the       *)
(* issuer's rate over the whole span, but a twentieth at least.             *)
Spiking(issuer, at) ==
  LET count == Cardinality(InWindowAt(issuer, at))
      usual == 20 * Cardinality(Stamps(issuer)) * Window
  IN  /\ Stamps(issuer) # {}
      /\ count >= MinFailures
      /\ 20 * count * SpanMinutes >= SpikeLift * Larger(SpanMinutes, usual)

-----------------------------------------------------------------------------
(* RulesOnly.diagnose.                                                     *)

Sure(cause) ==
  [cause |-> cause, alternative |-> NoCause, risk |-> NoCause, confident |-> TRUE]

(* The most common cause of the context, its runner-up, and the risk. *)
FromPrior(h, S) ==
  LET cause == MostCommon(h, S, Causes(h, S))
      others == Causes(h, S) \ {cause}
  IN  [cause       |-> cause,
       alternative |-> IF others = {} THEN NoCause ELSE MostCommon(h, S, others),
       risk        |-> RiskiestAlternative(h, S),
       confident   |-> FALSE]

(* Where in the flow it broke, when history is empty. *)
FromContext(context) ==
  [cause |-> CASE context[1] = "receivable"     -> "invoice_forgotten"
               [] context[1] = "mandate"        -> "mandate_insufficient"
               [] context[1] = "payment" /\ context[3] = "authentication" -> "authentication_failed"
               [] context[1] = "payment" /\ context[3] # "authentication"
                    /\ context[4] = "issuer"    -> "insufficient_funds"
               [] OTHER                         -> "unknown",
   alternative |-> NoCause, risk |-> NoCause, confident |-> FALSE]

Rules(h, e) ==
  CASE Exact(h, e.wording) # NoCause -> Sure(Exact(h, e.wording))
    [] Exact(h, e.wording) = NoCause /\ Text[e.wording] # Unread -> Text[e.wording]
    [] Exact(h, e.wording) = NoCause /\ Text[e.wording] = Unread
         /\ Spiking(e.issuer, e.at) -> Sure("issuer_down")
    [] Exact(h, e.wording) = NoCause /\ Text[e.wording] = Unread
         /\ ~ Spiking(e.issuer, e.at) /\ Prior(h, e.context) # {} ->
           FromPrior(h, Prior(h, e.context))
    [] OTHER -> FromContext(e.context)

-----------------------------------------------------------------------------
(* The gate on a retry under a diagnosis (_check_money).                   *)

RetryHeld(d) ==
  \/ d.cause \in NEVER_RETRY
  \/ ~ d.confident /\ {d.alternative, d.risk} \intersect NEVER_RETRY # {}
=============================================================================
