------------------------------ MODULE Database ------------------------------
(***************************************************************************)
(* The schema (src/wapas/db, migrations 0001 and 0002): its foreign keys   *)
(* with what each does on DELETE, and the triggers that make audit_entry   *)
(* append-only, under any sequence of inserts, deletes, truncations and    *)
(* updates of references the database accepts; and erasure, by sessions    *)
(* that run at once.  A statement that is refused fails whole and is no    *)
(* step.  Nothing in the schema guards a counterparty's own columns: what  *)
(* is said of an opt-out holds for the statements the code has for them.   *)
(*                                                                         *)
(* A row is its table and a number that stands for its primary key and its *)
(* unique keys.  Of its columns the model keeps those that refer to rows,  *)
(* and of a counterparty the moment of its opt-out.                        *)
(***************************************************************************)
EXTENDS Integers, FiniteSets

CONSTANTS
  Numbers,   \* table -> the rows it may hold
  MaxRows,   \* bound on the rows held at once
  Sessions,  \* database sessions that may erase
  Times      \* moments of an opt-out or an erasure

Table ==
  {"counterparty", "risk_event", "episode", "webhook_delivery", "decision",
   "action", "cost_entry", "outcome", "audit_entry"}

ASSUME NumbersAssumption == DOMAIN Numbers = Table
ASSUME BoundAssumption == MaxRows \in Nat
ASSUME TimesAssumption == Times \subseteq Nat

Null == <<"null", 0>>
Never == -1

Row == {<<t, n>> : t \in Table, n \in UNION {Numbers[u] : u \in Table}}

Key(from, column, to, onDelete, null) ==
  [from |-> from, column |-> column, to |-> to, onDelete |-> onDelete,
   null |-> null]

RiskEventKeys == {Key("risk_event", "counterparty_id", "counterparty", "CASCADE", "NOT_NULL")}

EpisodeKeys ==
  {Key("episode", "counterparty_id", "counterparty", "CASCADE", "NOT_NULL"),
   Key("episode", "risk_event_id", "risk_event", "CASCADE", "NOT_NULL")}

DeliveryKeys == {Key("webhook_delivery", "episode_id", "episode", "CASCADE", "NOT_NULL")}

DecisionKeys == {Key("decision", "episode_id", "episode", "CASCADE", "NOT_NULL")}

ActionKeys ==
  {Key("action", "decision_id", "decision", "CASCADE", "NOT_NULL"),
   Key("action", "episode_id", "episode", "CASCADE", "NOT_NULL")}

CostKeys ==
  {Key("cost_entry", "episode_id", "episode", "CASCADE", "NOT_NULL"),
   Key("cost_entry", "action_id", "action", "CASCADE", "NULL"),
   Key("cost_entry", "decision_id", "decision", "CASCADE", "NULL")}

OutcomeKeys ==
  {Key("outcome", "episode_id", "episode", "CASCADE", "NOT_NULL"),
   Key("outcome", "attributed_to_action_id", "action", "SET_NULL", "NULL")}

AuditKeys == {Key("audit_entry", "episode_id", "episode", "RESTRICT", "NULL")}

ForeignKeys ==
  RiskEventKeys \union EpisodeKeys \union DeliveryKeys \union DecisionKeys
    \union ActionKeys \union CostKeys \union OutcomeKeys \union AuditKeys

KeysOf == [t \in Table |-> {k \in ForeignKeys : k.from = t}]

OnDelete(t, rule) == {k.column : k \in {k \in KeysOf[t] : k.onDelete = rule}}

ColumnsOf == [t \in Table |-> {k.column : k \in KeysOf[t]}]
Cascading == [t \in Table |-> OnDelete(t, "CASCADE")]
Clearing == [t \in Table |-> OnDelete(t, "SET_NULL")]
Restricting == [t \in Table |-> OnDelete(t, "RESTRICT")]

(* What opted_out_at holds. *)
Moment == Times \union {Never}

VARIABLES
  refs,      \* row held -> column -> the row it refers to, or Null
  optedOut,  \* counterparty held -> opted_out_at
  erasing    \* session -> the counterparty it erases, and the date it read

vars == <<refs, optedOut, erasing>>

Held == DOMAIN refs
HeldIn(t) == {r \in Held : r[1] = t}

NoErasure == [of |-> Null, read |-> Never]

Init ==
  /\ refs = << >>
  /\ optedOut = << >>
  /\ erasing = [s \in Sessions |-> NoErasure]

-----------------------------------------------------------------------------
(* INSERT.                                                                 *)

(* Each column refers to a row that is there, or to none where it may.       *)
Resolves(k, target) ==
  \/ k.null = "NULL" /\ target = Null
  \/ target \in HeldIn(k.to)

Referring(t) ==
  {f \in [ColumnsOf[t] -> Held \union {Null}] : \A k \in KeysOf[t] : Resolves(k, f[k.column])}

Extended(f, r, value) == [x \in DOMAIN f \union {r} |-> IF x = r THEN value ELSE f[x]]

Room(n) == Cardinality(Held) + n <= MaxRows

Insert(t) ==
  /\ t # "counterparty"
  /\ Room(1)
  /\ \E n \in Numbers[t], f \in Referring(t) :
       /\ <<t, n>> \notin Held
       /\ refs' = Extended(refs, <<t, n>>, f)
  /\ UNCHANGED <<optedOut, erasing>>

NoColumns == [c \in {} |-> Null]

InsertCounterparty ==
  /\ Room(1)
  /\ \E n \in Numbers["counterparty"], at \in Moment :
       LET r == <<"counterparty", n>>
       IN  /\ r \notin Held
           /\ refs' = Extended(refs, r, NoColumns)
           /\ optedOut' = Extended(optedOut, r, at)
  /\ UNCHANGED erasing

(* PostgresEpisodeStore._create: three rows named for the reference n, with  *)
(* no contact detail, in one transaction that succeeds or leaves nothing.   *)
OpenLive(n) ==
  LET c == <<"counterparty", n>>
      v == <<"risk_event", n>>
      e == <<"episode", n>>
  IN  /\ {c, v, e} \intersect Held = {}
      /\ Room(3)
      /\ refs' = [r \in Held \union {c, v, e} |->
                    CASE r = c -> NoColumns
                      [] r = v -> [counterparty_id |-> c]
                      [] r = e -> [counterparty_id |-> c, risk_event_id |-> v]
                      [] OTHER -> refs[r]]
      /\ optedOut' = Extended(optedOut, c, Never)
      /\ UNCHANGED erasing

-----------------------------------------------------------------------------
(* DELETE, with all that goes with it.                                     *)

RefersInto(x, columns, S) == \E c \in columns : refs[x][c] \in S

CascadeClosed(S) == \A x \in Held \ S : ~ RefersInto(x, Cascading[x[1]], S)

(* The least set that holds r and is closed under ON DELETE CASCADE. *)
Doomed(r) ==
  LET closed == {S \in SUBSET Held : r \in S /\ CascadeClosed(S)}
  IN  {x \in Held : \A S \in closed : x \in S}

Restricted(S) == \E x \in Held : RefersInto(x, Restricting[x[1]], S)

\* Mutation of AppendOnly: the triggers are missing.
AppendOnly_None == {}

(* audit_entry_no_update, audit_entry_no_delete, audit_entry_no_truncate. *)
AppendOnly == {"audit_entry"}

Cleared(x, S) ==
  [c \in ColumnsOf[x[1]] |->
     IF c \in Clearing[x[1]] /\ refs[x][c] \in S THEN Null ELSE refs[x][c]]

(* An erasure of a row that goes finds nothing to update, and fails. *)
Remove(S) ==
  /\ refs' = [x \in Held \ S |-> Cleared(x, S)]
  /\ optedOut' = [c \in DOMAIN optedOut \ S |-> optedOut[c]]
  /\ erasing' = [s \in Sessions |-> IF erasing[s].of \in S THEN NoErasure ELSE erasing[s]]

Delete(r) ==
  LET doomed == Doomed(r)
  IN  /\ r \in Held
      /\ \A x \in doomed : x[1] \notin AppendOnly
      /\ ~ Restricted(doomed)
      /\ Remove(doomed)

(* TRUNCATE ... CASCADE takes the tables that refer to the table, whatever   *)
(* their ON DELETE says.                                                   *)
TableClosed(T) == \A k \in ForeignKeys : k.to \in T => k.from \in T

Emptied ==
  [t \in Table |-> {u \in Table : \A T \in SUBSET Table : t \in T /\ TableClosed(T) => u \in T}]

Truncate(t) ==
  /\ Emptied[t] \intersect AppendOnly = {}
  /\ HeldIn(t) # {}
  /\ Remove({x \in Held : x[1] \in Emptied[t]})

-----------------------------------------------------------------------------
(* UPDATE.                                                                 *)

(* A row is pointed elsewhere. *)
Repoint(x) ==
  /\ x \in Held
  /\ x[1] \notin AppendOnly
  /\ \E f \in Referring(x[1]) : refs' = [refs EXCEPT ![x] = f]
  /\ UNCHANGED <<optedOut, erasing>>

(* Someone who has not opted out does.  The column is there for it; no code   *)
(* of the repository writes it but an insert and an erasure.               *)
OptOut(c) ==
  /\ optedOut[c] = Never
  /\ \E at \in Times : optedOut' = [optedOut EXCEPT ![c] = at]
  /\ UNCHANGED <<refs, erasing>>

(* erase_counterparty gets the row and decides what to change.  The row is   *)
(* not locked, and what else happens to it before the flush is not seen.   *)
EraseReads(s, c) ==
  /\ erasing[s] = NoErasure
  /\ erasing' = [erasing EXCEPT ![s] = [of |-> c, read |-> optedOut[c]]]
  /\ UNCHANGED <<refs, optedOut>>

\* Mutation of Stamped: the opt-out is stamped again.
Stamped_Again(row, read, at) == at

(* "or at": the UPDATE sets the column if it was empty as it was read.       *)
Stamped(row, read, at) == IF read = Never THEN at ELSE row

(* The row stays, and everything that refers to it. *)
EraseFlush(s) ==
  LET c == erasing[s].of
  IN  /\ erasing[s] # NoErasure
      /\ \E at \in Times :
           optedOut' = [optedOut EXCEPT ![c] = Stamped(@, erasing[s].read, at)]
      /\ erasing' = [erasing EXCEPT ![s] = NoErasure]
      /\ UNCHANGED refs

-----------------------------------------------------------------------------

Next ==
  \/ \E t \in Table : Insert(t) \/ Truncate(t)
  \/ InsertCounterparty
  \/ \E n \in Numbers["episode"] : OpenLive(n)
  \/ \E r \in Held : Delete(r) \/ Repoint(r)
  \/ \E c \in DOMAIN optedOut : OptOut(c) \/ \E s \in Sessions : EraseReads(s, c)
  \/ \E s \in Sessions : EraseFlush(s)

Spec == Init /\ [][Next]_vars

-----------------------------------------------------------------------------
(* What the storage layer promises.                                        *)

(* Every row held refers, column by column, to rows held of the right table, *)
(* every counterparty held has opted out or not, and every erasure in       *)
(* progress is of a counterparty held.                                     *)
TypeOK ==
  /\ Held \subseteq Row
  /\ \A r \in Held : refs[r] \in Referring(r[1])
  /\ DOMAIN optedOut = HeldIn("counterparty")
  /\ \A c \in DOMAIN optedOut : optedOut[c] \in Moment
  /\ erasing \in [Sessions -> [of : DOMAIN optedOut, read : Moment] \union {NoErasure}]

(* migrations/0001: "deleting an episode must not be a back door to deleting *)
(* its audit trail".  An entry once written stays as it was written, and    *)
(* the episode it is about stays with it, whatever is deleted above or      *)
(* around them, in whichever order, and whoever is erased.                 *)
TrailKept ==
  [][\A a \in HeldIn("audit_entry") :
       /\ a \in DOMAIN refs' /\ refs'[a] = refs[a]
       /\ refs[a].episode_id # Null => refs[a].episode_id \in DOMAIN refs']_vars

Audited(c) ==
  \E a \in HeldIn("audit_entry") :
    /\ refs[a].episode_id # Null
    /\ refs[refs[a].episode_id].counterparty_id = c

(* An erasure in progress read the counterparty before it had opted out.     *)
Overtaken(c) ==
  \E s \in Sessions : erasing[s].of = c /\ erasing[s].read = Never

(* db/models.py: "Opt-out is permanent".  Whoever has opted out stays so,    *)
(* through erasures that run at once, before or after, and is gone only     *)
(* with a counterparty no audit entry is about.  The date does not move     *)
(* either, but for one case: an erasure that read the row before the        *)
(* opt-out puts its own date over it.                                       *)
OptOutStands ==
  [][\A c \in DOMAIN optedOut :
       optedOut[c] # Never =>
         IF c \in DOMAIN optedOut'
           THEN /\ optedOut'[c] # Never
                /\ optedOut'[c] = optedOut[c] \/ Overtaken(c)
           ELSE ~ Audited(c)]_vars
=============================================================================
