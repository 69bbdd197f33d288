--------------------------- MODULE DatabaseProofs ---------------------------
(***************************************************************************)
(* The schema keeps its references, its audit trail and its opt-outs, for  *)
(* any number of rows.  What is used of a DELETE is that the rows it takes *)
(* are closed under ON DELETE CASCADE; that they are the least such set is *)
(* not.                                                                    *)
(***************************************************************************)
EXTENDS Database, TLAPS

LEMMA KeyFields ==
  ASSUME NEW from, NEW column, NEW to, NEW onDelete, NEW null
  PROVE  LET k == Key(from, column, to, onDelete, null)
         IN  /\ k.from = from /\ k.column = column /\ k.to = to
             /\ k.onDelete = onDelete /\ k.null = null
BY DEF Key

AuditKey == Key("audit_entry", "episode_id", "episode", "RESTRICT", "NULL")

(* The only key of audit_entry is the one to the episode. *)
LEMMA AuditColumn ==
  /\ AuditKey \in KeysOf["audit_entry"]
  /\ ColumnsOf["audit_entry"] = {"episode_id"}
  /\ Restricting["audit_entry"] = {"episode_id"}
  /\ Clearing["audit_entry"] = {}
<1>a. \A k \in RiskEventKeys : k.from # "audit_entry"
  BY KeyFields DEF RiskEventKeys
<1>b. \A k \in EpisodeKeys : k.from # "audit_entry"
  BY KeyFields DEF EpisodeKeys
<1>c. \A k \in DeliveryKeys : k.from # "audit_entry"
  BY KeyFields DEF DeliveryKeys
<1>d. \A k \in DecisionKeys : k.from # "audit_entry"
  BY KeyFields DEF DecisionKeys
<1>e. \A k \in ActionKeys : k.from # "audit_entry"
  BY KeyFields DEF ActionKeys
<1>f. \A k \in CostKeys : k.from # "audit_entry"
  BY KeyFields DEF CostKeys
<1>g. \A k \in OutcomeKeys : k.from # "audit_entry"
  BY KeyFields DEF OutcomeKeys
<1>5. AuditKey \in ForeignKeys
  BY DEF ForeignKeys, AuditKeys, AuditKey
<1>12. /\ AuditKey.from = "audit_entry" /\ AuditKey.column = "episode_id"
       /\ AuditKey.onDelete = "RESTRICT"
  BY KeyFields DEF AuditKey
<1>6. \A k \in ForeignKeys : k.from = "audit_entry" => k = AuditKey
  BY <1>a, <1>b, <1>c, <1>d, <1>e, <1>f, <1>g DEF ForeignKeys, AuditKeys, AuditKey
<1>7. KeysOf["audit_entry"] = {AuditKey}
  BY <1>5, <1>6, <1>12 DEF KeysOf, Table
<1> HIDE DEF AuditKey
<1>8. ColumnsOf["audit_entry"] = {"episode_id"}
  BY <1>5, <1>7, <1>12 DEF ColumnsOf, Table
<1>9. OnDelete("audit_entry", "RESTRICT") = {"episode_id"}
  BY <1>5, <1>7, <1>12 DEF OnDelete
<1>10. OnDelete("audit_entry", "SET_NULL") = {}
  BY <1>5, <1>7, <1>12 DEF OnDelete
<1>11. QED
  BY <1>7, <1>8, <1>9, <1>10 DEF Restricting, Clearing, Table

LEMMA EpisodeColumn ==
  /\ "counterparty_id" \in Cascading["episode"]
  /\ "counterparty_id" \in ColumnsOf["episode"]
  /\ \E k \in KeysOf["episode"] : k.column = "counterparty_id" /\ k.to = "counterparty" /\ k.null = "NOT_NULL"
<1> DEFINE k == Key("episode", "counterparty_id", "counterparty", "CASCADE", "NOT_NULL")
<1>1. k \in KeysOf["episode"]
  BY DEF KeysOf, ForeignKeys, EpisodeKeys, Table, Key
<1>2. k.column = "counterparty_id" /\ k.to = "counterparty" /\ k.null = "NOT_NULL" /\ k.onDelete = "CASCADE"
  BY DEF Key
<1>3. QED
  BY <1>1, <1>2 DEF Cascading, ColumnsOf, OnDelete, Table

(* A column cleared on DELETE is one that may be null, every other key        *)
(* cascades or restricts.                                                  *)
LEMMA KeyRules ==
  ASSUME NEW k \in ForeignKeys
  PROVE  /\ k.from \in Table /\ k.to \in Table /\ k \in KeysOf[k.from]
         /\ k.column \in ColumnsOf[k.from]
         /\ k.column \in Clearing[k.from] => k.null = "NULL"
         /\ k.column \in Clearing[k.from] \/ k.column \in Cascading[k.from]
              \/ k.column \in Restricting[k.from]
<1> DEFINE Plain(j) == /\ j.from \in Table /\ j.to \in Table
                       /\ j.onDelete \in {"CASCADE", "SET_NULL", "RESTRICT"}
           Rule(j) == j.onDelete = "SET_NULL" =>
                        j.from = "outcome" /\ j.column = "attributed_to_action_id"
           Back(j) == j.from = "outcome" /\ j.column = "attributed_to_action_id" => j.null = "NULL"
<1>a. \A j \in RiskEventKeys : Plain(j) /\ Rule(j) /\ Back(j)
  BY KeyFields DEF RiskEventKeys, Table
<1>b. \A j \in EpisodeKeys : Plain(j) /\ Rule(j) /\ Back(j)
  BY KeyFields DEF EpisodeKeys, Table
<1>c. \A j \in DeliveryKeys : Plain(j) /\ Rule(j) /\ Back(j)
  BY KeyFields DEF DeliveryKeys, Table
<1>d. \A j \in DecisionKeys : Plain(j) /\ Rule(j) /\ Back(j)
  BY KeyFields DEF DecisionKeys, Table
<1>e. \A j \in ActionKeys : Plain(j) /\ Rule(j) /\ Back(j)
  BY KeyFields DEF ActionKeys, Table
<1>f. \A j \in CostKeys : Plain(j) /\ Rule(j) /\ Back(j)
  BY KeyFields DEF CostKeys, Table
<1>g. \A j \in OutcomeKeys : Plain(j) /\ Rule(j) /\ Back(j)
  BY KeyFields DEF OutcomeKeys, Table
<1>h. \A j \in AuditKeys : Plain(j) /\ Rule(j) /\ Back(j)
  BY KeyFields DEF AuditKeys, Table
<1>i. \A j \in ForeignKeys : Plain(j) /\ Rule(j) /\ Back(j)
  BY <1>a, <1>b, <1>c, <1>d, <1>e, <1>f, <1>g, <1>h DEF ForeignKeys
<1>1. Plain(k)
  BY <1>i
<1>2. k \in KeysOf[k.from]
  BY <1>1 DEF KeysOf
<1>3. \A j \in ForeignKeys :
        j.from = k.from /\ j.column = k.column /\ j.onDelete = "SET_NULL" => k.null = "NULL"
  BY <1>i
<1>4. k.column \in Clearing[k.from] => k.null = "NULL"
  BY <1>1, <1>3 DEF Clearing, OnDelete, KeysOf
<1>5. QED
  BY <1>1, <1>2, <1>4 DEF ColumnsOf, Clearing, Cascading, Restricting, OnDelete

(* The emptied tables include every table that refers to one of them. *)
LEMMA EmptiedClosed ==
  ASSUME NEW t \in Table
  PROVE  \A k \in ForeignKeys : k.to \in Emptied[t] => k.from \in Emptied[t]
BY KeyRules DEF Emptied, TableClosed

(* The doomed rows include every row whose column cascades from one of them. *)
LEMMA DoomedClosed ==
  ASSUME NEW r
  PROVE  /\ Doomed(r) \subseteq Held
         /\ \A x \in Held : \A c \in Cascading[x[1]] : refs[x][c] \in Doomed(r) => x \in Doomed(r)
BY DEF Doomed, CascadeClosed, RefersInto

-----------------------------------------------------------------------------
(* The references.                                                         *)

LEMMA Grows ==
  ASSUME Held \subseteq Held', NEW t \in Table
  PROVE  Referring(t) \subseteq Referring(t)'
BY DEF Referring, Resolves, HeldIn, Held

LEMMA ColumnKey ==
  ASSUME NEW t \in Table, NEW c \in ColumnsOf[t]
  PROVE  \E k \in KeysOf[t] : k.column = c
BY DEF ColumnsOf

(* A row that is inserted refers to rows held, and disturbs no other. *)
LEMMA InsertKeeps ==
  ASSUME TypeOK, NEW r \in Row, r \notin Held, NEW f,
         refs' = Extended(refs, r, f), f \in Referring(r[1])
  PROVE  /\ Held' = Held \union {r} /\ Held' \subseteq Row
         /\ \A x \in Held' : refs'[x] \in Referring(x[1])'
<1>1. Held' = Held \union {r} /\ Held' \subseteq Row
  BY DEF Held, Extended, TypeOK
<1>2. \A x \in Held' : x[1] \in Table
  BY <1>1 DEF Row
<1>3. \A x \in Held' : Referring(x[1]) \subseteq Referring(x[1])'
  BY <1>1, <1>2, Grows
<1>4. \A x \in Held : refs'[x] = refs[x] /\ refs[x] \in Referring(x[1])
  BY DEF Extended, TypeOK, Held
<1>5. refs'[r] = f
  BY DEF Extended
<1>6. QED
  BY <1>1, <1>3, <1>4, <1>5

(* An erasure in progress does not mind more counterparties. *)
LEMMA ErasingGrows ==
  ASSUME TypeOK, erasing' = erasing, DOMAIN optedOut \subseteq DOMAIN optedOut'
  PROVE  erasing' \in [Sessions -> [of : DOMAIN optedOut', read : Moment] \union {NoErasure}]
BY DEF TypeOK

(* Rows removed with all that cascades from them leave no reference behind, *)
(* unless a column that restricts has one.                                 *)
LEMMA RemoveKeeps ==
  ASSUME TypeOK, NEW S \in SUBSET Held, Remove(S),
         \A x \in Held \ S : \A c \in ColumnsOf[x[1]] :
           refs[x][c] \in S => c \in Clearing[x[1]]
  PROVE  TypeOK'
<1>1. Held' = Held \ S
  BY DEF Remove, Held
<1>2. ASSUME NEW x \in Held \ S
      PROVE  refs'[x] \in Referring(x[1])'
  <2>1. x \in Row /\ x[1] \in Table /\ refs[x] \in Referring(x[1]) /\ refs'[x] = Cleared(x, S)
    BY DEF TypeOK, Row, Remove
  <2>2. ASSUME NEW k \in KeysOf[x[1]]
        PROVE  \/ k.null = "NULL" /\ Cleared(x, S)[k.column] = Null
               \/ Cleared(x, S)[k.column] \in HeldIn(k.to)'
    <3>1. k \in ForeignKeys /\ k.from = x[1]
      BY <2>1 DEF KeysOf
    <3>2. /\ k.column \in ColumnsOf[x[1]]
          /\ k.column \in Clearing[x[1]] => k.null = "NULL"
      BY <3>1, KeyRules
    <3>3. Resolves(k, refs[x][k.column])
      BY <2>1, <2>2 DEF Referring
    <3>4. CASE k.column \in Clearing[x[1]] /\ refs[x][k.column] \in S
      BY <3>2, <3>4 DEF Cleared
    <3>5. CASE ~ (k.column \in Clearing[x[1]] /\ refs[x][k.column] \in S)
      <4>1. Cleared(x, S)[k.column] = refs[x][k.column] /\ refs[x][k.column] \notin S
        BY <3>2, <3>5 DEF Cleared
      <4>2. \/ k.null = "NULL" /\ refs[x][k.column] = Null
            \/ refs[x][k.column] \in HeldIn(k.to) \ S
        BY <3>3, <4>1 DEF Resolves
      <4>3. HeldIn(k.to) \ S \subseteq HeldIn(k.to)'
        BY <1>1 DEF HeldIn
      <4>4. QED
        BY <4>1, <4>2, <4>3
    <3>6. QED
      BY <3>4, <3>5
  <2>3. Cleared(x, S) \in [ColumnsOf[x[1]] -> Held' \union {Null}]
    <3>1. ASSUME NEW c \in ColumnsOf[x[1]]
          PROVE  Cleared(x, S)[c] \in Held' \union {Null}
      BY <2>1, <2>2, ColumnKey DEF HeldIn
    <3>2. QED
      BY <3>1 DEF Cleared
  <2>4. refs'[x] = Cleared(x, S)
    BY <2>1
  <2>5. QED
    BY <2>2, <2>3, <2>4 DEF Referring, Resolves
<1>3. DOMAIN optedOut' = HeldIn("counterparty")' /\ \A c \in DOMAIN optedOut' : optedOut'[c] \in Moment
  BY <1>1 DEF Remove, TypeOK, HeldIn
<1>4. erasing' \in [Sessions -> [of : DOMAIN optedOut', read : Moment] \union {NoErasure}]
  <2>1. DOMAIN optedOut' = DOMAIN optedOut \ S
    BY DEF Remove
  <2>2. QED
    BY <2>1 DEF Remove, TypeOK
<1>5. QED
  BY <1>1, <1>2, <1>3, <1>4 DEF TypeOK

-----------------------------------------------------------------------------
(* What DELETE and TRUNCATE have in common.                                *)

Removal(S) ==
  /\ S \in SUBSET Held
  /\ Remove(S)
  /\ S \intersect HeldIn("audit_entry") = {}
  /\ \A x \in Held \ S : \A c \in ColumnsOf[x[1]] :
       refs[x][c] \in S => c \in Clearing[x[1]]

LEMMA DeleteRemoves ==
  ASSUME TypeOK, NEW r, Delete(r)
  PROVE  Removal(Doomed(r))
<1> DEFINE S == Doomed(r)
<1>1. S \in SUBSET Held
  BY DoomedClosed
<1>2. S \intersect HeldIn("audit_entry") = {}
  BY DEF Delete, HeldIn, AppendOnly
<1>3. ~ Restricted(S) /\ Remove(S)
  BY DEF Delete
<1>4. ASSUME NEW x \in Held \ S, NEW c \in ColumnsOf[x[1]], refs[x][c] \in S
      PROVE  c \in Clearing[x[1]]
  <2>1. x[1] \in Table
    BY DEF TypeOK, Row
  <2>2. PICK k \in KeysOf[x[1]] : k.column = c
    BY <1>4, <2>1, ColumnKey
  <2>3. k \in ForeignKeys /\ k.from = x[1]
    BY <2>1 DEF KeysOf
  <2>4. c \in Clearing[x[1]] \/ c \in Cascading[x[1]] \/ c \in Restricting[x[1]]
    BY <2>2, <2>3, KeyRules
  <2>5. c \notin Cascading[x[1]]
    BY <1>4, DoomedClosed
  <2>6. c \notin Restricting[x[1]]
    BY <1>3, <1>4 DEF Restricted, RefersInto
  <2>7. QED
    BY <2>4, <2>5, <2>6
<1>5. QED
  BY <1>1, <1>2, <1>3, <1>4 DEF Removal

LEMMA TruncateRemoves ==
  ASSUME TypeOK, NEW t \in Table, Truncate(t)
  PROVE  \E S : Removal(S)
<1> DEFINE S == {x \in Held : x[1] \in Emptied[t]}
<1>1. S \in SUBSET Held /\ Remove(S)
  BY DEF Truncate
<1>2. S \intersect HeldIn("audit_entry") = {}
  BY DEF Truncate, HeldIn, AppendOnly
<1>3. ASSUME NEW x \in Held \ S, NEW c \in ColumnsOf[x[1]], refs[x][c] \in S
      PROVE  FALSE
  <2>1. x[1] \in Table /\ refs[x] \in Referring(x[1])
    BY DEF TypeOK, Row
  <2>2. PICK k \in KeysOf[x[1]] : k.column = c
    BY <1>3, <2>1, ColumnKey
  <2>3. k \in ForeignKeys /\ k.from = x[1]
    BY <2>1 DEF KeysOf
  <2>4. refs[x][c] # Null
    BY <1>3 DEF TypeOK, Row, Null, Table
  <2>5. refs[x][c] \in HeldIn(k.to)
    BY <2>1, <2>2, <2>4 DEF Referring, Resolves
  <2>6. k.to \in Emptied[t]
    BY <1>3, <2>5 DEF HeldIn
  <2>7. QED
    BY <2>3, <2>6, EmptiedClosed
<1>4. Removal(S)
  BY <1>1, <1>2, <1>3 DEF Removal
<1>5. QED
  BY <1>4

(* The episode of an audit entry is held, and so is that episode's owner. *)
LEMMA EntryRefers ==
  ASSUME TypeOK, NEW a \in HeldIn("audit_entry")
  PROVE  /\ a \in Held /\ a[1] = "audit_entry"
         /\ refs[a] = [c \in {"episode_id"} |-> refs[a].episode_id]
         /\ refs[a].episode_id # Null => refs[a].episode_id \in HeldIn("episode")
<1>1. a \in Held /\ a[1] = "audit_entry" /\ refs[a] \in Referring("audit_entry")
  BY DEF HeldIn, TypeOK
<1>2. refs[a] = [c \in {"episode_id"} |-> refs[a].episode_id]
  BY <1>1, AuditColumn DEF Referring
<1>3. AuditKey.column = "episode_id" /\ AuditKey.to = "episode"
  BY DEF AuditKey, Key
<1>4. Resolves(AuditKey, refs[a].episode_id)
  BY <1>1, <1>3, AuditColumn DEF Referring
<1>5. QED
  BY <1>1, <1>2, <1>3, <1>4 DEF Resolves

LEMMA RemovalKeepsTrail ==
  ASSUME TypeOK, NEW S, Removal(S), NEW a \in HeldIn("audit_entry")
  PROVE  /\ a \in DOMAIN refs' /\ refs'[a] = refs[a]
         /\ refs[a].episode_id # Null => refs[a].episode_id \in Held \ S
<1>1. a \in Held \ S /\ a[1] = "audit_entry"
  BY EntryRefers DEF Removal
<1>2. "episode_id" \in ColumnsOf[a[1]] /\ "episode_id" \notin Clearing[a[1]]
  BY <1>1, AuditColumn
<1>3. refs[a].episode_id \notin S
  BY <1>1, <1>2 DEF Removal
<1>4. a \in DOMAIN refs' /\ refs'[a] = Cleared(a, S)
  BY <1>1 DEF Removal, Remove
<1>5. Cleared(a, S) = [c \in {"episode_id"} |-> refs[a].episode_id]
  BY <1>1, AuditColumn DEF Cleared
<1>6. QED
  BY <1>3, <1>4, <1>5, EntryRefers DEF HeldIn

-----------------------------------------------------------------------------
(* The columns of the three rows a live episode begins with. *)
LEMMA LiveColumns ==
  /\ ColumnsOf["counterparty"] = {} /\ KeysOf["counterparty"] = {}
  /\ ColumnsOf["risk_event"] = {"counterparty_id"}
  /\ ColumnsOf["episode"] = {"counterparty_id", "risk_event_id"}
  /\ \A k \in KeysOf["risk_event"] \union KeysOf["episode"] :
       \/ k.column = "counterparty_id" /\ k.to = "counterparty"
       \/ k.column = "risk_event_id" /\ k.to = "risk_event"
<1> DEFINE V == Key("risk_event", "counterparty_id", "counterparty", "CASCADE", "NOT_NULL")
           C == Key("episode", "counterparty_id", "counterparty", "CASCADE", "NOT_NULL")
           E == Key("episode", "risk_event_id", "risk_event", "CASCADE", "NOT_NULL")
           Later(k) == k.from \notin {"counterparty", "risk_event", "episode"}
<1>1. RiskEventKeys = {V} /\ EpisodeKeys = {C, E}
  BY DEF RiskEventKeys, EpisodeKeys
<1>2. /\ V.from = "risk_event" /\ V.column = "counterparty_id" /\ V.to = "counterparty"
      /\ C.from = "episode" /\ C.column = "counterparty_id" /\ C.to = "counterparty"
      /\ E.from = "episode" /\ E.column = "risk_event_id" /\ E.to = "risk_event"
  BY DEF Key
<1>3. /\ \A k \in DeliveryKeys : Later(k)
      /\ \A k \in DecisionKeys : Later(k)
      /\ \A k \in ActionKeys : Later(k)
  BY KeyFields DEF DeliveryKeys, DecisionKeys, ActionKeys
<1>4. /\ \A k \in CostKeys : Later(k)
      /\ \A k \in OutcomeKeys : Later(k)
      /\ \A k \in AuditKeys : Later(k)
  BY KeyFields DEF CostKeys, OutcomeKeys, AuditKeys
<1> HIDE DEF V, C, E
<1>5. \A k \in ForeignKeys : Later(k) \/ k \in {V, C, E}
  BY <1>1, <1>3, <1>4 DEF ForeignKeys
<1>6. {V, C, E} \subseteq ForeignKeys
  BY <1>1 DEF ForeignKeys
<1>7. KeysOf["counterparty"] = {}
  BY <1>2, <1>5 DEF KeysOf, Table
<1>8. KeysOf["risk_event"] = {V}
  BY <1>2, <1>5, <1>6 DEF KeysOf, Table
<1>9. KeysOf["episode"] = {C, E}
  BY <1>2, <1>5, <1>6 DEF KeysOf, Table
<1>10. QED
  BY <1>2, <1>7, <1>8, <1>9 DEF ColumnsOf, Table

LEMMA OpenTyped ==
  ASSUME TypeOK, NEW n \in Numbers["episode"], OpenLive(n)
  PROVE  TypeOK'
<1> DEFINE c == <<"counterparty", n>>
           v == <<"risk_event", n>>
           e == <<"episode", n>>
<1>1. {c, v, e} \subseteq Row
  BY NumbersAssumption DEF Row, Table
<1>2. Held' = Held \union {c, v, e} /\ {c, v, e} \intersect Held = {}
  BY DEF OpenLive, Held
<1>3. /\ refs'[c] = NoColumns
      /\ refs'[v] = [counterparty_id |-> c]
      /\ refs'[e] = [counterparty_id |-> c, risk_event_id |-> v]
      /\ \A x \in Held : refs'[x] = refs[x]
  BY <1>2 DEF OpenLive
<1>4. c \in HeldIn("counterparty")' /\ v \in HeldIn("risk_event")'
  BY <1>2 DEF HeldIn
<1>5. refs'[c] \in Referring("counterparty")'
  BY <1>3, LiveColumns DEF Referring, NoColumns
<1>6. refs'[v] \in Referring("risk_event")'
  <2>1. refs'[v] \in [{"counterparty_id"} -> Held' \union {Null}]
    BY <1>2, <1>3
  <2>2. ASSUME NEW k \in KeysOf["risk_event"]
        PROVE  refs'[v][k.column] \in HeldIn(k.to)'
    <3>1. k.column = "counterparty_id" /\ k.to = "counterparty"
      <4>1. k.column \in ColumnsOf["risk_event"]
        BY DEF ColumnsOf, Table
      <4>2. QED
        BY <4>1, LiveColumns
    <3>2. QED
      BY <1>3, <1>4, <3>1
  <2>3. QED
    BY <2>1, <2>2, LiveColumns DEF Referring, Resolves
<1>7. refs'[e] \in Referring("episode")'
  <2>1. refs'[e] \in [{"counterparty_id", "risk_event_id"} -> Held' \union {Null}]
    BY <1>2, <1>3
  <2>2. ASSUME NEW k \in KeysOf["episode"]
        PROVE  refs'[e][k.column] \in HeldIn(k.to)'
    BY <1>3, <1>4, LiveColumns
  <2>3. QED
    BY <2>1, <2>2, LiveColumns DEF Referring, Resolves
<1>8. ASSUME NEW x \in Held
      PROVE  refs'[x] \in Referring(x[1])'
  <2>1. x[1] \in Table /\ refs[x] \in Referring(x[1])
    BY DEF TypeOK, Row
  <2>2. Referring(x[1]) \subseteq Referring(x[1])'
    BY <1>2, <2>1, Grows
  <2>3. QED
    BY <1>3, <2>1, <2>2
<1>9. \A x \in Held' : refs'[x] \in Referring(x[1])'
  BY <1>2, <1>5, <1>6, <1>7, <1>8
<1>10. HeldIn("counterparty")' = HeldIn("counterparty") \union {c}
  BY <1>2 DEF HeldIn
<1>11. DOMAIN optedOut' = HeldIn("counterparty")' /\ \A x \in DOMAIN optedOut' : optedOut'[x] \in Moment
  BY <1>10 DEF OpenLive, Extended, Moment, TypeOK
<1>12. erasing' = erasing /\ DOMAIN optedOut \subseteq DOMAIN optedOut'
  BY DEF OpenLive, Extended
<1>13. QED
  BY <1>1, <1>2, <1>9, <1>11, <1>12, ErasingGrows DEF TypeOK

-----------------------------------------------------------------------------
(* Referential integrity: whatever is inserted, repointed, deleted, emptied   *)
(* or erased, each column of a row held refers to a row held of the table   *)
(* its key names, or to none where it may (the foreign keys of 0001, 0002). *)
THEOREM ReferencesHold == Spec => []TypeOK
<1>1. Init => TypeOK
  BY DEF Init, TypeOK, Held, HeldIn
<1>2. TypeOK /\ [Next]_vars => TypeOK'
  <2> SUFFICES ASSUME TypeOK, [Next]_vars PROVE TypeOK'
    OBVIOUS
  <2>1. CASE UNCHANGED vars
    BY <2>1 DEF vars, TypeOK, Held, HeldIn, Referring, Resolves
  <2>2. ASSUME NEW t \in Table, Insert(t) PROVE TypeOK'
    <3>1. PICK n \in Numbers[t], f \in Referring(t) :
            <<t, n>> \notin Held /\ refs' = Extended(refs, <<t, n>>, f)
      BY <2>2 DEF Insert
    <3>2. <<t, n>> \in Row /\ <<t, n>>[1] = t
      BY NumbersAssumption DEF Row
    <3>3. /\ Held' = Held \union {<<t, n>>} /\ Held' \subseteq Row
          /\ \A x \in Held' : refs'[x] \in Referring(x[1])'
      BY <3>1, <3>2, InsertKeeps
    <3>4. HeldIn("counterparty")' = HeldIn("counterparty") /\ UNCHANGED <<optedOut, erasing>>
      BY <2>2, <3>2, <3>3 DEF Insert, HeldIn
    <3>5. QED
      BY <3>3, <3>4 DEF TypeOK
  <2>3. CASE InsertCounterparty
    <3>1. PICK n \in Numbers["counterparty"], at \in Moment :
            LET r == <<"counterparty", n>>
            IN  /\ r \notin Held
                /\ refs' = Extended(refs, r, NoColumns)
                /\ optedOut' = Extended(optedOut, r, at)
      BY <2>3 DEF InsertCounterparty
    <3> DEFINE r == <<"counterparty", n>>
    <3>2. r \in Row /\ r[1] = "counterparty" /\ "counterparty" \in Table
      BY NumbersAssumption DEF Row, Table
    <3>3. NoColumns \in Referring("counterparty")
      BY LiveColumns DEF Referring, NoColumns
    <3>4. /\ Held' = Held \union {r} /\ Held' \subseteq Row
          /\ \A x \in Held' : refs'[x] \in Referring(x[1])'
      BY <3>1, <3>2, <3>3, InsertKeeps
    <3>5. HeldIn("counterparty")' = HeldIn("counterparty") \union {r}
      BY <3>2, <3>4 DEF HeldIn
    <3>6. DOMAIN optedOut' = HeldIn("counterparty")' /\ \A x \in DOMAIN optedOut' : optedOut'[x] \in Moment
      BY <3>1, <3>5 DEF Extended, TypeOK
    <3>7. erasing' = erasing /\ DOMAIN optedOut \subseteq DOMAIN optedOut'
      BY <2>3, <3>1 DEF InsertCounterparty, Extended
    <3>8. QED
      BY <3>4, <3>6, <3>7, ErasingGrows DEF TypeOK
  <2>4. ASSUME NEW n \in Numbers["episode"], OpenLive(n) PROVE TypeOK'
    BY <2>4, OpenTyped
  <2>5. ASSUME NEW r \in Held, Delete(r) PROVE TypeOK'
    BY <2>5, DeleteRemoves, RemoveKeeps DEF Removal
  <2>6. ASSUME NEW t \in Table, Truncate(t) PROVE TypeOK'
    <3>1. PICK S : Removal(S)
      BY <2>6, TruncateRemoves
    <3>2. QED
      BY <3>1, RemoveKeeps DEF Removal
  <2>7. ASSUME NEW r \in Held, Repoint(r) PROVE TypeOK'
    <3>1. PICK f \in Referring(r[1]) : refs' = [refs EXCEPT ![r] = f]
      BY <2>7 DEF Repoint
    <3>2. Held' = Held /\ \A t : HeldIn(t)' = HeldIn(t)
      BY <3>1 DEF Held, HeldIn
    <3>3. \A t \in Table : Referring(t)' = Referring(t)
      BY <3>2 DEF Referring, Resolves
    <3>4. \A x \in Held : x[1] \in Table /\ refs'[x] \in Referring(x[1])
      BY <3>1 DEF TypeOK, Row, Held
    <3>5. \A x \in Held' : refs'[x] \in Referring(x[1])'
      BY <3>2, <3>3, <3>4
    <3>6. QED
      BY <2>7, <3>2, <3>5 DEF TypeOK, Repoint
  <2>8. ASSUME UNCHANGED refs,
               DOMAIN optedOut' = DOMAIN optedOut,
               \A c \in DOMAIN optedOut : optedOut'[c] \in Moment,
               \A s \in Sessions : erasing'[s] \in {erasing[s], NoErasure}
                                        \union [of : DOMAIN optedOut, read : Moment],
               erasing' = [s \in Sessions |-> erasing'[s]]
        PROVE  TypeOK'
    <3>1. \A x \in Held' : refs'[x] \in Referring(x[1])'
      BY <2>8 DEF TypeOK, Held, Referring, Resolves, HeldIn
    <3>2. erasing' \in [Sessions -> [of : DOMAIN optedOut, read : Moment] \union {NoErasure}]
      BY <2>8 DEF TypeOK
    <3>3. QED
      BY <2>8, <3>1, <3>2 DEF TypeOK, Held, HeldIn
  <2>9. ASSUME NEW c \in DOMAIN optedOut, OptOut(c) PROVE TypeOK'
    BY <2>8, <2>9 DEF OptOut, Moment, TypeOK
  <2>10. ASSUME NEW s \in Sessions, NEW c \in DOMAIN optedOut, EraseReads(s, c) PROVE TypeOK'
    BY <2>8, <2>10 DEF EraseReads, TypeOK
  <2>11. ASSUME NEW s \in Sessions, EraseFlush(s) PROVE TypeOK'
    <3>1. \A c \in DOMAIN optedOut : optedOut'[c] \in Moment
      BY <2>11 DEF EraseFlush, Stamped, Moment, TypeOK
    <3>2. QED
      BY <2>8, <2>11, <3>1 DEF EraseFlush, TypeOK
  <2>12. QED
    BY <2>1, <2>2, <2>3, <2>4, <2>5, <2>6, <2>7, <2>9, <2>10, <2>11 DEF Next
<1>3. QED
  BY <1>1, <1>2, PTL DEF Spec

-----------------------------------------------------------------------------

KeepsTrail ==
  \A a \in HeldIn("audit_entry") :
    /\ a \in DOMAIN refs' /\ refs'[a] = refs[a]
    /\ refs[a].episode_id # Null => refs[a].episode_id \in DOMAIN refs'

(* An audit entry stays as it was written, and its episode with it, through   *)
(* every sequence of statements: no DELETE reaches it by a cascade, because *)
(* what it would take is restricted by the entry itself.                    *)
THEOREM TrailAlwaysKept == Spec => TrailKept
<1>1. TypeOK /\ [Next]_vars => [KeepsTrail]_vars
  <2> SUFFICES ASSUME TypeOK, Next PROVE KeepsTrail
    BY DEF vars
  <2> SUFFICES ASSUME NEW a \in HeldIn("audit_entry")
               PROVE  /\ a \in DOMAIN refs' /\ refs'[a] = refs[a]
                      /\ refs[a].episode_id # Null => refs[a].episode_id \in DOMAIN refs'
    BY DEF KeepsTrail
  <2>0. /\ a \in Held /\ a[1] = "audit_entry"
        /\ refs[a].episode_id # Null => refs[a].episode_id \in Held
    BY EntryRefers DEF HeldIn
  <2>1. ASSUME NEW t \in Table, Insert(t) PROVE KeepsTrail
    BY <2>1, EntryRefers DEF Insert, Extended, KeepsTrail, HeldIn, Held
  <2>2. CASE InsertCounterparty
    BY <2>2, <2>0 DEF InsertCounterparty, Extended, Held
  <2>3. ASSUME NEW n \in Numbers["episode"], OpenLive(n) PROVE KeepsTrail
    BY <2>3, EntryRefers DEF OpenLive, KeepsTrail, HeldIn, Held
  <2>4. ASSUME NEW r \in Held, Delete(r) PROVE KeepsTrail
    <3>1. Removal(Doomed(r))
      BY <2>4, DeleteRemoves
    <3>2. Held' = Held \ Doomed(r)
      BY <3>1 DEF Removal, Remove, Held
    <3>3. QED
      BY <3>1, <3>2, RemovalKeepsTrail DEF KeepsTrail, Held
  <2>5. ASSUME NEW t \in Table, Truncate(t) PROVE KeepsTrail
    <3>1. PICK S : Removal(S)
      BY <2>5, TruncateRemoves
    <3>2. Held' = Held \ S
      BY <3>1 DEF Removal, Remove, Held
    <3>3. QED
      BY <3>1, <3>2, RemovalKeepsTrail DEF KeepsTrail, Held
  <2>6. ASSUME NEW r \in Held, Repoint(r) PROVE KeepsTrail
    BY <2>6, EntryRefers DEF Repoint, AppendOnly, KeepsTrail, HeldIn, Held
  <2>7. CASE UNCHANGED refs
    BY <2>7, <2>0 DEF Held
  <2>8. QED
    BY <2>0, <2>1, <2>2, <2>3, <2>4, <2>5, <2>6, <2>7
       DEF Next, KeepsTrail, OptOut, EraseReads, EraseFlush
<1>2. QED
  BY <1>1, ReferencesHold, PTL DEF Spec, TrailKept, KeepsTrail

-----------------------------------------------------------------------------

KeepsOptOuts ==
  \A c \in DOMAIN optedOut :
    optedOut[c] # Never =>
      IF c \in DOMAIN optedOut'
        THEN /\ optedOut'[c] # Never
             /\ optedOut'[c] = optedOut[c] \/ Overtaken(c)
        ELSE ~ Audited(c)

(* A counterparty is removed only when no audit entry is about its episodes:  *)
(* its episode would go with it, and the entry restricts that.              *)
LEMMA RemovalSparesAudited ==
  ASSUME TypeOK, NEW S, Removal(S), NEW c \in S, c[1] = "counterparty"
  PROVE  ~ Audited(c)
<1> SUFFICES ASSUME NEW a \in HeldIn("audit_entry"),
                    refs[a].episode_id # Null,
                    refs[refs[a].episode_id].counterparty_id = c
             PROVE  FALSE
  BY DEF Audited
<1> DEFINE e == refs[a].episode_id
<1>1. e \in Held \ S
  BY RemovalKeepsTrail
<1>2. e[1] = "episode"
  BY EntryRefers DEF HeldIn
<1>3. "counterparty_id" \in ColumnsOf[e[1]]
  BY <1>2, LiveColumns
<1>4. "counterparty_id" \in Clearing[e[1]]
  BY <1>1, <1>3 DEF Removal
<1>5. PICK k \in KeysOf["episode"] : k.column = "counterparty_id" /\ k.null = "NOT_NULL"
  BY EpisodeColumn
<1>6. k \in ForeignKeys /\ k.from = "episode"
  BY DEF KeysOf, Table
<1>7. k.null = "NULL"
  BY <1>2, <1>4, <1>5, <1>6, KeyRules
<1>8. QED
  BY <1>5, <1>7

(* "Opt-out is permanent": nobody who has opted out ceases to have, but with *)
(* a counterparty that no audit entry is about; and only an erasure that    *)
(* read the row before the opt-out moves its date.                         *)
THEOREM OptOutAlwaysStands == Spec => OptOutStands
<1>1. TypeOK /\ [Next]_vars => [KeepsOptOuts]_vars
  <2> SUFFICES ASSUME TypeOK, Next PROVE KeepsOptOuts
    BY DEF vars
  <2>1. CASE UNCHANGED optedOut
    BY <2>1 DEF KeepsOptOuts
  <2>2. ASSUME NEW S, Removal(S) PROVE KeepsOptOuts
    <3>1. optedOut' = [c \in DOMAIN optedOut \ S |-> optedOut[c]]
      BY <2>2 DEF Removal, Remove
    <3>2. ASSUME NEW c \in DOMAIN optedOut, c \in S PROVE ~ Audited(c)
      <4>1. c[1] = "counterparty"
        BY DEF TypeOK, HeldIn
      <4>2. QED
        BY <2>2, <3>2, <4>1, RemovalSparesAudited
    <3>3. QED
      BY <3>1, <3>2 DEF KeepsOptOuts
  <2>3. CASE InsertCounterparty
    <3>1. PICK n \in Numbers["counterparty"], at \in Moment :
            LET r == <<"counterparty", n>>
            IN  r \notin Held /\ optedOut' = Extended(optedOut, r, at)
      BY <2>3 DEF InsertCounterparty
    <3>2. <<"counterparty", n>> \notin DOMAIN optedOut
      BY <3>1 DEF TypeOK, HeldIn
    <3>3. QED
      BY <3>1, <3>2 DEF KeepsOptOuts, Extended
  <2>4. ASSUME NEW n \in Numbers["episode"], OpenLive(n) PROVE KeepsOptOuts
    <3>1. <<"counterparty", n>> \notin DOMAIN optedOut
      BY <2>4 DEF OpenLive, TypeOK, HeldIn
    <3>2. optedOut' = Extended(optedOut, <<"counterparty", n>>, Never)
      BY <2>4 DEF OpenLive
    <3>3. QED
      BY <3>1, <3>2 DEF KeepsOptOuts, Extended
  <2>5. ASSUME NEW d \in DOMAIN optedOut, OptOut(d) PROVE KeepsOptOuts
    BY <2>5 DEF OptOut, KeepsOptOuts
  <2>6. ASSUME NEW s \in Sessions, EraseFlush(s) PROVE KeepsOptOuts
    <3> DEFINE d == erasing[s].of
    <3>1. PICK at \in Times :
            optedOut' = [optedOut EXCEPT ![d] = Stamped(@, erasing[s].read, at)]
      BY <2>6 DEF EraseFlush
    <3>2. at # Never
      BY TimesAssumption DEF Never
    <3>3. erasing[s].read = Never => Overtaken(d)
      BY DEF Overtaken
    <3>4. QED
      BY <3>1, <3>2, <3>3 DEF KeepsOptOuts, Stamped
  <2>7. QED
    BY <2>1, <2>2, <2>3, <2>4, <2>5, <2>6, DeleteRemoves, TruncateRemoves
       DEF Next, Insert, Repoint, EraseReads
<1>2. QED
  BY <1>1, ReferencesHold, PTL DEF Spec, OptOutStands, KeepsOptOuts
=============================================================================
