---------------------------- MODULE AuditProofs ----------------------------
(***************************************************************************)
(* Theorems about the audit chain, for chains of any length, any payloads  *)
(* and times, and any number of alterations of the copy.                   *)
(*                                                                         *)
(* Hashes have no set of their own, so a sequence of entries is a sequence *)
(* over whatever entries it has (Proper).                                  *)
(***************************************************************************)
EXTENDS AuditChain, NaturalFacts, SequenceTheorems, WellFoundedInduction

Proper(s) == s \in Seq({s[i] : i \in DOMAIN s})

HasFields(e) == e = AuditEntry(e.seq, e.at, e.payload, e.prev, e.hash)

Entries(s) == Proper(s) /\ \A i \in DOMAIN s : HasFields(s[i])

(* A sequence over any set is one over its own elements. *)
LEMMA SeqIsProper ==
  ASSUME NEW S, NEW s \in Seq(S)
  PROVE  Proper(s)
<1>1. Len(s) \in Nat /\ s \in [1 .. Len(s) -> S] /\ DOMAIN s = 1 .. Len(s)
  BY LenProperties
<1>2. s \in [1 .. Len(s) -> {s[i] : i \in DOMAIN s}]
  BY <1>1
<1>3. QED
  BY <1>1, <1>2, SeqDef DEF Proper

(* What a proper sequence is as a function. *)
LEMMA ProperLen ==
  ASSUME NEW s, Proper(s)
  PROVE  Len(s) \in Nat /\ DOMAIN s = 1 .. Len(s)
BY LenProperties DEF Proper

(* Appending to a proper sequence, as append() extends the list.            *)
LEMMA ProperAppend ==
  ASSUME NEW s, NEW e, Proper(s)
  PROVE  /\ Proper(Append(s, e))
         /\ Len(Append(s, e)) = Len(s) + 1
         /\ \A i \in 1 .. Len(s) : Append(s, e)[i] = s[i]
         /\ Append(s, e)[Len(s) + 1] = e
<1> DEFINE S == {s[i] : i \in DOMAIN s} \union {e}
<1>1. s \in Seq(S)
  BY SeqMonotonic DEF Proper
<1>2. Append(s, e) \in Seq(S)
  BY <1>1
<1>3. Proper(Append(s, e))
  <2> HIDE DEF S
  <2>1. QED
    BY <1>2, SeqIsProper
<1>4. QED
  BY <1>1, <1>3

-----------------------------------------------------------------------------
(* Hashes.                                                                 *)

(* Two intact entries with one hash are one entry: nothing collides.        *)
LEMMA SameHash ==
  ASSUME NEW e, NEW f, HasFields(e), HasFields(f),
         recompute(e) = e.hash, recompute(f) = f.hash, e.hash = f.hash
  PROVE  e = f
<1>1. <<e.prev, e.seq, e.at, e.payload>> = <<f.prev, f.seq, f.at, f.payload>>
  BY DEF recompute, compute_hash
<1>2. e.prev = f.prev /\ e.seq = f.seq /\ e.at = f.at /\ e.payload = f.payload
  BY <1>1
<1>3. QED
  BY <1>2 DEF HasFields, AuditEntry

(* Two chains that verify and have one hash at place n agree up to n: walk   *)
(* back from n, and each entry commits to the hash before it.              *)
LEMMA HashDeterminesChain ==
  ASSUME NEW c, NEW s, Entries(c), Entries(s), Verifies(c), Verifies(s),
         NEW n \in Nat \ {0}, n <= Len(c), n <= Len(s), c[n].hash = s[n].hash
  PROVE  \A i \in 1 .. n : c[i] = s[i]
<1> DEFINE D == {k \in 0 .. n - 1 : c[n - k] # s[n - k]}
<1>1. /\ Len(c) \in Nat /\ DOMAIN c = 1 .. Len(c)
      /\ Len(s) \in Nat /\ DOMAIN s = 1 .. Len(s)
  BY ProperLen DEF Entries
<1>2. ASSUME NEW i \in 1 .. n, c[i].hash = s[i].hash
      PROVE  c[i] = s[i]
  <2>1. i \in DOMAIN c /\ i \in DOMAIN s
    BY <1>1
  <2>2. recompute(c[i]) = c[i].hash /\ recompute(s[i]) = s[i].hash
    BY <2>1 DEF Verifies, Continues
  <2>3. QED
    BY <1>2, <2>1, <2>2, SameHash DEF Entries
<1>3. ASSUME D # {}
      PROVE  FALSE
  <2>1. PICK k \in D : \A j \in D : ~ (j < k)
    <3>1. D \in SUBSET Nat
      OBVIOUS
    <3>2. QED
      BY <1>3, <3>1, LeastNatural
  <2>2. k # 0
    BY <2>1, <1>2
  <2>3. k - 1 \in 0 .. n - 1 /\ k - 1 \notin D
    BY <2>1, <2>2
  <2> DEFINE i == n - k
  <2>4. i \in 1 .. n - 1 /\ n - (k - 1) = i + 1
    BY <2>1, <2>2
  <2>5. c[i + 1] = s[i + 1]
    BY <2>3, <2>4
  <2>6. i + 1 \in DOMAIN c /\ i + 1 \in DOMAIN s /\ i + 1 # 1 /\ (i + 1) - 1 = i
    BY <2>4, <1>1
  <2>7. c[i + 1].prev = c[i].hash /\ s[i + 1].prev = s[i].hash
    BY <2>6 DEF Verifies, Continues
  <2> HIDE DEF i
  <2>8. c[i] = s[i]
    <3>1. c[i].hash = s[i].hash
      BY <2>5, <2>7
    <3>2. i \in 1 .. n
      BY <2>4
    <3>3. QED
      BY <3>1, <3>2, <1>2
  <2>9. QED
    BY <2>1, <2>8 DEF i
<1>4. ASSUME NEW i \in 1 .. n
      PROVE  c[i] = s[i]
  <2>1. n - i \in 0 .. n - 1 /\ n - (n - i) = i
    OBVIOUS
  <2>2. QED
    BY <1>3, <2>1
<1>5. QED
  BY <1>4

-----------------------------------------------------------------------------
(* One thread appends.                                                     *)

OneThread == \A v, w \in Writers : v = w

(* What a writer holds fits the chain as it is: its number is the next one,  *)
(* its link the head, and its hash commits to both.                        *)
InStep(w) ==
  LET e == writer[w]
  IN  /\ e.pc \in {"idle", "numbered", "linked", "committed"}
      /\ e.pc \in {"numbered", "linked"} => e.seq = Len(chain) + 1
      /\ e.pc = "linked" => e.prev = head(chain)
      /\ e.pc = "committed" =>
           /\ HasFields(e.entry)
           /\ Continues(e.entry, Len(chain), head(chain))

ChainInv ==
  /\ Entries(chain)
  /\ Verifies(chain)
  /\ DOMAIN writer = Writers
  /\ \A w \in Writers : InStep(w)

(* The chain is as before and writer w has moved on: the rest are in step. *)
LEMMA StillInStep ==
  ASSUME ChainInv, UNCHANGED chain, NEW w \in Writers, NEW e,
         writer' = [writer EXCEPT ![w] = e], InStep(w)'
  PROVE  ChainInv'
<1>1. DOMAIN writer' = Writers
  BY DEF ChainInv
<1>2. ASSUME NEW v \in Writers, v # w
      PROVE  InStep(v)'
  <2>1. writer'[v] = writer[v]
    BY <1>2 DEF ChainInv
  <2>2. QED
    BY <2>1 DEF ChainInv, InStep
<1>3. \A v \in Writers : InStep(v)'
  BY <1>2
<1>4. QED
  BY <1>1, <1>3 DEF ChainInv

(* The entry a chain is extended by continues it, so the chain still verifies. *)
LEMMA ExtendVerifies ==
  ASSUME NEW s, NEW e, Entries(s), Verifies(s), HasFields(e),
         Continues(e, Len(s), head(s))
  PROVE  Entries(Append(s, e)) /\ Verifies(Append(s, e))
<1> DEFINE t == Append(s, e)
<1>1. /\ Proper(t) /\ Len(t) = Len(s) + 1
      /\ \A i \in 1 .. Len(s) : t[i] = s[i]
      /\ t[Len(s) + 1] = e
  BY ProperAppend DEF Entries
<1>2. Len(s) \in Nat /\ DOMAIN s = 1 .. Len(s)
  BY ProperLen DEF Entries
<1>3. DOMAIN t = 1 .. Len(s) + 1
  BY <1>1, <1>2, ProperLen
<1> HIDE DEF t
<1>4. ASSUME NEW i \in DOMAIN t
      PROVE  /\ HasFields(t[i])
             /\ Continues(t[i], i - 1, IF i = 1 THEN GENESIS_HASH ELSE t[i - 1].hash)
  <2>1. CASE i \in 1 .. Len(s)
    <3>1. t[i] = s[i] /\ (i # 1 => t[i - 1] = s[i - 1])
      BY <1>1, <1>2, <2>1
    <3>2. HasFields(s[i])
      BY <1>2, <2>1 DEF Entries
    <3>3. Continues(s[i], i - 1, IF i = 1 THEN GENESIS_HASH ELSE s[i - 1].hash)
      BY <1>2, <2>1 DEF Verifies
    <3>4. QED
      BY <3>1, <3>2, <3>3
  <2>2. CASE i = Len(s) + 1
    <3>1. t[i] = e /\ i - 1 = Len(s)
      BY <1>1, <1>2, <2>2
    <3>2. CASE i = 1
      <4>1. Len(s) = 0
        BY <1>2, <2>2, <3>2
      <4>2. s = << >>
        BY <4>1, <1>2, EmptySeq DEF Entries, Proper
      <4>3. QED
        BY <3>1, <3>2, <4>2 DEF head
    <3>3. CASE i # 1
      <4>1. Len(s) \in 1 .. Len(s) /\ s # << >>
        BY <1>2, <2>2, <3>3, EmptySeq
      <4>2. t[i - 1] = s[Len(s)]
        BY <1>1, <3>1, <4>1
      <4>3. head(s) = t[i - 1].hash
        BY <4>1, <4>2 DEF head
      <4>4. QED
        BY <3>1, <3>3, <4>3
    <3>4. QED
      BY <3>2, <3>3
  <2>3. QED
    BY <1>2, <1>3, <2>1, <2>2
<1>5. Entries(t)
  BY <1>1, <1>4 DEF Entries, t
<1>6. Verifies(t)
  BY <1>4 DEF Verifies
<1>7. QED
  BY <1>5, <1>6 DEF t

(* The initial chain is empty and every writer idle. *)
LEMMA InitChainInv ==
  ASSUME Init
  PROVE  ChainInv
<1>1. chain \in Seq({}) /\ DOMAIN chain = {}
  BY EmptySeq, LenProperties DEF Init
<1>2. Entries(chain) /\ Verifies(chain)
  BY <1>1, SeqIsProper DEF Entries, Verifies
<1>3. QED
  BY <1>2 DEF Init, ChainInv, InStep, Idle

(* Every step of the one thread, and of anyone else, keeps the chain sound. *)
LEMMA StepChainInv ==
  ASSUME OneThread, ChainInv, [Next]_vars
  PROVE  ChainInv'
<1>1. ASSUME NEW w \in Writers, NEW at \in Times, NEW payload \in Payloads,
             Number(w, at, payload)
      PROVE  ChainInv'
  <2>1. InStep(w)'
    BY <1>1 DEF Number, InStep, NextSeq, ChainInv
  <2>2. QED
    BY <1>1, <2>1, StillInStep DEF Number
<1>2. ASSUME NEW w \in Writers, Link(w)
      PROVE  ChainInv'
  <2>1. InStep(w)
    BY DEF ChainInv
  <2>2. InStep(w)'
    BY <1>2, <2>1 DEF Link, InStep, ChainInv
  <2>3. QED
    BY <1>2, <2>2, StillInStep DEF Link
<1>3. ASSUME NEW w \in Writers, Commit(w)
      PROVE  ChainInv'
  <2> DEFINE e == writer[w]
             entry == AuditEntry(e.seq, e.at, e.payload, e.prev,
                                 compute_hash(e.seq, e.at, head(chain), e.payload))
  <2>1. e.seq = Len(chain) + 1 /\ e.prev = head(chain)
    BY <1>3 DEF ChainInv, InStep, Commit
  <2>2. HasFields(entry)
    BY DEF HasFields, AuditEntry
  <2>3. Continues(entry, Len(chain), head(chain))
    BY <2>1 DEF Continues, recompute, AuditEntry
  <2>4. writer'[w] = [pc |-> "committed", entry |-> entry] /\ UNCHANGED chain
    BY <1>3 DEF Commit, ChainInv
  <2>5. InStep(w)'
    <3> HIDE DEF entry
    <3>1. QED
      BY <2>2, <2>3, <2>4 DEF InStep
  <2>6. QED
    BY <1>3, <2>5, StillInStep DEF Commit
<1>4. ASSUME NEW w \in Writers, Extend(w)
      PROVE  ChainInv'
  <2>1. /\ HasFields(writer[w].entry)
        /\ Continues(writer[w].entry, Len(chain), head(chain))
    BY <1>4 DEF ChainInv, InStep, Extend
  <2>2. Entries(chain') /\ Verifies(chain')
    BY <1>4, <2>1, ExtendVerifies DEF Extend, ChainInv
  <2>3. DOMAIN writer' = Writers /\ \A v \in Writers : writer'[v] = Idle
    BY <1>4 DEF Extend, ChainInv, OneThread
  <2>4. QED
    BY <2>2, <2>3 DEF ChainInv, InStep, Idle
<1>5. CASE UNCHANGED <<chain, writer>>
  BY <1>5 DEF ChainInv, InStep
<1>6. QED
  BY <1>1, <1>2, <1>3, <1>4, <1>5
  DEF Next, WriterStep, StartWalk, Examine, EndWalk, Copy, Alter, Done, vars

(* With one thread appending, the chain always verifies: the head read for   *)
(* the link is the head committed to and the head the entry is put after.  *)
THEOREM AppendedAlwaysVerifies ==
  ASSUME OneThread
  PROVE  Spec => []AppendedVerifies
<1>1. Init => ChainInv
  BY InitChainInv
<1>2. ChainInv /\ [Next]_vars => ChainInv'
  BY StepChainInv
<1>3. ChainInv => AppendedVerifies
  BY DEF ChainInv, AppendedVerifies
<1>4. QED
  BY <1>1, <1>2, <1>3, PTL DEF Spec

-----------------------------------------------------------------------------
(* The copy.                                                               *)

(* Rewriting a field, or recomputing a hash, leaves an entry an entry.      *)
LEMMA RewrittenHasFields ==
  ASSUME NEW e, HasFields(e), NEW f \in Rewritten(e)
  PROVE  HasFields(f)
BY DEF Rewritten, HasFields, AuditEntry

(* Whatever is done to the copy as a whole, its entries are those it had,    *)
(* or one of them rewritten.                                               *)
LEMMA AlterElements ==
  ASSUME Proper(copy), Alter
  PROVE  /\ Proper(copy')
         /\ \A k \in DOMAIN copy' :
              \E i \in DOMAIN copy :
                copy'[k] = copy[i] \/ copy'[k] \in Rewritten(copy[i])
<1> DEFINE S == {copy[k] : k \in DOMAIN copy}
           R == UNION {Rewritten(copy[k]) : k \in DOMAIN copy}
<1>1. Len(copy) \in Nat /\ DOMAIN copy = 1 .. Len(copy) /\ copy \in Seq(S)
  BY ProperLen DEF Proper
<1>2. SUFFICES copy' \in Seq(S \union R)
  <2>1. \A k \in DOMAIN copy' : copy'[k] \in S \union R
    <3> HIDE DEF S, R
    <3>1. QED
      BY <1>2, LenProperties, ElementOfSeq
  <2>2. Proper(copy')
    <3> HIDE DEF S, R
    <3>1. QED
      BY <1>2, SeqIsProper
  <2>3. QED
    BY <2>1, <2>2
<1>3. PICK i \in DOMAIN copy :
        \/ \E e \in Rewritten(copy[i]) : copy' = [copy EXCEPT ![i] = e]
        \/ copy' = Without(copy, i)
        \/ \E j \in DOMAIN copy : copy' = [copy EXCEPT ![i] = copy[j], ![j] = copy[i]]
  BY DEF Alter
<1>4. (\A k \in 1 .. Len(copy) : copy[k] \in S) /\ Rewritten(copy[i]) \subseteq R
  BY <1>1
<1> HIDE DEF S, R
<1>5. copy \in Seq(S \union R)
  BY <1>1, SeqMonotonic
<1>6. ASSUME NEW e \in Rewritten(copy[i]), copy' = [copy EXCEPT ![i] = e]
      PROVE  copy' \in Seq(S \union R)
  <2>1. e \in S \union R
    BY <1>4
  <2>2. QED
    BY <1>1, <1>5, <1>6, <2>1, ExceptSeq
<1>7. ASSUME copy' = Without(copy, i)
      PROVE  copy' \in Seq(S \union R)
  <2> DEFINE a == SubSeq(copy, 1, i - 1)
             b == SubSeq(copy, i + 1, Len(copy))
  <2>1. a \in Seq(S)
    BY <1>1, <1>4, SubSeqProperties
  <2>2. b \in Seq(S)
    BY <1>1, <1>4, SubSeqProperties
  <2> HIDE DEF a, b
  <2>3. copy' = a \o b
    BY <1>7 DEF Without, a, b
  <2>4. copy' \in Seq(S)
    BY <2>1, <2>2, <2>3
  <2>5. QED
    BY <2>4, SeqMonotonic
<1>8. ASSUME NEW j \in DOMAIN copy, copy' = [copy EXCEPT ![i] = copy[j], ![j] = copy[i]]
      PROVE  copy' \in Seq(S \union R)
  <2>1. copy[i] \in S /\ copy[j] \in S
    BY <1>1, <1>4
  <2>2. copy' \in Seq(S)
    BY <1>1, <1>8, <2>1
  <2>3. QED
    BY <2>2, SeqMonotonic
<1>9. QED
  BY <1>3, <1>6, <1>7, <1>8

(* So they keep their fields. *)
LEMMA AlterKeepsEntries ==
  ASSUME Entries(copy), Alter
  PROVE  Entries(copy')
BY AlterElements, RewrittenHasFields DEF Entries

(* A copy that verifies and ends in a hash of a sound chain is its beginning. *)
LEMMA GenuineIfSound ==
  ASSUME ChainInv, Entries(copy)
  PROVE  CopyIsGenuine
<1> DEFINE n == Len(copy)
<1>1. SUFFICES ASSUME n \in 1 .. Len(chain), copy[n].hash = chain[n].hash,
                      Verifies(copy)
               PROVE  copy = SubSeq(chain, 1, n)
  BY DEF CopyIsGenuine
<1>2. /\ Entries(chain) /\ Verifies(chain)
      /\ Len(chain) \in Nat /\ DOMAIN chain = 1 .. Len(chain)
      /\ n \in Nat /\ DOMAIN copy = 1 .. n
  BY ProperLen DEF ChainInv, Entries
<1>3. \A i \in 1 .. n : copy[i] = chain[i]
  BY <1>1, <1>2, HashDeterminesChain
<1> DEFINE S == {copy[k] : k \in DOMAIN copy}
<1>4. copy \in Seq(S)
  BY DEF Entries, Proper
<1>5. \A i \in 1 .. n : chain[i] \in S
  BY <1>2, <1>3
<1>6. /\ SubSeq(chain, 1, n) \in Seq(S) /\ Len(SubSeq(chain, 1, n)) = n
      /\ \A i \in 1 .. n : SubSeq(chain, 1, n)[i] = chain[i]
  <2> HIDE DEF S
  <2>1. QED
    BY <1>1, <1>5, SubSeqProperties
<1>7. QED
  <2> HIDE DEF S
  <2>1. QED
    BY <1>3, <1>4, <1>6, SeqEqual

(* Whatever was done to a copy, and however often, it cannot both verify,    *)
(* end in the chain's hash at that place, and differ from the chain.       *)
THEOREM CopyAlwaysGenuine ==
  ASSUME OneThread
  PROVE  Spec => []CopyIsGenuine
<1>1. Init => ChainInv /\ Entries(copy)
  <2>1. SUFFICES ASSUME Init PROVE Entries(copy)
    BY InitChainInv
  <2>2. copy \in Seq({}) /\ DOMAIN copy = {}
    BY <2>1, EmptySeq, LenProperties DEF Init
  <2>3. QED
    BY <2>2, SeqIsProper DEF Entries
<1>2. ChainInv /\ Entries(copy) /\ [Next]_vars => ChainInv' /\ Entries(copy)'
  <2>1. SUFFICES ASSUME ChainInv, Entries(copy), [Next]_vars
                 PROVE  Entries(copy')
    BY StepChainInv
  <2>2. CASE Copy
    BY <2>1, <2>2 DEF Copy, ChainInv
  <2>3. CASE Alter
    BY <2>1, <2>3, AlterKeepsEntries
  <2>4. CASE UNCHANGED copy
    BY <2>1, <2>4
  <2>5. QED
    BY <2>1, <2>2, <2>3, <2>4
    DEF Next, WriterStep, Number, Link, Commit, Extend, StartWalk, Examine,
        EndWalk, Done, vars
<1>3. ChainInv /\ Entries(copy) => CopyIsGenuine
  BY GenuineIfSound
<1>4. QED
  BY <1>1, <1>2, <1>3, PTL DEF Spec
-----------------------------------------------------------------------------
(* The walk, whoever appends meanwhile.                                    *)

HashBefore(s, i) == IF i = 1 THEN GENESIS_HASH ELSE s[i - 1].hash

(* The first n entries each continue those before them. *)
UpTo(s, n) == \A i \in 1 .. n : Continues(s[i], i - 1, HashBefore(s, i))

(* That is what verify_chain says of those n entries by themselves. *)
LEMMA UpToVerifies ==
  ASSUME NEW s, Proper(s), NEW n \in 0 .. Len(s)
  PROVE  Verifies(SubSeq(s, 1, n)) <=> UpTo(s, n)
<1> DEFINE S == {s[i] : i \in DOMAIN s}
           t == SubSeq(s, 1, n)
<1>1. Len(s) \in Nat /\ DOMAIN s = 1 .. Len(s)
  BY ProperLen
<1>2. \A i \in 1 .. n : s[i] \in S
  BY <1>1
<1>3. /\ t \in Seq(S) /\ Len(t) = n
      /\ \A i \in 1 .. n : t[i] = s[i]
  <2> HIDE DEF S
  <2>1. QED
    BY <1>1, <1>2, SubSeqProperties
<1>4. DOMAIN t = 1 .. n
  BY <1>3, LenProperties
<1> HIDE DEF t
<1>5. \A i \in 1 .. n : i # 1 => t[i - 1] = s[i - 1]
  BY <1>1, <1>3
<1>6. Verifies(t) <=>
        \A i \in 1 .. n :
          Continues(t[i], i - 1, IF i = 1 THEN GENESIS_HASH ELSE t[i - 1].hash)
  BY <1>4 DEF Verifies
<1>7. ASSUME NEW i \in 1 .. n
      PROVE  (IF i = 1 THEN GENESIS_HASH ELSE t[i - 1].hash) = HashBefore(s, i)
  BY <1>5 DEF HashBefore
<1>8. QED
  BY <1>3, <1>6, <1>7 DEF UpTo, t

(* Extending a chain changes nothing of what came before. *)
LEMMA UpToStable ==
  ASSUME NEW s, NEW e, Proper(s), NEW n \in 0 .. Len(s)
  PROVE  UpTo(Append(s, e), n) <=> UpTo(s, n)
<1> DEFINE t == Append(s, e)
<1>1. Len(s) \in Nat /\ \A i \in 1 .. Len(s) : t[i] = s[i]
  BY ProperLen, ProperAppend
<1> HIDE DEF t
<1>2. ASSUME NEW i \in 1 .. n
      PROVE  t[i] = s[i] /\ HashBefore(t, i) = HashBefore(s, i)
  <2>1. i \in 1 .. Len(s) /\ (i # 1 => i - 1 \in 1 .. Len(s))
    BY <1>1
  <2>2. QED
    BY <1>1, <2>1 DEF HashBefore
<1>3. QED
  BY <1>2 DEF UpTo, t

(* The walk has seen `checked` entries, found each to continue the chain,   *)
(* and remembers the hash of the last; a verdict is about what it saw.     *)
WalkInv ==
  /\ Proper(chain)
  /\ walk.pc = "walking" =>
       /\ walk = [pc |-> "walking", checked |-> walk.checked, prev |-> walk.prev]
       /\ walk.checked \in 0 .. Len(chain)
       /\ UpTo(chain, walk.checked)
       /\ walk.prev = HashBefore(chain, walk.checked + 1)
  /\ walk.pc = "intact" =>
       /\ walk.checked \in 0 .. Len(chain)
       /\ UpTo(chain, walk.checked)
  /\ walk.pc = "broken" =>
       /\ walk.checked \in 0 .. Len(chain) - 1
       /\ UpTo(chain, walk.checked)
       /\ ~ UpTo(chain, walk.checked + 1)
       /\ walk.at = chain[walk.checked + 1].seq

(* Every step of the writers or of the walk keeps it so. *)
LEMMA StepWalkInv ==
  ASSUME WalkInv, [Next]_vars
  PROVE  WalkInv'
<1>1. Len(chain) \in Nat /\ DOMAIN chain = 1 .. Len(chain) /\ Proper(chain)
  BY ProperLen DEF WalkInv
<1>2. ASSUME NEW w \in Writers, Extend(w)
      PROVE  WalkInv'
  <2>1. PICK e : chain' = Append(chain, e) /\ walk' = walk
    BY <1>2 DEF Extend
  <2>2. Proper(chain') /\ Len(chain') = Len(chain) + 1
    BY <1>1, <2>1, ProperAppend
  <2>3. \A n \in 0 .. Len(chain) : UpTo(chain', n) <=> UpTo(chain, n)
    BY <1>1, <2>1, UpToStable
  <2>4. ASSUME walk.pc = "walking"
        PROVE  HashBefore(chain', walk.checked + 1) = HashBefore(chain, walk.checked + 1)
    <3>1. walk.checked \in 0 .. Len(chain)
      BY <2>4 DEF WalkInv
    <3>2. walk.checked # 0 => chain'[walk.checked] = chain[walk.checked]
      BY <1>1, <2>1, <3>1, ProperAppend
    <3>3. QED
      BY <3>1, <3>2 DEF HashBefore
  <2>5. walk.pc = "walking" => WalkInv'
    BY <1>1, <2>1, <2>2, <2>3, <2>4 DEF WalkInv
  <2>6. walk.pc = "intact" => WalkInv'
    BY <1>1, <2>1, <2>2, <2>3 DEF WalkInv
  <2>7. walk.pc = "broken" => WalkInv'
    <3>1. SUFFICES ASSUME walk.pc = "broken" PROVE WalkInv'
      OBVIOUS
    <3>2. walk.checked \in 0 .. Len(chain) - 1 /\ walk.checked + 1 \in 1 .. Len(chain)
      BY <1>1, <3>1 DEF WalkInv
    <3>3. chain'[walk.checked + 1] = chain[walk.checked + 1]
      BY <1>1, <2>1, <3>2, ProperAppend
    <3>4. QED
      BY <1>1, <2>1, <2>2, <2>3, <3>1, <3>2, <3>3 DEF WalkInv
  <2>8. walk.pc \notin {"walking", "intact", "broken"} => WalkInv'
    BY <2>1, <2>2 DEF WalkInv
  <2>9. QED
    BY <2>5, <2>6, <2>7, <2>8
<1>3. CASE StartWalk
  BY <1>1, <1>3 DEF StartWalk, WalkInv, UpTo, HashBefore
<1>4. CASE Examine
  <2> DEFINE n == walk.checked + 1
  <2>1. /\ n \in 1 .. Len(chain) /\ UpTo(chain, n - 1)
        /\ walk = [pc |-> "walking", checked |-> walk.checked, prev |-> walk.prev]
        /\ walk.prev = HashBefore(chain, n)
        /\ chain' = chain
    BY <1>1, <1>4 DEF Examine, WalkInv
  <2>2. UpTo(chain, n) <=> Continues(chain[n], n - 1, walk.prev)
    BY <2>1 DEF UpTo
  <2>3. n - 1 = walk.checked
    BY <2>1, <1>4 DEF Examine, WalkInv
  <2>4. CASE Continues(chain[n], walk.checked, walk.prev)
    <3>1. walk' = [pc |-> "walking", checked |-> n, prev |-> chain[n].hash]
      BY <1>4, <2>1, <2>4 DEF Examine
    <3>2. UpTo(chain, n)
      BY <2>2, <2>3, <2>4
    <3> HIDE DEF n
    <3>3. HashBefore(chain, n + 1) = chain[n].hash
      <4>1. n + 1 # 1 /\ (n + 1) - 1 = n
        BY <1>1, <2>1
      <4>2. QED
        BY <4>1 DEF HashBefore
    <3>4. QED
      BY <1>1, <2>1, <3>1, <3>2, <3>3 DEF WalkInv
  <2>5. CASE ~ Continues(chain[n], walk.checked, walk.prev)
    <3>1. walk' = [pc |-> "broken", checked |-> n - 1, at |-> chain[n].seq]
      BY <1>4, <2>3, <2>5 DEF Examine, Broken
    <3>2. ~ UpTo(chain, n)
      BY <2>2, <2>3, <2>5
    <3> HIDE DEF n
    <3>3. QED
      BY <1>1, <2>1, <3>1, <3>2 DEF WalkInv
  <2>6. QED
    BY <2>4, <2>5
<1>5. CASE EndWalk
  BY <1>5 DEF EndWalk, WalkInv
<1>6. CASE UNCHANGED <<chain, walk>>
  BY <1>6 DEF WalkInv
<1>7. QED
  BY <1>2, <1>3, <1>4, <1>5, <1>6
  DEF Next, WriterStep, Number, Link, Commit, Copy, Alter, Done, vars

(* What verify_chain reports is right of the entries it walked, however many *)
(* threads extend the chain while it walks, and whether or not it is sound.*)
THEOREM WalkAlwaysRight == Spec => []WalkIsRight
<1>1. Init => WalkInv
  <2>1. SUFFICES ASSUME Init PROVE Proper(chain)
    BY DEF Init, WalkInv, NoWalk
  <2>2. QED
    BY <2>1, EmptySeq, SeqIsProper DEF Init
<1>2. WalkInv /\ [Next]_vars => WalkInv'
  BY StepWalkInv
<1>3. WalkInv => WalkIsRight
  <2>1. SUFFICES ASSUME WalkInv PROVE WalkIsRight
    OBVIOUS
  <2>2. Len(chain) \in Nat /\ Proper(chain)
    BY <2>1, ProperLen DEF WalkInv
  <2>3. \A n \in 0 .. Len(chain) : Verifies(SubSeq(chain, 1, n)) <=> UpTo(chain, n)
    BY <2>2, UpToVerifies
  <2>4. walk.pc = "intact" =>
          walk.checked <= Len(chain) /\ Verifies(SubSeq(chain, 1, walk.checked))
    BY <2>1, <2>2, <2>3 DEF WalkInv
  <2>5. walk.pc = "broken" =>
          /\ walk.checked < Len(chain)
          /\ Verifies(SubSeq(chain, 1, walk.checked))
          /\ ~ Verifies(SubSeq(chain, 1, walk.checked + 1))
          /\ walk.at = chain[walk.checked + 1].seq
    BY <2>1, <2>2, <2>3 DEF WalkInv
  <2>6. QED
    BY <2>4, <2>5 DEF WalkIsRight
<1>4. QED
  BY <1>1, <1>2, <1>3, PTL DEF Spec

-----------------------------------------------------------------------------
(* Types, for any number of threads.                                       *)

TypedEntries(s) == Proper(s) /\ \A i \in DOMAIN s : Entry(s[i])

(* What a thread holds between its steps. *)
TypedWriter(e) ==
  /\ e.pc \in {"idle", "numbered", "linked", "committed"}
  /\ e.pc \in {"numbered", "linked"} =>
       e.seq \in Nat \ {0} /\ e.at \in Times /\ e.payload \in Payloads
  /\ e.pc = "committed" => Entry(e.entry)

TypeInv ==
  /\ TypedEntries(chain)
  /\ TypedEntries(copy)
  /\ DOMAIN writer = Writers
  /\ \A w \in Writers : TypedWriter(writer[w])
  /\ walk.pc \in {"idle", "walking", "intact", "broken"}
  /\ walk.pc = "walking" =>
       walk = [pc |-> "walking", checked |-> walk.checked, prev |-> walk.prev]
  /\ alterations \in 0 .. MaxAlterations

(* A rewritten entry is an entry.                                          *)
LEMMA RewrittenTyped ==
  ASSUME NEW e, Entry(e), NEW f \in Rewritten(e)
  PROVE  Entry(f)
BY DEF Rewritten, Entry, Fields

(* A thread's own step keeps what it holds typed. *)
LEMMA WriterTyped ==
  ASSUME TypeInv, NEW w \in Writers, WriterStep(w)
  PROVE  TypeInv'
<1>1. ASSUME NEW e, writer' = [writer EXCEPT ![w] = e], TypedWriter(e),
             UNCHANGED <<walk, copy, alterations>>, TypedEntries(chain')
      PROVE  TypeInv'
  BY <1>1 DEF TypeInv
<1>2. Proper(chain) /\ Len(chain) \in Nat /\ TypedWriter(writer[w])
  BY ProperLen DEF TypeInv, TypedEntries
<1>3. ASSUME NEW at \in Times, NEW payload \in Payloads, Number(w, at, payload)
      PROVE  TypeInv'
  <2> DEFINE e == [pc |-> "numbered", seq |-> NextSeq, at |-> at, payload |-> payload]
  <2>1. TypedWriter(e)
    BY <1>2 DEF TypedWriter, NextSeq
  <2> HIDE DEF e
  <2>2. QED
    BY <1>1, <1>3, <2>1 DEF Number, TypeInv, e
<1>4. CASE Link(w)
  <2> DEFINE e == [pc |-> "linked", seq |-> writer[w].seq, at |-> writer[w].at,
                   payload |-> writer[w].payload, prev |-> head(chain)]
  <2>1. TypedWriter(e)
    BY <1>2, <1>4 DEF TypedWriter, Link
  <2>2. writer' = [writer EXCEPT ![w] = e]
    BY <1>4 DEF Link
  <2> HIDE DEF e
  <2>3. QED
    BY <1>1, <1>4, <2>1, <2>2 DEF Link, TypeInv
<1>5. CASE Commit(w)
  <2> DEFINE h == compute_hash(writer[w].seq, writer[w].at, head(chain), writer[w].payload)
             e == [pc |-> "committed",
                   entry |-> AuditEntry(writer[w].seq, writer[w].at,
                                        writer[w].payload, writer[w].prev, h)]
  <2>1. writer' = [writer EXCEPT ![w] = e]
    BY <1>5 DEF Commit
  <2>2. TypedWriter(e)
    <3> HIDE DEF h
    <3>1. QED
      BY <1>2, <1>5 DEF TypedWriter, Commit, AuditEntry, Entry, Fields
  <2> HIDE DEF e
  <2>3. QED
    BY <1>1, <1>5, <2>1, <2>2 DEF Commit, TypeInv
<1>6. CASE Extend(w)
  <2>1. Entry(writer[w].entry) /\ chain' = Append(chain, writer[w].entry)
    BY <1>2, <1>6 DEF Extend, TypedWriter
  <2>2. TypedEntries(chain')
    <3>1. \A i \in DOMAIN chain : Entry(chain[i])
      BY DEF TypeInv, TypedEntries
    <3>2. /\ Proper(chain')
          /\ DOMAIN chain = 1 .. Len(chain) /\ DOMAIN chain' = 1 .. Len(chain')
          /\ Len(chain') = Len(chain) + 1
          /\ \A i \in 1 .. Len(chain) : chain'[i] = chain[i]
          /\ chain'[Len(chain) + 1] = writer[w].entry
      BY <1>2, <2>1, ProperAppend, ProperLen
    <3>3. QED
      BY <1>2, <2>1, <3>1, <3>2 DEF TypedEntries
  <2>3. TypedWriter(Idle)
    BY DEF TypedWriter, Idle
  <2>4. QED
    BY <1>1, <1>6, <2>2, <2>3 DEF Extend
<1>7. QED
  BY <1>3, <1>4, <1>5, <1>6 DEF WriterStep

(* The chain, what the threads hold and the copy keep their types, also when *)
(* threads race, and however the copy is changed.                          *)
THEOREM TypeCorrect == Spec => []TypeOK
<1>1. Init => TypeInv
  <2>1. SUFFICES ASSUME Init PROVE TypedEntries(chain) /\ TypedEntries(copy)
    BY BoundsAssumption DEF Init, TypeInv, TypedWriter, Idle, NoWalk
  <2>2. << >> \in Seq({}) /\ DOMAIN << >> = {}
    BY EmptySeq, LenProperties
  <2>3. QED
    BY <2>1, <2>2, SeqIsProper DEF Init, TypedEntries
<1>2. TypeInv /\ [Next]_vars => TypeInv'
  <2> SUFFICES ASSUME TypeInv, [Next]_vars PROVE TypeInv'
    OBVIOUS
  <2>1. CASE UNCHANGED vars
    BY <2>1 DEF vars, TypeInv
  <2>2. CASE StartWalk \/ EndWalk
    BY <2>2 DEF StartWalk, EndWalk, TypeInv
  <2>3. CASE Examine
    <3>1. \/ walk' = [pc |-> "walking", checked |-> walk.checked + 1,
                     prev |-> chain[walk.checked + 1].hash]
          \/ walk' = [pc |-> "broken", checked |-> walk.checked,
                     at |-> chain[walk.checked + 1].seq]
      BY <2>3 DEF Examine, Broken, TypeInv
    <3>2. /\ walk'.pc \in {"walking", "broken"}
          /\ walk'.pc = "walking" =>
               walk' = [pc |-> "walking", checked |-> walk'.checked, prev |-> walk'.prev]
      BY <3>1
    <3>3. QED
      BY <2>3, <3>2 DEF Examine, TypeInv
  <2>4. CASE Copy
    BY <2>4 DEF Copy, TypeInv
  <2>5. CASE Alter
    <3>1. TypedEntries(copy')
      BY <2>5, AlterElements, RewrittenTyped DEF TypeInv, TypedEntries
    <3>2. alterations' \in 0 .. MaxAlterations
      BY <2>5, BoundsAssumption DEF Alter, TypeInv
    <3>3. QED
      BY <2>5, <3>1, <3>2 DEF Alter, TypeInv
  <2>6. QED
    BY <2>1, <2>2, <2>3, <2>4, <2>5, WriterTyped DEF Next, Done
<1>3. TypeInv => TypeOK
  BY DEF TypeInv, TypeOK, TypedEntries, TypedWriter
<1> QED
  BY <1>1, <1>2, <1>3, PTL DEF Spec
=============================================================================
