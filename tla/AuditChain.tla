----------------------------- MODULE AuditChain -----------------------------
(***************************************************************************)
(* The hash chain of src/wapas/audit/chain.py: HashChain.append, and       *)
(* verify_chain over the chain as it grows and over a copy of it that was  *)
(* kept, or changed, elsewhere.                                            *)
(*                                                                         *)
(* append() takes no lock.  It reads the length of the list, then its last *)
(* hash, then the last hash again to commit to it, and only then extends   *)
(* the list; other threads run in between.                                 *)
(***************************************************************************)
EXTENDS Integers, Sequences

CONSTANTS
  Writers,         \* threads that append
  Payloads,        \* payloads as redact() leaves them
  Times,           \* timestamps; the provider's may be of any moment
  MaxEntries,      \* bound on the entries of the chain
  MaxAlterations   \* bound on the changes made to the copy

ASSUME BoundsAssumption == MaxEntries \in Nat /\ MaxAlterations \in Nat

GENESIS_HASH == << >>

(* sha256 is taken to be free of collisions: a hash tells what it commits    *)
(* to.  Actor, event type and episode are not part of the commitment.       *)
compute_hash(seq, at, prev, payload) == <<prev, seq, at, payload>>

VARIABLES
  chain,        \* HashChain.entries
  writer,       \* thread -> where append() is, and the entry it makes
  walk,         \* verify_chain over the chain: next index, its hash, verdict
  copy,         \* what someone else holds of the chain
  alterations   \* changes made to the copy

vars == <<chain, writer, walk, copy, alterations>>

AuditEntry(seq, at, payload, prev, hash) ==
  [seq |-> seq, at |-> at, payload |-> payload, prev |-> prev, hash |-> hash]

\* Mutation of head: the chain is continued from its first entry.
head_First(entries) == IF entries = << >> THEN GENESIS_HASH ELSE entries[1].hash

head(entries) ==
  IF entries = << >> THEN GENESIS_HASH ELSE entries[Len(entries)].hash

Idle == [pc |-> "idle"]
NoWalk == [pc |-> "idle"]

Init ==
  /\ chain = << >>
  /\ writer = [w \in Writers |-> Idle]
  /\ walk = NoWalk
  /\ copy = << >>
  /\ alterations = 0

-----------------------------------------------------------------------------
(* append.                                                                 *)

\* Mutation of NextSeq: entries are counted from zero.
NextSeq_FromZero == Len(chain)

NextSeq == Len(chain) + 1

Number(w, at, payload) ==
  /\ writer[w].pc = "idle"
  /\ Len(chain) < MaxEntries
  /\ writer' = [writer EXCEPT ![w] =
       [pc |-> "numbered", seq |-> NextSeq, at |-> at, payload |-> payload]]
  /\ UNCHANGED <<chain, walk, copy, alterations>>

Link(w) ==
  /\ writer[w].pc = "numbered"
  /\ writer' = [writer EXCEPT ![w] =
       [pc |-> "linked", seq |-> @.seq, at |-> @.at, payload |-> @.payload,
        prev |-> head(chain)]]
  /\ UNCHANGED <<chain, walk, copy, alterations>>

(* What the entry commits to is the head as it is now, read a second time.  *)
Commit(w) ==
  /\ writer[w].pc = "linked"
  /\ writer' = [writer EXCEPT ![w] =
       [pc |-> "committed",
        entry |-> AuditEntry(@.seq, @.at, @.payload, @.prev,
                             compute_hash(@.seq, @.at, head(chain), @.payload))]]
  /\ UNCHANGED <<chain, walk, copy, alterations>>

Extend(w) ==
  /\ writer[w].pc = "committed"
  /\ chain' = Append(chain, writer[w].entry)
  /\ writer' = [writer EXCEPT ![w] = Idle]
  /\ UNCHANGED <<walk, copy, alterations>>

-----------------------------------------------------------------------------
(* verify_chain.                                                           *)

\* Mutation of recompute: the timestamp is left out of what is compared.
recompute_NoTime(entry) ==
  compute_hash(entry.seq, entry.hash[3], entry.prev, entry.payload)

recompute(entry) == compute_hash(entry.seq, entry.at, entry.prev, entry.payload)

(* Does an entry continue a chain of `checked` entries that ends in prev?   *)
Continues(entry, checked, prev) ==
  /\ entry.seq = checked + 1
  /\ entry.prev = prev
  /\ recompute(entry) = entry.hash

(* verify_chain(entries).ok: every entry continues those before it. *)
Verifies(entries) ==
  \A i \in DOMAIN entries :
    Continues(entries[i], i - 1, IF i = 1 THEN GENESIS_HASH ELSE entries[i - 1].hash)

(* /healthz and /audit walk the list while other threads extend it.         *)
StartWalk ==
  /\ walk.pc = "idle"
  /\ walk' = [pc |-> "walking", checked |-> 0, prev |-> GENESIS_HASH]
  /\ UNCHANGED <<chain, writer, copy, alterations>>

(* What a walk that stops says: how many entries it passed, and the number   *)
(* the next one claims for itself.                                         *)
Broken ==
  [pc |-> "broken", checked |-> walk.checked, at |-> chain[walk.checked + 1].seq]

\* Mutation of Examine: the walk does not remember the hash it has seen.
Examine_NoPrev ==
  /\ walk.pc = "walking"
  /\ walk.checked < Len(chain)
  /\ walk' = IF Continues(chain[walk.checked + 1], walk.checked, walk.prev)
               THEN [walk EXCEPT !.checked = @ + 1]
               ELSE Broken
  /\ UNCHANGED <<chain, writer, copy, alterations>>

Examine ==
  /\ walk.pc = "walking"
  /\ walk.checked < Len(chain)
  /\ walk' = IF Continues(chain[walk.checked + 1], walk.checked, walk.prev)
               THEN [walk EXCEPT !.checked = @ + 1,
                                 !.prev = chain[walk.checked + 1].hash]
               ELSE Broken
  /\ UNCHANGED <<chain, writer, copy, alterations>>

(* The iterator is exhausted when it reaches the length of that moment.     *)
EndWalk ==
  /\ walk.pc = "walking"
  /\ walk.checked = Len(chain)
  /\ walk' = [pc |-> "intact", checked |-> walk.checked]
  /\ UNCHANGED <<chain, writer, copy, alterations>>

-----------------------------------------------------------------------------
(* A copy of the entries, and what may be done to it: every field of an     *)
(* entry rewritten, hashes recomputed, entries removed and exchanged.      *)

Copy ==
  /\ copy = << >>
  /\ copy' = chain
  /\ UNCHANGED <<chain, writer, walk, alterations>>

Rewritten(e) ==
  {[e EXCEPT !.payload = p] : p \in Payloads} \union
  {[e EXCEPT !.at = t] : t \in Times} \union
  {[e EXCEPT !.seq = n] : n \in 1 .. MaxEntries} \union
  {[e EXCEPT !.hash = recompute(e)]} \union
  {[e EXCEPT !.prev = h] : h \in {GENESIS_HASH} \union {copy[i].hash : i \in DOMAIN copy}}

Without(entries, i) ==
  SubSeq(entries, 1, i - 1) \o SubSeq(entries, i + 1, Len(entries))

Alter ==
  /\ alterations < MaxAlterations
  /\ alterations' = alterations + 1
  /\ \E i \in DOMAIN copy :
       \/ \E e \in Rewritten(copy[i]) : copy' = [copy EXCEPT ![i] = e]
       \/ copy' = Without(copy, i)
       \/ \E j \in DOMAIN copy : copy' = [copy EXCEPT ![i] = copy[j], ![j] = copy[i]]
  /\ UNCHANGED <<chain, writer, walk>>

-----------------------------------------------------------------------------

(* The chain is full; verification of it has been read. *)
Done ==
  /\ Len(chain) >= MaxEntries
  /\ walk.pc \in {"intact", "broken"}
  /\ UNCHANGED vars

WriterStep(w) ==
  \/ \E at \in Times, payload \in Payloads : Number(w, at, payload)
  \/ Link(w) \/ Commit(w) \/ Extend(w)

Next ==
  \/ \E w \in Writers : WriterStep(w)
  \/ StartWalk \/ Examine \/ EndWalk
  \/ Copy \/ Alter
  \/ Done

Spec == Init /\ [][Next]_vars

-----------------------------------------------------------------------------
(* Properties.                                                             *)

Fields == {"seq", "at", "payload", "prev", "hash"}

Entry(e) ==
  /\ DOMAIN e = Fields
  /\ e.seq \in Nat \ {0} /\ e.at \in Times /\ e.payload \in Payloads

(* Entries number from one and have their fields; hashes have no type of     *)
(* their own, being whatever they commit to.                               *)
TypeOK ==
  /\ \A i \in DOMAIN chain : Entry(chain[i])
  /\ \A i \in DOMAIN copy : Entry(copy[i])
  /\ \A w \in Writers :
       writer[w].pc \in {"idle", "numbered", "linked", "committed"}
  /\ walk.pc \in {"idle", "walking", "intact", "broken"}
  /\ alterations \in 0 .. MaxAlterations

(* tests/test_audit_chain.py: "a chain built only through append() always    *)
(* verifies".  It does while one thread at a time appends.                 *)
AppendedVerifies == Verifies(chain)

(* What verify_chain says of a chain that grows under it: intact means the   *)
(* entries it counted verify, and broken that they do, that they do not with *)
(* the next one, and which number that one has.                            *)
WalkIsRight ==
  /\ walk.pc = "intact" =>
       /\ walk.checked <= Len(chain)
       /\ Verifies(SubSeq(chain, 1, walk.checked))
  /\ walk.pc = "broken" =>
       /\ walk.checked < Len(chain)
       /\ Verifies(SubSeq(chain, 1, walk.checked))
       /\ ~ Verifies(SubSeq(chain, 1, walk.checked + 1))
       /\ walk.at = chain[walk.checked + 1].seq

(* src/README.md: "tamper, reorder, deletion and back-dating all detected".  *)
(* Whatever was done to a copy, if it verifies and ends in a hash the chain *)
(* has at that place, it is the beginning of the chain, entry for entry.    *)
CopyIsGenuine ==
  LET n == Len(copy)
  IN  /\ n \in 1 .. Len(chain)
      /\ copy[n].hash = chain[n].hash
      /\ Verifies(copy)
      => copy = SubSeq(chain, 1, n)
=============================================================================
