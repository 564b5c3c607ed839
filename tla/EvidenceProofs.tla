--------------------------- MODULE EvidenceProofs ---------------------------
(***************************************************************************)
(* Proofs about the evidence a decision leaves, for any number of entries, *)
(* failing writes, crashes, starts and keys: rotation never invalidates an *)
(* issued certificate where the key comes from the store; the entries lost *)
(* to failing writes are bounded, and show; the verification that          *)
(* remembers its position agrees with the full one.                        *)
(***************************************************************************)
EXTENDS EvidenceChain, FiniteSetTheorems, SequenceTheorems, TLAPS

(* What the store alone keeps of the keys certificates were signed with:   *)
(* each is retired or current, so a start finds them all.                  *)
KeysKept == certs \subseteq kvRetired \cup ({kvKey} \ {NoKey})

(* The inductive invariant.  While the process runs, the key in memory is  *)
(* the one in the store; between the two writes of a rotation it is in     *)
(* the retired row already, so that overwriting the current row, or dying  *)
(* before that, loses nothing.                                             *)
KeyInv ==
  /\ keys \in Nat
  /\ KeysKept
  /\ up => key = kvKey /\ key # NoKey
  /\ rotating => up /\ key \in kvRetired

LEMMA InitKeys == Init => KeyInv
BY DEF Init, KeyInv, KeysKept

LEMMA StepKeys ==
  ASSUME EnvKey = NoKey, KeyInv, [Next]_vars
  PROVE  KeyInv'
<1> USE DEF KeyInv, KeysKept
<1>1. CASE UNCHANGED vars
  BY <1>1 DEF vars, signing
<1>2. CASE Start
  <2>1. keys + 1 # NoKey
    BY NoKeyIsNoKey
  <2>2. CASE kvKey = NoKey
    <3>1. kvKey' = keys + 1 /\ key' = keys + 1 /\ keys' = keys + 1
      BY <1>2, <2>2 DEF Start, StartKey
    <3>2. UNCHANGED <<certs, kvRetired, rotating>> /\ up' = TRUE /\ ~up
      BY <1>2 DEF Start
    <3> QED
      BY <2>1, <2>2, <3>1, <3>2
  <2>3. CASE kvKey # NoKey
    <3>1. kvKey' = kvKey /\ key' = kvKey /\ keys' = keys
      BY <1>2, <2>3 DEF Start, StartKey
    <3>2. UNCHANGED <<certs, kvRetired, rotating>> /\ up' = TRUE /\ ~up
      BY <1>2 DEF Start
    <3> QED
      BY <2>3, <3>1, <3>2
  <2> QED
    BY <2>2, <2>3
<1>3. CASE Crash
  BY <1>3 DEF Crash
<1>4. CASE RecordAction
  BY <1>4 DEF RecordAction, Record, signing
<1>5. CASE Issue
  <2>1. UNCHANGED <<key, rotating, kvKey, kvRetired, keys, up>> /\ up
    BY <1>5 DEF Issue, Record
  <2>2. certs' = certs \cup {key}
    BY <1>5 DEF Issue
  <2> QED
    BY <2>1, <2>2
<1>6. CASE VerifyCached
  BY <1>6 DEF VerifyCached, signing
<1>7. CASE RetireKey
  BY <1>7 DEF RetireKey, Retired
<1>8. CASE ReplaceKey
  <2>1. keys' = keys + 1 /\ kvKey' = keys + 1 /\ key' = keys + 1
    BY <1>8 DEF ReplaceKey
  <2>2. rotating' = FALSE /\ up /\ rotating /\ UNCHANGED <<certs, kvRetired, up>>
    BY <1>8 DEF ReplaceKey
  <2>3. keys + 1 # NoKey
    BY NoKeyIsNoKey
  <2> QED
    BY <2>1, <2>2, <2>3
<1> QED
  BY <1>1, <1>2, <1>3, <1>4, <1>5, <1>6, <1>7, <1>8 DEF Next

(* Every issued certificate verifies with the current key or a retired     *)
(* one, whenever the process dies: between the two writes of rotate_key,   *)
(* while an entry is lost, at any other moment (certs.py:95-102, 161-176). *)
(* It rests on the key coming from the store: with NEXUS_CERT_KEY set, the *)
(* fresh key of a rotation is in neither place after the next start.       *)
THEOREM CertificatesVerify ==
  ASSUME EnvKey = NoKey
  PROVE  Spec => []IssuedVerifies
<1>1. Init => KeyInv
  BY InitKeys
<1>2. KeyInv /\ [Next]_vars => KeyInv'
  BY StepKeys
<1>3. KeyInv => IssuedVerifies
  BY DEF KeyInv, KeysKept, IssuedVerifies
<1> QED
  BY <1>1, <1>2, <1>3, PTL DEF Spec

-----------------------------------------------------------------------------
(* The trail.  Its invariant has four parts: what each variable holds, the *)
(* cursor of the cached verification, the price of a failing write, and    *)
(* the mark a lost entry leaves.                                           *)
Stored == DOMAIN disk

(* What is in memory and on disk, and the counters.                        *)
EntryType == [seq : Nat, prev : Nat, id : Nat]

ChainTyped ==
  /\ entries \in Seq(EntryType)
  /\ Stored \subseteq Nat /\ IsFiniteSet(Stored)
  /\ disk \in [Stored -> EntryType]
  /\ upto \in 0..Len(entries)
  /\ {last, failures, starts} \subseteq Nat

(* The cursor: the entries behind it link up; the latch: two entries that  *)
(* do not.                                                                 *)
CursorInv ==
  up => IF ok THEN \A m \in 1..upto : entries[m].prev = HashAt(entries, m - 1)
              ELSE ~VerifyChain(entries)

(* A row with a seq at or above the length of the trail: a record that     *)
(* reaches it is refused.                                                  *)
Ahead == {q \in Stored : q >= Len(entries)}

(* A seq that was passed over: below a row, or in memory, but not stored.  *)
PassedOver(D, n) == ((UNION {0..q : q \in D}) \cup (0..(n - 1))) \ D
InMemory == IF up THEN Len(entries) ELSE 0
Gaps == PassedOver(Stored, InMemory)

LossInv ==
  /\ IsFiniteSet(Gaps) /\ Cardinality(Gaps) <= failures
  /\ IsFiniteSet(lost)
  /\ up => starts >= 1
  /\ Cardinality(lost) + (IF up THEN Cardinality(Ahead) ELSE 0)
       <= failures * starts

(* Every entry in memory is stored or lost; what followed a lost entry     *)
(* links to it, and what is stored was never lost.                         *)
MarkInv ==
  /\ lost \subseteq 1..last
  /\ \A q \in Stored : disk[q].id \in 1..last \ lost
  /\ \A n \in 1..Len(entries) :
       entries[n].id \in lost \/ \E q \in Stored : disk[q] = entries[n]
  /\ \A n \in 1..(Len(entries) - 1) :
       entries[n].id \in lost => entries[n + 1].prev = entries[n].id

ChainInv == ChainTyped /\ CursorInv /\ LossInv /\ MarkInv

(* The rank of a row: how many rows there are up to it.  Different rows    *)
(* have different ranks, and every rank up to the number of rows is one's. *)
LEMMA RankRange ==
  ASSUME NEW d, DOMAIN d \subseteq Nat, IsFiniteSet(DOMAIN d),
         NEW q \in DOMAIN d
  PROVE  /\ IsFiniteSet(UpTo(d, q))
         /\ Cardinality(UpTo(d, q)) \in 1..Cardinality(DOMAIN d)
<1>1. UpTo(d, q) \subseteq DOMAIN d /\ q \in UpTo(d, q)
  BY DEF UpTo
<1>2. /\ IsFiniteSet(UpTo(d, q))
      /\ Cardinality(UpTo(d, q)) <= Cardinality(DOMAIN d)
  BY <1>1, FS_Subset
<1>3. Cardinality(UpTo(d, q)) # 0
  BY <1>1, <1>2, FS_EmptySet
<1>4. Cardinality(UpTo(d, q)) \in Nat /\ Cardinality(DOMAIN d) \in Nat
  BY <1>2, FS_CardinalityType
<1> QED
  BY <1>2, <1>3, <1>4

LEMMA RankOrder ==
  ASSUME NEW d, DOMAIN d \subseteq Nat, IsFiniteSet(DOMAIN d),
         NEW p \in DOMAIN d, NEW q \in DOMAIN d, p < q
  PROVE  Cardinality(UpTo(d, p)) < Cardinality(UpTo(d, q))
<1>1. UpTo(d, p) \subseteq UpTo(d, q) /\ UpTo(d, p) # UpTo(d, q)
  BY DEF UpTo
<1>2. IsFiniteSet(UpTo(d, q))
  BY RankRange
<1>3. /\ Cardinality(UpTo(d, p)) <= Cardinality(UpTo(d, q))
      /\ Cardinality(UpTo(d, q)) # Cardinality(UpTo(d, p))
  BY <1>1, <1>2, FS_Subset
<1>4. Cardinality(UpTo(d, p)) \in Int /\ Cardinality(UpTo(d, q)) \in Int
  BY RankRange
<1> QED
  BY <1>3, <1>4

LEMMA RankOnto ==
  ASSUME NEW d, DOMAIN d \subseteq Nat, IsFiniteSet(DOMAIN d),
         NEW n \in 1..Cardinality(DOMAIN d)
  PROVE  \E q \in DOMAIN d : Cardinality(UpTo(d, q)) = n
<1> DEFINE D == DOMAIN d
           N == 1..Cardinality(DOMAIN d)
           rank == [q \in D |-> Cardinality(UpTo(d, q))]
<1>1. rank \in [D -> N]
  BY RankRange
<1>2. ASSUME NEW p \in D, NEW q \in D, rank[p] = rank[q]
      PROVE  p = q
  <2>1. Cardinality(UpTo(d, p)) = Cardinality(UpTo(d, q))
    BY <1>2
  <2>2. Cardinality(UpTo(d, p)) \in Int /\ Cardinality(UpTo(d, q)) \in Int
    BY RankRange
  <2>3. ~(p < q) /\ ~(q < p)
    BY <2>1, <2>2, RankOrder
  <2> QED
    BY <2>3
<1>3. rank \in Injection(D, N)
  BY <1>1, <1>2 DEF Injection, IsInjective
<1>4. Cardinality(D) \in Nat
  BY FS_CardinalityType
<1>5. IsFiniteSet(N) /\ Cardinality(N) = Cardinality(D)
  BY <1>4, FS_Interval
<1>6. rank \in Surjection(D, N)
  BY <1>3, <1>5, FS_Injection
<1>7. \A m \in N : \E q \in D : rank[q] = m
  BY <1>6 DEF Surjection
<1> QED
  BY <1>7

(* The rows loaded at a start are the rows of the disk, each at its rank.  *)
LEMMA LoadedAt ==
  ASSUME NEW d, DOMAIN d \subseteq Nat, IsFiniteSet(DOMAIN d)
  PROVE  /\ Cardinality(DOMAIN d) \in Nat
         /\ DOMAIN Loaded(d) = 1..Cardinality(DOMAIN d)
         /\ \A n \in 1..Cardinality(DOMAIN d) :
              \E q \in DOMAIN d : Loaded(d)[n] = d[q]
         /\ \A q \in DOMAIN d :
              \E n \in 1..Cardinality(DOMAIN d) : Loaded(d)[n] = d[q]
<1> DEFINE At(n) == CHOOSE q \in DOMAIN d : Cardinality(UpTo(d, q)) = n
<1>1. Cardinality(DOMAIN d) \in Nat
  BY FS_CardinalityType
<1>2. \A n \in 1..Cardinality(DOMAIN d) : Loaded(d)[n] = d[At(n)]
  BY DEF Loaded
<1>3. ASSUME NEW n \in 1..Cardinality(DOMAIN d)
      PROVE  At(n) \in DOMAIN d /\ Cardinality(UpTo(d, At(n))) = n
  BY RankOnto
<1>4. ASSUME NEW q \in DOMAIN d
      PROVE  /\ Cardinality(UpTo(d, q)) \in 1..Cardinality(DOMAIN d)
             /\ At(Cardinality(UpTo(d, q))) = q
  <2> DEFINE n == Cardinality(UpTo(d, q))
  <2>1. n \in 1..Cardinality(DOMAIN d)
    BY RankRange
  <2>2. At(n) \in DOMAIN d /\ Cardinality(UpTo(d, At(n))) = n
    BY <2>1, <1>3
  <2>3. ~(At(n) < q) /\ ~(q < At(n))
    <3> HIDE DEF At
    <3>1. n \in Int
      BY <2>1
    <3> QED
      BY <2>2, <3>1, RankOrder
  <2>4. At(n) \in Int /\ q \in Int
    BY <2>2
  <2> HIDE DEF At
  <2> QED
    BY <2>1, <2>3, <2>4
<1>5. DOMAIN Loaded(d) = 1..Cardinality(DOMAIN d)
  BY DEF Loaded
<1> HIDE DEF At
<1> QED
  BY <1>1, <1>2, <1>3, <1>4, <1>5

LEMMA LoadedTyped ==
  ASSUME NEW d, DOMAIN d \subseteq Nat, IsFiniteSet(DOMAIN d),
         d \in [DOMAIN d -> EntryType]
  PROVE  /\ Loaded(d) \in Seq(EntryType)
         /\ Len(Loaded(d)) = Cardinality(DOMAIN d)
<1>1. Cardinality(DOMAIN d) \in Nat
  BY LoadedAt
<1>2. \A n \in 1..Cardinality(DOMAIN d) : Loaded(d)[n] \in EntryType
  BY LoadedAt
<1>3. Loaded(d) \in [1..Cardinality(DOMAIN d) -> EntryType]
  BY <1>2 DEF Loaded
<1>4. Loaded(d) \in Seq(EntryType)
  BY <1>1, <1>3, SeqDef
<1>5. Len(Loaded(d)) \in Nat /\ DOMAIN Loaded(d) = 1..Len(Loaded(d))
  BY <1>4, LenProperties
<1>6. 1..Len(Loaded(d)) = 1..Cardinality(DOMAIN d)
  BY <1>3, <1>5
<1> QED
  BY <1>1, <1>4, <1>5, <1>6

-----------------------------------------------------------------------------
(* What a step does to the trail: the key's steps leave it alone.          *)
LEMMA TrailSteps ==
  ASSUME [Next]_vars
  PROVE  \/ Start \/ Crash \/ Record \/ VerifyCached
         \/ UNCHANGED <<up, starts, trail>>
BY DEF Next, vars, RecordAction, Issue, RetireKey, ReplaceKey

(* The entry a record appends.                                             *)
NewEntry == [seq |-> NextSeq, prev |-> PrevHash, id |-> last + 1]

LEMMA HashTyped ==
  ASSUME NEW s \in Seq(EntryType), NEW n \in 0..Len(s)
  PROVE  HashAt(s, n) \in Nat
<1>1. CASE n = 0
  BY <1>1 DEF HashAt, Genesis
<1>2. CASE n # 0
  <2>1. Len(s) \in Nat
    BY LenProperties
  <2>2. s[n] \in EntryType
    BY <1>2, <2>1, ElementOfSeq
  <2> QED
    BY <1>2, <2>2 DEF HashAt, EntryType
<1> QED
  BY <1>1, <1>2

LEMMA RecordDoes ==
  ASSUME ChainTyped, Record
  PROVE  /\ NewEntry \in EntryType
         /\ NewEntry.seq = Len(entries) /\ NewEntry.id = last + 1
         /\ NewEntry.prev = HashAt(entries, Len(entries))
         /\ up /\ up' = up /\ starts' = starts /\ upto' = upto /\ ok' = ok
         /\ last' = last + 1
         /\ entries' \in Seq(EntryType)
         /\ Len(entries') = Len(entries) + 1
         /\ \A n \in 1..Len(entries) : entries'[n] = entries[n]
         /\ entries'[Len(entries) + 1] = NewEntry
         /\ \/ /\ Len(entries) \notin Stored
               /\ disk' = [n \in Stored \cup {Len(entries)} |->
                             IF n = Len(entries) THEN NewEntry ELSE disk[n]]
               /\ failures' = failures /\ lost' = lost
            \/ /\ Len(entries) \in Stored
               /\ lost' = lost \cup {last + 1}
               /\ disk' = disk /\ failures' = failures
            \/ /\ failures' = failures + 1
               /\ lost' = lost \cup {last + 1}
               /\ disk' = disk
<1>1. entries \in Seq(EntryType) /\ last \in Nat /\ Len(entries) \in Nat
  BY LenProperties DEF ChainTyped
<1>2. HashAt(entries, Len(entries)) \in Nat
  BY <1>1, HashTyped
<1>3. NewEntry \in EntryType
  BY <1>1, <1>2 DEF NewEntry, NextSeq, PrevHash, EntryType
<1>4. /\ NewEntry.seq = Len(entries) /\ NewEntry.id = last + 1
      /\ NewEntry.prev = HashAt(entries, Len(entries))
  BY DEF NewEntry, NextSeq, PrevHash
<1>5. entries' = Append(entries, NewEntry)
  BY DEF Record, NewEntry
<1>6. /\ entries' \in Seq(EntryType)
      /\ Len(entries') = Len(entries) + 1
      /\ \A n \in 1..Len(entries) : entries'[n] = entries[n]
      /\ entries'[Len(entries) + 1] = NewEntry
  <2> HIDE DEF NewEntry
  <2> QED
    BY <1>1, <1>3, <1>5
<1>7. up /\ up' = up /\ starts' = starts /\ upto' = upto /\ ok' = ok
      /\ last' = last + 1
  BY DEF Record
<1>8. \/ /\ Len(entries) \notin Stored
         /\ disk' = [n \in Stored \cup {Len(entries)} |->
                       IF n = Len(entries) THEN NewEntry ELSE disk[n]]
         /\ failures' = failures /\ lost' = lost
      \/ /\ Len(entries) \in Stored
         /\ lost' = lost \cup {last + 1}
         /\ disk' = disk /\ failures' = failures
      \/ /\ failures' = failures + 1
         /\ lost' = lost \cup {last + 1}
         /\ disk' = disk
  BY <1>7 DEF Record, NewEntry, NextSeq, Stored
<1> QED
  BY <1>3, <1>4, <1>6, <1>7, <1>8

LEMMA InitChain == Init => ChainInv
<1> SUFFICES ASSUME Init PROVE ChainInv
  OBVIOUS
<1>1. Stored = {} /\ entries = <<>> /\ lost = {} /\ ~up /\ upto = 0
      /\ last = 0 /\ failures = 0 /\ starts = 0 /\ disk = [n \in {} |-> 0]
  BY DEF Init, Stored
<1>2. Len(entries) = 0 /\ entries \in Seq(EntryType)
  BY <1>1
<1>3. ChainTyped
  BY <1>1, <1>2, FS_EmptySet DEF ChainTyped
<1>4. CursorInv
  BY <1>1 DEF CursorInv
<1>5. Gaps = {}
  BY <1>1 DEF Gaps, PassedOver, InMemory
<1>6. LossInv
  BY <1>1, <1>5, FS_EmptySet DEF LossInv
<1>7. MarkInv
  BY <1>1, <1>2 DEF MarkInv
<1> QED
  BY <1>3, <1>4, <1>6, <1>7 DEF ChainInv

LEMMA StepTyped ==
  ASSUME ChainTyped, [Next]_vars
  PROVE  ChainTyped'
<1>1. CASE Start
  <2>1. Len(Loaded(disk)) \in Nat /\ Loaded(disk) \in Seq(EntryType)
    BY LoadedTyped, LenProperties DEF ChainTyped, Stored
  <2> QED
    BY <1>1, <2>1 DEF Start, ChainTyped, Stored
<1>2. CASE Crash
  BY <1>2 DEF Crash, trail, ChainTyped, Stored
<1>3. CASE Record
  <2>1. Len(entries) \in Nat
    BY LenProperties DEF ChainTyped
  <2>2. entries' \in Seq(EntryType) /\ upto' \in 0..Len(entries')
        /\ {last', failures', starts'} \subseteq Nat
    BY <1>3, <2>1, RecordDoes DEF ChainTyped
  <2>3. CASE disk' = disk
    BY <2>2, <2>3 DEF ChainTyped, Stored
  <2>4. CASE disk' = [n \in Stored \cup {Len(entries)} |->
                        IF n = Len(entries) THEN NewEntry ELSE disk[n]]
    <3>1. Stored' = Stored \cup {Len(entries)}
      BY <2>4 DEF Stored
    <3>2. IsFiniteSet(Stored') /\ Stored' \subseteq Nat
      BY <2>1, <3>1, FS_AddElement DEF ChainTyped
    <3>3. disk' \in [Stored' -> EntryType]
      BY <1>3, <2>4, <3>1, RecordDoes DEF ChainTyped
    <3> QED
      BY <2>2, <3>2, <3>3 DEF ChainTyped
  <2> QED
    BY <1>3, <2>3, <2>4, RecordDoes
<1>4. CASE VerifyCached
  <2>1. Len(entries) \in Nat
    BY LenProperties DEF ChainTyped
  <2>2. upto' = Len(entries) \/ upto' = upto
    BY <1>4 DEF VerifyCached
  <2>3. UNCHANGED <<entries, disk, last, failures, starts>>
    BY <1>4 DEF VerifyCached
  <2> QED
    BY <2>1, <2>2, <2>3 DEF ChainTyped, Stored
<1>5. CASE UNCHANGED <<up, starts, trail>>
  BY <1>5 DEF trail, ChainTyped, Stored
<1> QED
  BY <1>1, <1>2, <1>3, <1>4, <1>5, TrailSteps

LEMMA StepCursor ==
  ASSUME ChainTyped, CursorInv, [Next]_vars
  PROVE  CursorInv'
<1> USE DEF CursorInv
<1>0. Len(entries) \in Nat
  BY LenProperties DEF ChainTyped
<1>1. CASE Start
  BY <1>1 DEF Start
<1>2. CASE Crash
  BY <1>2 DEF Crash
<1>3. CASE Record
  <2>1. up /\ up' /\ upto' = upto /\ ok' = ok /\ Len(entries') = Len(entries) + 1
        /\ \A n \in 1..Len(entries) : entries'[n] = entries[n]
    BY <1>3, RecordDoes
  <2>2. \A n \in 0..Len(entries) : HashAt(entries', n) = HashAt(entries, n)
    BY <1>0, <2>1 DEF HashAt
  <2>3. CASE ok
    BY <1>0, <2>1, <2>2, <2>3 DEF ChainTyped
  <2>4. CASE ~ok
    <3>1. PICK m \in 1..Len(entries) : entries[m].prev # HashAt(entries, m - 1)
      BY <1>0, <2>1, <2>4 DEF VerifyChain, Linked
    <3>2. m \in 1..Len(entries') /\ entries'[m].prev # HashAt(entries', m - 1)
      BY <1>0, <2>1, <2>2, <3>1
    <3> QED
      BY <2>1, <2>4, <3>2 DEF VerifyChain, Linked
  <2> QED
    BY <2>3, <2>4
<1>4. CASE VerifyCached
  <2>1. up /\ ok /\ up' /\ entries' = entries
        /\ \A m \in 1..upto : entries[m].prev = HashAt(entries, m - 1)
    BY <1>4 DEF VerifyCached
  <2>2. CASE Linked(entries, upto)
    <3>1. upto' = Len(entries) /\ ok'
      BY <1>4, <2>2 DEF VerifyCached
    <3>2. \A m \in 1..Len(entries) : entries[m].prev = HashAt(entries, m - 1)
      BY <1>0, <2>1, <2>2 DEF Linked, ChainTyped
    <3> QED
      BY <2>1, <3>1, <3>2
  <2>3. CASE ~Linked(entries, upto)
    <3>1. ~ok'
      BY <1>4, <2>3 DEF VerifyCached
    <3>2. ~VerifyChain(entries)
      BY <1>0, <2>3 DEF VerifyChain, Linked, ChainTyped
    <3> QED
      BY <2>1, <3>1, <3>2
  <2> QED
    BY <2>2, <2>3
<1>5. CASE UNCHANGED <<up, starts, trail>>
  BY <1>5 DEF trail, VerifyChain, Linked, HashAt
<1> QED
  BY <1>1, <1>2, <1>3, <1>4, <1>5, TrailSteps

LEMMA CursorSound ==
  ASSUME ChainTyped, CursorInv
  PROVE  CachedAgrees
<1>1. Len(entries) \in Nat /\ upto \in 0..Len(entries)
      /\ entries \in Seq(EntryType)
  BY LenProperties DEF ChainTyped
<1> DEFINE s == SubSeq(entries, 1, upto)
<1>2. Len(s) = upto /\ \A m \in 1..upto : s[m] = entries[m]
  BY <1>1, SubSeqProperties
<1> HIDE DEF s
<1>3. \A m \in 0..upto : HashAt(s, m) = HashAt(entries, m)
  BY <1>1, <1>2 DEF HashAt
<1>4. up /\ ok => VerifyChain(s)
  BY <1>1, <1>2, <1>3 DEF CursorInv, VerifyChain, Linked
<1> USE DEF s
<1> QED
  BY <1>4 DEF CachedAgrees, CursorInv

LEMMA StepMark ==
  ASSUME ChainTyped, MarkInv, [Next]_vars
  PROVE  MarkInv'
<1> USE DEF MarkInv
<1>0. Len(entries) \in Nat /\ last \in Nat
  BY LenProperties DEF ChainTyped
<1>1. CASE Start
  <2>1. entries' = Loaded(disk) /\ UNCHANGED <<disk, last, lost>>
    BY <1>1 DEF Start
  <2>2. /\ Len(Loaded(disk)) = Cardinality(Stored)
        /\ \A n \in 1..Cardinality(Stored) :
             \E q \in Stored : Loaded(disk)[n] = disk[q]
    BY LoadedTyped, LoadedAt DEF ChainTyped, Stored
  <2>3. \A n \in 1..Len(entries') : entries'[n].id \notin lost
    BY <2>1, <2>2
  <2>4. Stored' = Stored
    BY <2>1 DEF Stored
  <2> QED
    BY <2>1, <2>2, <2>3, <2>4
<1>2. CASE Crash
  BY <1>2 DEF Crash, trail, Stored
<1>3. CASE Record
  <2> DEFINE N == Len(entries)
  <2>1. /\ NewEntry.id = last + 1 /\ NewEntry.prev = HashAt(entries, N)
        /\ Len(entries') = N + 1 /\ last' = last + 1
        /\ \A n \in 1..N : entries'[n] = entries[n]
        /\ entries'[N + 1] = NewEntry
    BY <1>3, RecordDoes
  <2>2. \A n \in 1..N : entries[n].id \in 1..last
    BY <1>0
  <2>3. ASSUME NEW n \in 1..(N + 1 - 1), entries'[n].id \in lost'
        PROVE  entries'[n + 1].prev = entries'[n].id
    <3>1. entries'[n] = entries[n] /\ entries[n].id # last + 1
      BY <1>0, <2>1, <2>2
    <3>2. entries[n].id \in lost
      BY <1>3, <2>3, <3>1, RecordDoes
    <3>3. CASE n < N
      <4>1. entries'[n + 1] = entries[n + 1] /\ n \in 1..(N - 1)
        BY <1>0, <2>1, <3>3
      <4> QED
        BY <3>1, <3>2, <4>1
    <3>4. CASE n = N
      BY <1>0, <2>1, <3>1, <3>4 DEF HashAt
    <3> QED
      BY <1>0, <3>3, <3>4
  <2>4. ASSUME disk' = disk, lost' = lost \cup {last + 1}
        PROVE  MarkInv'
    <3>1. Stored' = Stored
      BY <2>4 DEF Stored
    <3>2. lost' \subseteq 1..last'
      BY <1>0, <2>1, <2>4
    <3>3. \A q \in Stored : disk[q].id \in 1..last' \ lost'
      BY <1>0, <2>1, <2>4
    <3>4. ASSUME NEW n \in 1..(N + 1)
          PROVE  entries'[n].id \in lost' \/ \E q \in Stored : disk[q] = entries'[n]
      BY <1>0, <2>1, <2>4
    <3> QED
      BY <2>1, <2>3, <2>4, <3>1, <3>2, <3>3, <3>4
  <2>5. ASSUME N \notin Stored, lost' = lost,
               disk' = [n \in Stored \cup {N} |->
                          IF n = N THEN NewEntry ELSE disk[n]]
        PROVE  MarkInv'
    <3>1. Stored' = Stored \cup {N}
      BY <2>5 DEF Stored
    <3>2. disk'[N] = NewEntry /\ \A q \in Stored : disk'[q] = disk[q]
      BY <2>5
    <3>3. lost' \subseteq 1..last' /\ last + 1 \notin lost
      BY <1>0, <2>1, <2>5
    <3>4. \A q \in Stored' : disk'[q].id \in 1..last' \ lost'
      BY <1>0, <2>1, <2>5, <3>1, <3>2, <3>3
    <3>5. ASSUME NEW n \in 1..(N + 1)
          PROVE  entries'[n].id \in lost' \/ \E q \in Stored' : disk'[q] = entries'[n]
      <4>1. CASE n = N + 1
        BY <2>1, <3>1, <3>2, <4>1
      <4>2. CASE n # N + 1
        <5>1. n \in 1..N /\ entries'[n] = entries[n]
          BY <1>0, <2>1, <4>2
        <5> QED
          BY <2>5, <3>1, <3>2, <5>1
      <4> QED
        BY <4>1, <4>2
    <3> QED
      BY <2>1, <2>3, <3>3, <3>4, <3>5
  <2> QED
    BY <1>3, <2>4, <2>5, RecordDoes
<1>4. CASE VerifyCached
  BY <1>4 DEF VerifyCached, Stored
<1>5. CASE UNCHANGED <<up, starts, trail>>
  BY <1>5 DEF trail, Stored
<1> QED
  BY <1>1, <1>2, <1>3, <1>4, <1>5, TrailSteps

LEMMA MarkShows ==
  ASSUME ChainTyped, MarkInv
  PROVE  LossShows
<1> SUFFICES ASSUME NEW n \in 1..(Len(entries) - 1),
                    entries[n].id \in lost, entries[n + 1].id \notin lost,
                    VerifyChain(Loaded(disk))
             PROVE  FALSE
  BY DEF LossShows
<1>1. Len(entries) \in Nat
  BY LenProperties DEF ChainTyped
<1>2. entries[n + 1].prev = entries[n].id
  BY DEF MarkInv
<1>3. n + 1 \in 1..Len(entries)
  BY <1>1
<1>4. PICK q \in Stored : disk[q] = entries[n + 1]
  BY <1>3 DEF MarkInv
<1>5. PICK m \in 1..Cardinality(Stored) : Loaded(disk)[m] = disk[q]
  BY LoadedAt DEF ChainTyped, Stored
<1>6. Len(Loaded(disk)) = Cardinality(Stored) /\ Cardinality(Stored) \in Nat
  BY LoadedTyped, LoadedAt DEF ChainTyped, Stored
<1>7. Loaded(disk)[m].prev = HashAt(Loaded(disk), m - 1)
  BY <1>6 DEF VerifyChain, Linked
<1>8. HashAt(Loaded(disk), m - 1) \notin lost
  <2>1. CASE m = 1
    BY <2>1 DEF HashAt, Genesis, MarkInv, ChainTyped
  <2>2. CASE m # 1
    <3>1. m - 1 \in 1..Cardinality(Stored)
      BY <1>6, <2>2
    <3>2. PICK p \in Stored : Loaded(disk)[m - 1] = disk[p]
      BY <3>1, LoadedAt DEF ChainTyped, Stored
    <3> QED
      BY <2>2, <3>2 DEF HashAt, MarkInv
  <2> QED
    BY <2>1, <2>2
<1> QED
  BY <1>2, <1>4, <1>5, <1>7, <1>8

(* At a start the trail is as long as the disk has rows, so the rows ahead *)
(* of it are as many as the seqs below its length that were passed over.   *)
LEMMA AheadOfRows ==
  ASSUME NEW D, D \subseteq Nat, IsFiniteSet(D)
  PROVE  Cardinality({q \in D : q >= Cardinality(D)})
           = Cardinality((0..(Cardinality(D) - 1)) \ D)
<1> DEFINE c == Cardinality(D)
           low == 0..(c - 1)
<1>1. c \in Nat
  BY FS_CardinalityType
<1>2. IsFiniteSet(low) /\ Cardinality(low) = c
  <2> HIDE DEF c
  <2>1. 0 \in Int /\ c - 1 \in Int
    BY <1>1
  <2>2. IsFiniteSet(low) /\ Cardinality(low) = IF 0 > c - 1 THEN 0 ELSE c - 1 - 0 + 1
    BY <2>1, FS_Interval
  <2> QED
    BY <1>1, <2>2
<1>3. {q \in D : q >= c} = D \ low
  <2> HIDE DEF c
  <2>1. \A q \in D : q >= c <=> q \notin low
    BY <1>1
  <2> QED
    BY <2>1
<1>4. Cardinality(D \ low) = c - Cardinality(D \cap low)
  BY FS_Difference
<1>5. Cardinality(low \ D) = c - Cardinality(low \cap D)
  BY <1>2, FS_Difference
<1>6. D \cap low = low \cap D
  OBVIOUS
<1> QED
  BY <1>3, <1>4, <1>5, <1>6

LEMMA PassedOverAre ==
  ASSUME NEW D, D \subseteq Nat, NEW n \in Nat
  PROVE  \A g : g \in PassedOver(D, n) <=>
           g \in Nat \ D /\ (g < n \/ \E q \in D : g <= q)
<1> DEFINE below == UNION {0..q : q \in D}
           memory == 0..(n - 1)
<1>1. \A g : g \in below <=> g \in Nat /\ \E q \in D : g <= q
  OBVIOUS
<1>2. \A g : g \in memory <=> g \in Nat /\ g < n
  OBVIOUS
<1>3. PassedOver(D, n) = (below \cup memory) \ D
  BY Zenon DEF PassedOver
<1> HIDE DEF below, memory
<1> QED
  BY <1>1, <1>2, <1>3

(* A record that is not stored leaves at most one more gap, its own seq.   *)
LEMMA StepGaps ==
  ASSUME ChainTyped, IsFiniteSet(Gaps), Cardinality(Gaps) <= failures,
         [Next]_vars
  PROVE  IsFiniteSet(Gaps') /\ Cardinality(Gaps') <= failures'
<1>0. Len(entries) \in Nat /\ Stored \subseteq Nat /\ IsFiniteSet(Stored)
      /\ failures \in Nat /\ Cardinality(Gaps) \in Nat
  BY LenProperties, FS_CardinalityType DEF ChainTyped
<1>a. ChainTyped'
  BY StepTyped
<1>f. \A g : g \in Gaps <=>
        g \in Nat \ Stored /\ (g < InMemory \/ \E q \in Stored : g <= q)
  <2>1. InMemory \in Nat
    BY <1>0 DEF InMemory
  <2> QED
    BY <1>0, <2>1, PassedOverAre DEF Gaps
<1>g. \A g : g \in Gaps' <=>
        g \in Nat \ Stored' /\ (g < InMemory' \/ \E q \in Stored' : g <= q)
  <2>1. Len(entries') \in Nat /\ Stored' \subseteq Nat
    BY <1>a, LenProperties DEF ChainTyped
  <2>2. InMemory' \in Nat
    BY <2>1 DEF InMemory
  <2> QED
    BY <2>1, <2>2, PassedOverAre DEF Gaps
<1>b. ASSUME Gaps' \subseteq Gaps, failures' = failures
      PROVE  IsFiniteSet(Gaps') /\ Cardinality(Gaps') <= failures'
  <2>1. IsFiniteSet(Gaps') /\ Cardinality(Gaps') <= Cardinality(Gaps)
    BY <1>b, FS_Subset
  <2>2. Cardinality(Gaps') \in Nat
    BY <2>1, FS_CardinalityType
  <2> QED
    BY <1>0, <1>b, <2>1, <2>2
<1>1. CASE Start
  <2>1. entries' = Loaded(disk) /\ Stored' = Stored /\ failures' = failures
    BY <1>1 DEF Start, Stored
  <2>2. Len(entries') = Cardinality(Stored) /\ Cardinality(Stored) \in Nat
    BY <2>1, LoadedTyped, FS_CardinalityType DEF ChainTyped, Stored
  <2>3. ASSUME NEW g \in Nat, g < Cardinality(Stored)
        PROVE  \E q \in Stored : g <= q
    <3> SUFFICES ASSUME \A q \in Stored : q < g PROVE FALSE
      BY <1>0
    <3>1. Stored \subseteq 0..(g - 1)
      BY <1>0
    <3>2. IsFiniteSet(0..(g - 1)) /\ Cardinality(0..(g - 1)) = g
      BY FS_Interval
    <3>3. Cardinality(Stored) <= g
      BY <3>1, <3>2, FS_Subset
    <3> QED
      BY <2>2, <2>3, <3>3
  <2>4. InMemory' = Cardinality(Stored)
    BY <1>1, <2>2 DEF Start, InMemory
  <2>5. Gaps' \subseteq Gaps
    BY <1>g, <2>1, <2>2, <2>3, <2>4, <1>f
  <2> QED
    BY <1>b, <2>1, <2>5
<1>2. CASE Crash
  <2>1. ~up' /\ Stored' = Stored /\ failures' = failures
    BY <1>2 DEF Crash, trail, Stored
  <2>2. Gaps' \subseteq Gaps
    BY <1>g, <2>1, <1>f DEF InMemory
  <2> QED
    BY <1>b, <2>1, <2>2
<1>3. CASE Record
  <2> DEFINE N == Len(entries)
  <2>1. InMemory = N /\ InMemory' = N + 1
    BY <1>3, RecordDoes DEF InMemory
  <2>2. \A g \in Nat : g < N + 1 <=> g < N \/ g = N
    BY <1>0
  <2>3. CASE /\ disk' = [n \in Stored \cup {N} |->
                           IF n = N THEN NewEntry ELSE disk[n]]
             /\ failures' = failures
    <3>1. Stored' = Stored \cup {N}
      BY <2>3 DEF Stored
    <3>2. \A g \in Nat : g <= N <=> g < N \/ g = N
      BY <1>0
    <3>3. Gaps' \subseteq Gaps
      BY <1>g, <2>1, <2>2, <3>1, <3>2, <1>f
    <3> QED
      BY <1>b, <2>3, <3>3
  <2>4. CASE N \in Stored /\ disk' = disk /\ failures' = failures
    <3>1. Stored' = Stored
      BY <2>4 DEF Stored
    <3>2. Gaps' \subseteq Gaps
      BY <1>g, <2>1, <2>2, <2>4, <3>1, <1>f
    <3> QED
      BY <1>b, <2>4, <3>2
  <2>5. CASE disk' = disk /\ failures' = failures + 1
    <3>1. Stored' = Stored
      BY <2>5 DEF Stored
    <3>2. Gaps' \subseteq Gaps \cup {N}
      BY <1>g, <2>1, <2>2, <3>1, <1>f
    <3>3. IsFiniteSet(Gaps \cup {N})
          /\ Cardinality(Gaps \cup {N}) <= Cardinality(Gaps) + 1
      <4>1. /\ IsFiniteSet(Gaps \cup {N})
            /\ Cardinality(Gaps \cup {N})
                 = IF N \in Gaps THEN Cardinality(Gaps) ELSE Cardinality(Gaps) + 1
        BY FS_AddElement
      <4> QED
        BY <1>0, <4>1
    <3>4. /\ IsFiniteSet(Gaps')
          /\ Cardinality(Gaps') <= Cardinality(Gaps \cup {N})
      BY <3>2, <3>3, FS_Subset
    <3>5. Cardinality(Gaps') \in Nat /\ Cardinality(Gaps \cup {N}) \in Nat
      BY <3>3, <3>4, FS_CardinalityType
    <3> QED
      BY <1>0, <2>5, <3>3, <3>4, <3>5
  <2> QED
    BY <1>3, <2>3, <2>4, <2>5, RecordDoes
<1>4. CASE VerifyCached
  <2>1. Gaps' = Gaps /\ failures' = failures
    BY <1>4 DEF VerifyCached, Gaps, InMemory, Stored
  <2> QED
    BY <2>1
<1>5. CASE UNCHANGED <<up, starts, trail>>
  <2>1. Gaps' = Gaps /\ failures' = failures
    BY <1>5 DEF trail, Gaps, InMemory, Stored
  <2> QED
    BY <2>1
<1> QED
  BY <1>1, <1>2, <1>3, <1>4, <1>5, TrailSteps

LEMMA ProductGrows ==
  ASSUME NEW f \in Nat, NEW n \in Nat
  PROVE  (f + 1) * n = f * n + n /\ f * (n + 1) = f * n + f /\ f * n \in Nat
OBVIOUS

LEMMA StepLoss ==
  ASSUME ChainTyped, LossInv, [Next]_vars
  PROVE  LossInv'
<1>0. Len(entries) \in Nat /\ Stored \subseteq Nat /\ IsFiniteSet(Stored)
      /\ failures \in Nat /\ starts \in Nat /\ IsFiniteSet(lost)
      /\ Cardinality(Gaps) \in Nat /\ Cardinality(lost) \in Nat
  BY LenProperties, FS_CardinalityType DEF ChainTyped, LossInv
<1>a. IsFiniteSet(Gaps') /\ Cardinality(Gaps') <= failures'
  BY StepGaps DEF LossInv
<1>b. IsFiniteSet(Ahead) /\ Cardinality(Ahead) \in Nat
  <2>1. Ahead \subseteq Stored
    BY DEF Ahead
  <2> QED
    BY <1>0, <2>1, FS_Subset, FS_CardinalityType
<1>1. CASE Start
  <2>1. /\ entries' = Loaded(disk) /\ Stored' = Stored /\ failures' = failures
        /\ starts' = starts + 1 /\ lost' = lost /\ ~up /\ up'
    BY <1>1 DEF Start, Stored
  <2>2. Len(entries') = Cardinality(Stored) /\ Cardinality(Stored) \in Nat
    BY <2>1, LoadedTyped, FS_CardinalityType DEF ChainTyped, Stored
  <2>3. Ahead' = {q \in Stored : q >= Cardinality(Stored)}
    BY <2>1, <2>2 DEF Ahead
  <2>4. Cardinality(Ahead')
          = Cardinality((0..(Cardinality(Stored) - 1)) \ Stored)
    BY <1>0, <2>3, AheadOfRows
  <2>5. (0..(Cardinality(Stored) - 1)) \ Stored \subseteq Gaps'
    <3>1. InMemory' = Cardinality(Stored)
      BY <1>1, <2>2 DEF Start, InMemory
    <3>2. \A g : g \in Gaps' <=>
            g \in Nat \ Stored /\ (g < Cardinality(Stored) \/ \E q \in Stored : g <= q)
      BY <1>0, <2>1, <2>2, <3>1, PassedOverAre DEF Gaps
    <3>3. \A g \in 0..(Cardinality(Stored) - 1) : g \in Nat /\ g < Cardinality(Stored)
      BY <2>2
    <3> QED
      BY <3>2, <3>3
  <2>6. Cardinality(Ahead') <= Cardinality(Gaps')
    BY <1>a, <2>4, <2>5, FS_Subset
  <2>7. Cardinality(Ahead') \in Nat /\ Cardinality(Gaps') \in Nat
    <3>1. IsFiniteSet(Ahead')
      BY <1>0, <2>3, FS_Subset
    <3> QED
      BY <1>a, <3>1, FS_CardinalityType
  <2>8. Cardinality(Ahead') <= failures
    BY <1>0, <1>a, <2>1, <2>6, <2>7
  <2>9. Cardinality(lost) <= failures * starts
    <3>1. Cardinality(lost) + 0 <= failures * starts
      BY <2>1 DEF LossInv
    <3> QED
      BY <1>0, <3>1
  <2>10. Cardinality(lost) + Cardinality(Ahead') <= failures * (starts + 1)
    BY <1>0, <2>7, <2>8, <2>9, ProductGrows
  <2> QED
    BY <1>0, <1>a, <2>1, <2>10 DEF LossInv
<1>2. CASE Crash
  <2>1. up /\ ~up' /\ UNCHANGED <<failures, starts, lost>>
    BY <1>2 DEF Crash, trail
  <2>2. Cardinality(lost) + Cardinality(Ahead) <= failures * starts
    BY <2>1 DEF LossInv
  <2>3. Cardinality(lost) <= failures * starts
    BY <1>0, <1>b, <2>2, ProductGrows
  <2> QED
    BY <1>0, <1>a, <2>1, <2>3 DEF LossInv
<1>3. CASE Record
  <2> DEFINE N == Len(entries)
  <2>1. up /\ up' = up /\ Len(entries') = N + 1 /\ starts' = starts
    BY <1>3, RecordDoes
  <2>2. Cardinality(lost) + Cardinality(Ahead) <= failures * starts
        /\ starts >= 1
    BY <2>1 DEF LossInv
  <2>3. IsFiniteSet(lost \cup {last + 1})
        /\ Cardinality(lost \cup {last + 1}) <= Cardinality(lost) + 1
        /\ Cardinality(lost \cup {last + 1}) \in Nat
    <3>1. /\ IsFiniteSet(lost \cup {last + 1})
          /\ Cardinality(lost \cup {last + 1})
               = IF last + 1 \in lost THEN Cardinality(lost)
                                      ELSE Cardinality(lost) + 1
      BY <1>0, FS_AddElement
    <3> QED
      BY <1>0, <3>1
  <2>a. Ahead' = {q \in Stored' : q >= N + 1}
    BY <2>1 DEF Ahead
  <2>b. \A q \in Nat : q >= N + 1 <=> q >= N /\ q # N
    BY <1>0
  <2>4. ASSUME NEW A, A \subseteq Ahead
        PROVE  Cardinality(A) \in Nat /\ Cardinality(A) <= Cardinality(Ahead)
    BY <1>b, <2>4, FS_Subset, FS_CardinalityType
  <2>5. CASE /\ disk' = [n \in Stored \cup {N} |->
                           IF n = N THEN NewEntry ELSE disk[n]]
             /\ failures' = failures /\ lost' = lost
    <3>1. Stored' = Stored \cup {N}
      BY <2>5 DEF Stored
    <3>2. Ahead' \subseteq Ahead
      BY <1>0, <2>a, <2>b, <3>1 DEF Ahead
    <3>3. Cardinality(Ahead') \in Nat
          /\ Cardinality(Ahead') <= Cardinality(Ahead)
      BY <2>4, <3>2
    <3> QED
      BY <1>0, <1>a, <1>b, <2>1, <2>2, <2>5, <3>3, ProductGrows DEF LossInv
  <2>6. CASE N \in Stored /\ lost' = lost \cup {last + 1} /\ disk' = disk
             /\ failures' = failures
    <3>1. Stored' = Stored
      BY <2>6 DEF Stored
    <3>2. Ahead' = Ahead \ {N} /\ N \in Ahead
      <4>1. \A q : q \in Ahead' <=> q \in Ahead /\ q # N
        BY <1>0, <2>a, <2>b, <3>1 DEF Ahead
      <4>2. N \in Ahead
        BY <1>0, <2>6 DEF Ahead
      <4> QED
        BY <4>1, <4>2
    <3>3. Cardinality(Ahead') = Cardinality(Ahead) - 1
      BY <1>b, <3>2, FS_RemoveElement
    <3>4. Cardinality(lost') + Cardinality(Ahead') <= failures * starts
      BY <1>0, <1>b, <2>2, <2>3, <2>6, <3>3, ProductGrows
    <3> QED
      BY <1>a, <2>1, <2>2, <2>3, <2>6, <3>4 DEF LossInv
  <2>7. CASE failures' = failures + 1 /\ lost' = lost \cup {last + 1}
             /\ disk' = disk
    <3>1. Stored' = Stored
      BY <2>7 DEF Stored
    <3>2. Ahead' \subseteq Ahead
      BY <1>0, <2>a, <2>b, <3>1 DEF Ahead
    <3>3. Cardinality(Ahead') \in Nat
          /\ Cardinality(Ahead') <= Cardinality(Ahead)
      BY <2>4, <3>2
    <3>4. (failures + 1) * starts = failures * starts + starts
          /\ failures * starts \in Nat
      BY <1>0, ProductGrows
    <3>5. Cardinality(lost') + Cardinality(Ahead') <= (failures + 1) * starts
      BY <1>0, <1>b, <2>2, <2>3, <2>7, <3>3, <3>4
    <3> QED
      BY <1>a, <2>1, <2>2, <2>3, <2>7, <3>5 DEF LossInv
  <2> QED
    BY <1>3, <2>5, <2>6, <2>7, RecordDoes
<1>4. CASE VerifyCached
  <2>1. UNCHANGED <<up, starts, entries, disk, failures, lost>>
    BY <1>4 DEF VerifyCached
  <2> QED
    BY <1>a, <2>1 DEF LossInv, Ahead, Stored
<1>5. CASE UNCHANGED <<up, starts, trail>>
  BY <1>a, <1>5 DEF trail, LossInv, Ahead, Stored
<1> QED
  BY <1>1, <1>2, <1>3, <1>4, <1>5, TrailSteps

LEMMA LossBound ==
  ASSUME ChainTyped, LossInv
  PROVE  LossesBounded
<1>1. Cardinality(lost) \in Nat /\ failures \in Nat /\ starts \in Nat
  BY FS_CardinalityType DEF ChainTyped, LossInv
<1>2. Ahead \subseteq Stored
  BY DEF Ahead
<1>3. Cardinality(Ahead) \in Nat
  BY <1>2, FS_Subset, FS_CardinalityType DEF ChainTyped
<1> QED
  BY <1>1, <1>3, ProductGrows DEF LossInv, LossesBounded

LEMMA StepChain ==
  ASSUME ChainInv, [Next]_vars
  PROVE  ChainInv'
BY StepTyped, StepCursor, StepLoss, StepMark DEF ChainInv

LEMMA ChainAlways == Spec => []ChainInv
<1>1. Init => ChainInv
  BY InitChain
<1>2. ChainInv /\ [Next]_vars => ChainInv'
  BY StepChain
<1> QED
  BY <1>1, <1>2, PTL DEF Spec

(* What a failing write costs, for any number of entries, failures and     *)
(* starts: itself and, after each later start, one entry whose seq runs    *)
(* into a row that exists (audit.py:65-69, store.py:124-131).              *)
THEOREM TrailLossesBounded == Spec => []LossesBounded
<1>1. ChainInv => LossesBounded
  BY LossBound DEF ChainInv
<1> QED
  BY <1>1, ChainAlways, PTL

(* A lost entry that a stored one follows always shows in the full         *)
(* verification of what is on disk (audit.py:62-69, 97-111).               *)
THEOREM TrailLossShows == Spec => []LossShows
<1>1. ChainInv => LossShows
  BY MarkShows DEF ChainInv
<1> QED
  BY <1>1, ChainAlways, PTL

(* The verification that remembers how far it got says what the full one   *)
(* says, however failures, crashes and restarts interleave with it         *)
(* (audit.py:113-140).                                                     *)
THEOREM CachedVerificationAgrees == Spec => []CachedAgrees
<1>1. ChainInv => CachedAgrees
  BY CursorSound DEF ChainInv
<1> QED
  BY <1>1, ChainAlways, PTL
=============================================================================
