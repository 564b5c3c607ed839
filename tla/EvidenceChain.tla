--------------------------- MODULE EvidenceChain ----------------------------
(***************************************************************************)
(* The evidence a decision leaves: the hash-chained audit trail            *)
(* (platform/nexus/audit.py) with its rows in the store, and the signed    *)
(* certificates recorded in it (platform/nexus/certs.py) with the keys     *)
(* that verify them, through failing writes, crashes, restarts and key     *)
(* rotation.                                                               *)
(*                                                                         *)
(* An entry's hash is the entry's number, last + 1 when it is recorded: a  *)
(* hash is unique to its entry, and nothing here alters one.  A failing    *)
(* store write raises after the entry is in memory; the caller's own       *)
(* reaction to that is not modelled.                                       *)
(***************************************************************************)
EXTENDS Integers, FiniteSets, Sequences

CONSTANTS
  NoKey,        \* no key: NEXUS_CERT_KEY unset, nothing under the kv row
  EnvKey,       \* the key of NEXUS_CERT_KEY, or NoKey
  MaxEntries,   \* bound on the entries ever recorded
  MaxFailures,  \* bound on the failing store writes
  MaxStarts,    \* bound on the starts of the process
  MaxKeys       \* bound on the keys ever generated

ASSUME ChainBoundsAreNatural ==
  {MaxEntries, MaxFailures, MaxStarts, MaxKeys} \subseteq Nat
ASSUME NoKeyIsNoKey == NoKey \notin Nat

VARIABLES
  up,         \* the process runs
  entries,    \* AuditTrail._entries, each [seq, prev, id]
  disk,       \* the rows of audit_entries, by seq
  upto,       \* _verified_upto
  ok,         \* _chain_ok
  key,        \* CertificateEngine._key
  rotating,   \* rotate_key holds the lock between its two writes
  kvKey,      \* the kv row cert_signing_key
  kvRetired,  \* the kv row cert_signing_key_retired
  last,       \* entries ever recorded
  failures,   \* store writes that failed
  starts,     \* starts of the process
  keys,       \* keys generated
  lost,       \* entries that were never stored
  certs       \* issued certificates, each the key that signed it

trail == <<entries, disk, upto, ok, last, failures, lost>>
signing == <<key, rotating, kvKey, kvRetired, keys, certs>>
vars == <<up, starts, trail, signing>>

Genesis == 0

HashAt(s, n) == IF n = 0 THEN Genesis ELSE s[n].id

(* The entries after the first n link up, each to the one before it.       *)
BadLinked(s, n) == \A m \in (n + 1)..Len(s) : s[m].prev = HashAt(s, m - n - 1)
Linked(s, n) == \A m \in (n + 1)..Len(s) : s[m].prev = HashAt(s, m - 1)

VerifyChain(s) == Linked(s, 0)

(* ORDER BY seq: the n-th row is the one with n rows up to it.             *)
UpTo(d, q) == {p \in DOMAIN d : p <= q}
Loaded(d) == [n \in 1..Cardinality(DOMAIN d) |->
                d[CHOOSE q \in DOMAIN d : Cardinality(UpTo(d, q)) = n]]

Init ==
  /\ up = FALSE
  /\ entries = <<>> /\ disk = [n \in {} |-> 0]
  /\ upto = 0 /\ ok = TRUE
  /\ key = NoKey /\ rotating = FALSE
  /\ kvKey = NoKey /\ kvRetired = {}
  /\ last = 0 /\ failures = 0 /\ starts = 0 /\ keys = 0
  /\ lost = {} /\ certs = {}

-----------------------------------------------------------------------------
(* The key a start signs with, given the kv row.                           *)
StartKey == IF EnvKey # NoKey THEN EnvKey
            ELSE IF kvKey # NoKey THEN kvKey ELSE keys + 1

Start ==
  /\ ~up /\ starts < MaxStarts
  /\ up' = TRUE /\ starts' = starts + 1
  /\ entries' = Loaded(disk)
  /\ upto' = 0 /\ ok' = TRUE
  /\ key' = StartKey
  /\ IF EnvKey = NoKey /\ kvKey = NoKey
       THEN keys < MaxKeys /\ keys' = keys + 1 /\ kvKey' = StartKey
       ELSE UNCHANGED <<keys, kvKey>>
  /\ UNCHANGED <<disk, last, failures, lost, rotating, kvRetired, certs>>

Crash ==
  /\ up
  /\ up' = FALSE /\ rotating' = FALSE
  /\ UNCHANGED <<starts, trail, key, kvKey, kvRetired, keys, certs>>

(* The seq of the next entry, the primary key of its row.                  *)
BadNextSeq == IF entries = <<>> THEN 0 ELSE Len(entries) - 1
NextSeq == Len(entries)

(* What record links to: the last entry in memory, stored or not.          *)
BadPrevHash == HashAt(Loaded(disk), Cardinality(DOMAIN disk))
PrevHash == HashAt(entries, Len(entries))

(* record: memory first, then the store, which refuses a row whose seq it  *)
(* has, and may fail.                                                      *)
Record ==
  /\ up /\ last < MaxEntries
  /\ last' = last + 1
  /\ LET e == [seq |-> NextSeq, prev |-> PrevHash, id |-> last']
     IN  /\ entries' = Append(entries, e)
         /\ \/ /\ e.seq \notin DOMAIN disk
               /\ disk' = [n \in DOMAIN disk \cup {e.seq} |->
                             IF n = e.seq THEN e ELSE disk[n]]
               /\ UNCHANGED <<failures, lost>>
            \/ /\ e.seq \in DOMAIN disk
               /\ lost' = lost \cup {e.id}
               /\ UNCHANGED <<disk, failures>>
            \/ /\ failures < MaxFailures /\ failures' = failures + 1
               /\ lost' = lost \cup {e.id}
               /\ UNCHANGED disk
  /\ UNCHANGED <<up, starts, upto, ok>>

RecordAction ==
  /\ Record
  /\ UNCHANGED signing

(* issue: sign with the key in force and record the certificate; recommend *)
(* swallows a failing record, so the certificate counts as issued when its *)
(* entry is in memory.  The key is read under the lock rotate_key holds; a *)
(* rotation after that has retired the key before it is out of use.        *)
Issue ==
  /\ ~rotating
  /\ Record
  /\ certs' = certs \cup {key}
  /\ UNCHANGED <<key, rotating, kvKey, kvRetired, keys>>

(* verify_chain_cached: the new entries only, and never again after a      *)
(* break.                                                                  *)
VerifyCached ==
  /\ up /\ ok
  /\ IF Linked(entries, upto) THEN upto' = Len(entries) /\ UNCHANGED ok
                              ELSE ok' = FALSE /\ UNCHANGED upto
  /\ UNCHANGED <<up, starts, entries, disk, last, failures, lost, signing>>

(* rotate_key: the old key goes to the retired row, then a fresh one to    *)
(* the current row and into memory.                                        *)
BadRetired == kvRetired
Retired == kvRetired \cup {key}

RetireKey ==
  /\ up /\ ~rotating /\ keys < MaxKeys
  /\ rotating' = TRUE
  /\ kvRetired' = Retired
  /\ UNCHANGED <<up, starts, trail, key, kvKey, keys, certs>>

ReplaceKey ==
  /\ up /\ rotating
  /\ rotating' = FALSE
  /\ keys' = keys + 1
  /\ kvKey' = keys' /\ key' = keys'
  /\ UNCHANGED <<up, starts, trail, kvRetired, certs>>

Next == Start \/ Crash \/ RecordAction \/ Issue \/ VerifyCached
          \/ RetireKey \/ ReplaceKey

Spec == Init /\ [][Next]_vars

-----------------------------------------------------------------------------
(* Write-through: as long as no store write fails, the trail in memory is  *)
(* the trail on disk, it verifies, and no row is ever refused, over any    *)
(* number of crashes (audit.py:15-17).                                     *)
NothingForgotten ==
  failures = 0 =>
    /\ lost = {}
    /\ up => entries = Loaded(disk)
    /\ VerifyChain(Loaded(disk))

(* The cursor of the cached verification is sound, and its latch never     *)
(* raises a false alarm: after any failures and restarts it says what the  *)
(* full verification of the same entries says (audit.py:113-140).          *)
CachedAgrees ==
  /\ up /\ ok => VerifyChain(SubSeq(entries, 1, upto))
  /\ up /\ ~ok => ~VerifyChain(entries)

(* What one failing write costs: itself, and the seq it left free costs    *)
(* one more entry after each later start, because seq counts the entries   *)
(* loaded and runs into a row that exists (audit.py:69, store.py:124).     *)
LossesBounded == Cardinality(lost) <= failures * starts

(* A lost entry followed by a stored one leaves a mark: the stored trail   *)
(* does not verify, because the later entry links to the lost one          *)
(* (audit.py:66-67).  Only a loss at the very end is silent.               *)
LossShows ==
  \A n \in 1..(Len(entries) - 1) :
    entries[n].id \in lost /\ entries[n + 1].id \notin lost
      => ~VerifyChain(Loaded(disk))

(* Rotation never invalidates issued certificates (certs.py:16-17), also   *)
(* when the process dies between its two writes.                           *)
IssuedVerifies == up => certs \subseteq kvRetired \cup {key}
=============================================================================
