------------------------------ MODULE FeedCache ------------------------------
(***************************************************************************)
(* One cached upstream feed and the threads that ask it: _Cached.get of    *)
(* platform/nexus/livedata.py.  A call looks at the cache under its lock,  *)
(* lets go of it, and tries to become the one refresher; whoever does not  *)
(* gets the value as it stands, stale or absent.                           *)
(*                                                                         *)
(* Times are counted back from now: 0 is now, -1 a unit ago.  A time older *)
(* than every bound it is compared with grows no older (Aged), so that the *)
(* clock need not be bounded.                                              *)
(***************************************************************************)
EXTENDS Integers, FiniteSets

CONSTANTS
  Caller,      \* threads that ask the feed
  Ttl,         \* ttl_s
  Backoff,     \* error_backoff_s
  NoValue      \* nothing was ever fetched

ASSUME CacheAssumption == IsFiniteSet(Caller) /\ Ttl \in Nat /\ Backoff \in Nat

VARIABLES
  cache,       \* [value, at, attempt, error]
  refresher,   \* who holds _refresh_lock: a set of at most one caller
  call,        \* per caller: "idle", "missed", "fetching" or "answered"
  answer,      \* per caller: the value its last call returned
  hasty        \* fetches begun one after the other in the backoff of a failure

feed == <<cache, refresher, call, answer, hasty>>

(* A unit later; times beyond the bound stay just beyond it. *)
Aged(at, bound) == IF at < 0 - bound THEN at ELSE at - 1

CacheInit ==
  /\ cache = [value |-> NoValue, at |-> 0 - Ttl, attempt |-> 0 - Backoff, error |-> FALSE]
  /\ refresher = {}
  /\ call = [c \in Caller |-> "idle"]
  /\ answer = [c \in Caller |-> NoValue]
  /\ hasty = 0

CacheFresh == cache.value # NoValue /\ 0 - cache.at < Ttl

BadBackedOff == FALSE

BackedOff == cache.error /\ 0 - cache.attempt < Backoff

Answer(c, v) ==
  /\ call' = [call EXCEPT ![c] = "answered"]
  /\ answer' = [answer EXCEPT ![c] = v]

(* The look under the lock. *)
Ask(c) ==
  /\ call[c] = "idle"
  /\ IF CacheFresh \/ BackedOff
     THEN Answer(c, cache.value)
     ELSE call' = [call EXCEPT ![c] = "missed"] /\ UNCHANGED answer
  /\ UNCHANGED <<cache, refresher, hasty>>

(* A failure the feed is still to be left alone for. *)
Cooling == cache.error /\ 0 - cache.attempt < Backoff

(* The caller becomes the refresher and stamps its attempt; the check it   *)
(* made before is not repeated.                                            *)
Refresh(c) ==
  /\ call[c] = "missed" /\ refresher = {}
  /\ refresher' = {c}
  /\ hasty' = IF Cooling THEN hasty + 1 ELSE 0
  /\ cache' = [cache EXCEPT !.attempt = 0]
  /\ call' = [call EXCEPT ![c] = "fetching"]
  /\ UNCHANGED answer

(* Someone else is refreshing: the value as it stands. *)
StandsAside(c) ==
  /\ call[c] = "missed" /\ refresher # {}
  /\ Answer(c, cache.value)
  /\ UNCHANGED <<cache, refresher, hasty>>

Fetched(c, v) ==
  /\ call[c] = "fetching"
  /\ cache' = [cache EXCEPT !.value = v, !.at = 0, !.error = FALSE]
  /\ refresher' = {}
  /\ hasty' = 0
  /\ Answer(c, v)

(* The fetch raises, at the latest when its socket times out. *)
FetchFails(c) ==
  /\ call[c] = "fetching"
  /\ cache' = [cache EXCEPT !.error = TRUE]
  /\ refresher' = {}
  /\ Answer(c, cache.value)
  /\ UNCHANGED hasty

(* The caller takes its answer along. *)
Return(c) ==
  /\ call[c] = "answered"
  /\ call' = [call EXCEPT ![c] = "idle"]
  /\ answer' = [answer EXCEPT ![c] = NoValue]
  /\ UNCHANGED <<cache, refresher, hasty>>

(* A unit of time passes; value and answers are what it makes of the       *)
(* values of the feed.                                                     *)
CacheAges(value, answers) ==
  /\ cache' = [cache EXCEPT !.value = value, !.at = Aged(@, Ttl - 1),
                            !.attempt = Aged(@, Backoff - 1)]
  /\ answer' = answers
  /\ UNCHANGED <<refresher, call, hasty>>

-----------------------------------------------------------------------------
(* "after a fetch error, further refetch attempts are suppressed"          *)
(* (livedata.py:276-277), except those of callers that had looked before   *)
(* it: at most every other caller once.                                    *)
SuppressedAfterError == hasty <= Cardinality(Caller) - 1
=============================================================================
