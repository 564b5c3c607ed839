------------------------------ MODULE FeedProofs -----------------------------
(***************************************************************************)
(* What holds of the platform's cycle for any number of threads that run   *)
(* it, any feeds, any answers and any times.                               *)
(*                                                                         *)
(* A failing feed is left alone: while a failure is cooling no caller      *)
(* newly misses the cache, so the hasty fetches made and those of callers  *)
(* that missed it before are together fewer than the callers - the failure *)
(* itself used one up (FeedInv).                                           *)
(*                                                                         *)
(* A minority source moves no estimate, and what is protected rests on     *)
(* samples: an estimate made now is what the samples say, even if another  *)
(* thread has sensed since, as samples are only added and a source weighs  *)
(* what its kind does; one still in force rests on a sample at most a      *)
(* window older than it, by their stamps (SensingInv).  For the median,    *)
(* the sources that say less than all the others and those that say more   *)
(* are counted; that a finite set of integers has a greatest element comes *)
(* from the element that the fewest exceed.                                *)
(***************************************************************************)
EXTENDS LiveSensing, FiniteSetTheorems, WellFoundedInduction, TLAPS

Missed == {c \in Caller : call[c] = "missed"}

CacheTyped ==
  /\ hasty \in Nat /\ DOMAIN call = Caller
  /\ cache.error \in BOOLEAN /\ cache.attempt \in Int
  /\ cache = [value |-> cache.value, at |-> cache.at,
              attempt |-> cache.attempt, error |-> cache.error]

HasteCounted ==
  /\ ~cache.error => hasty = 0
  /\ Cooling => hasty + Cardinality(Missed) <= Cardinality(Caller) - 1

FeedInv == CacheTyped /\ HasteCounted /\ SuppressedAfterError

-----------------------------------------------------------------------------
LEMMA CallersCounted ==
  /\ Cardinality(Caller) \in Nat \ {0}
  /\ IsFiniteSet(Missed) /\ Cardinality(Missed) \in Nat
<1>1. Cardinality(Caller) \in Nat /\ Cardinality(Caller) # 0
  BY CacheAssumption, TickAssumption, FS_CardinalityType, FS_EmptySet
<1>2. Missed \in SUBSET Caller
  BY DEF Missed
<1> QED BY <1>1, <1>2, CacheAssumption, FS_Subset, FS_CardinalityType

(* Somebody who is past the look did not miss the cache, or misses it no   *)
(* longer.                                                                 *)
LEMMA OneNotMissed ==
  ASSUME NEW c \in Caller, NEW missed \in SUBSET (Caller \ {c})
  PROVE  /\ IsFiniteSet(missed) /\ Cardinality(missed) \in Nat
         /\ Cardinality(missed) <= Cardinality(Caller) - 1
<1>1. IsFiniteSet(Caller \ {c}) /\ Cardinality(Caller \ {c}) = Cardinality(Caller) - 1
  BY CacheAssumption, FS_RemoveElement
<1> QED BY <1>1, FS_Subset, FS_CardinalityType

LEMMA FeedStarts == CacheInit => FeedInv
<1> SUFFICES ASSUME CacheInit
             PROVE  FeedInv
  OBVIOUS
<1>1. CacheTyped
  BY CacheAssumption DEF CacheInit, CacheTyped
<1>2. cache.error = FALSE /\ hasty = 0
  BY DEF CacheInit
<1> QED
  BY <1>1, <1>2, CallersCounted
     DEF FeedInv, HasteCounted, Cooling, SuppressedAfterError

LEMMA AskKeepsFeed ==
  ASSUME FeedInv, NEW c \in Caller, Ask(c)
  PROVE  FeedInv'
<1>1. UNCHANGED <<cache, hasty>> /\ DOMAIN call' = Caller
  BY DEF Ask, Answer, FeedInv, CacheTyped
<1>2. CacheTyped' /\ SuppressedAfterError'
  BY <1>1 DEF FeedInv, CacheTyped, SuppressedAfterError
<1>3. CASE CacheFresh \/ BackedOff
  <2>1. Missed' \subseteq Missed
    BY <1>3 DEF Ask, Answer, Missed, FeedInv, CacheTyped
  <2>2. Cardinality(Missed') <= Cardinality(Missed) /\ Cardinality(Missed') \in Nat
    BY <2>1, CallersCounted, FS_Subset, FS_CardinalityType
  <2> QED
    BY <1>1, <1>2, <2>2, CallersCounted
       DEF FeedInv, HasteCounted, Cooling, CacheTyped
<1>4. CASE ~(CacheFresh \/ BackedOff)
  BY <1>1, <1>2, <1>4 DEF FeedInv, HasteCounted, Cooling, BackedOff
<1> QED BY <1>3, <1>4

LEMMA RefreshKeepsFeed ==
  ASSUME FeedInv, NEW c \in Caller, Refresh(c)
  PROVE  FeedInv'
<1>1. /\ Missed' = Missed \ {c} /\ c \in Missed
      /\ cache'.error = cache.error
      /\ CacheTyped'
  BY DEF Refresh, Missed, FeedInv, CacheTyped
<1>2. /\ Cardinality(Missed') = Cardinality(Missed) - 1
      /\ Cardinality(Missed') \in Nat
  BY <1>1, CallersCounted, FS_RemoveElement, FS_CardinalityType
<1>3. Missed \in SUBSET Caller /\ Cardinality(Missed) <= Cardinality(Caller)
  BY CacheAssumption, FS_Subset DEF Missed
<1>4. CASE Cooling
  <2>1. hasty' = hasty + 1 /\ cache'.error /\ hasty \in Nat
    BY <1>1, <1>4 DEF Refresh, Cooling, FeedInv, CacheTyped
  <2>2. hasty' + Cardinality(Missed') <= Cardinality(Caller) - 1
    BY <1>2, <1>4, <2>1, CallersCounted DEF FeedInv, HasteCounted
  <2>3. hasty' <= Cardinality(Caller) - 1
    BY <1>2, <2>1, <2>2, CallersCounted
  <2> QED
    BY <1>1, <2>1, <2>2, <2>3 DEF FeedInv, HasteCounted, SuppressedAfterError
<1>5. CASE ~Cooling
  <2>1. hasty' = 0
    BY <1>5 DEF Refresh
  <2> QED
    BY <1>1, <1>2, <1>3, <2>1, CallersCounted
       DEF FeedInv, HasteCounted, SuppressedAfterError
<1> QED BY <1>4, <1>5

LEMMA FetchedKeepsFeed ==
  ASSUME FeedInv, NEW c \in Caller, NEW v, Fetched(c, v)
  PROVE  FeedInv'
<1>1. CacheTyped' /\ ~cache'.error /\ hasty' = 0
  BY DEF Fetched, Answer, FeedInv, CacheTyped
<1> QED
  BY <1>1, CallersCounted
     DEF FeedInv, HasteCounted, Cooling, SuppressedAfterError

LEMMA FailureKeepsFeed ==
  ASSUME FeedInv, NEW c \in Caller, FetchFails(c)
  PROVE  FeedInv'
<1>1. /\ CacheTyped' /\ cache'.error /\ hasty' = hasty
      /\ cache'.attempt = cache.attempt
      /\ Missed' = Missed /\ Missed \in SUBSET (Caller \ {c})
  BY DEF FetchFails, Answer, Missed, FeedInv, CacheTyped
<1>2. Cardinality(Missed) <= Cardinality(Caller) - 1
  BY <1>1, OneNotMissed
<1>3. SuppressedAfterError'
  BY <1>1 DEF FeedInv, SuppressedAfterError
<1>4. CASE cache.error
  BY <1>1, <1>3, <1>4 DEF FeedInv, HasteCounted, Cooling
<1>5. CASE ~cache.error
  BY <1>1, <1>2, <1>3, <1>5, CallersCounted DEF FeedInv, HasteCounted
<1> QED BY <1>1, <1>4, <1>5 DEF FeedInv, CacheTyped

(* Neither a returning caller nor one that stands aside, nor time, adds to *)
(* the fetches to come.                                                    *)
LEMMA OthersKeepFeed ==
  ASSUME FeedInv,
         \/ \E c \in Caller : StandsAside(c) \/ Return(c)
         \/ \E value, answers : CacheAges(value, answers)
  PROVE  FeedInv'
<1>1. Missed' \subseteq Missed
  BY DEF StandsAside, Return, Answer, CacheAges, Missed, FeedInv, CacheTyped
<1>2. Cardinality(Missed') <= Cardinality(Missed) /\ Cardinality(Missed') \in Nat
  BY <1>1, CallersCounted, FS_Subset, FS_CardinalityType
<1>3. /\ CacheTyped' /\ hasty' = hasty /\ cache'.error = cache.error
      /\ cache'.attempt <= cache.attempt
  <2>1. CASE \E c \in Caller : StandsAside(c) \/ Return(c)
    BY <2>1 DEF StandsAside, Return, Answer, FeedInv, CacheTyped
  <2>2. ASSUME NEW value, NEW answers, CacheAges(value, answers)
        PROVE  /\ CacheTyped' /\ hasty' = hasty /\ cache'.error = cache.error
               /\ cache'.attempt <= cache.attempt
    <3>1. Aged(cache.attempt, Backoff - 1) \in {cache.attempt, cache.attempt - 1}
      BY DEF Aged
    <3>2. cache' = [value |-> value, at |-> Aged(cache.at, Ttl - 1),
                    attempt |-> Aged(cache.attempt, Backoff - 1),
                    error |-> cache.error]
      BY <2>2 DEF CacheAges, FeedInv, CacheTyped
    <3>3. call' = call /\ hasty' = hasty
      BY <2>2 DEF CacheAges
    <3> QED
      BY <3>1, <3>2, <3>3 DEF FeedInv, CacheTyped
  <2> QED BY <2>1, <2>2
<1>4. Cooling' => Cooling
  BY <1>3, CacheAssumption DEF Cooling, FeedInv, CacheTyped
<1> QED
  BY <1>2, <1>3, <1>4, CallersCounted
     DEF FeedInv, HasteCounted, SuppressedAfterError, CacheTyped

LEMMA FeedSteps == FeedInv /\ [Next]_vars => FeedInv'
<1> SUFFICES ASSUME FeedInv, [Next]_vars
             PROVE  FeedInv'
  OBVIOUS
<1>1. CASE UNCHANGED feed
  BY <1>1 DEF feed, FeedInv, CacheTyped, HasteCounted, Cooling, Missed,
              SuppressedAfterError
<1>2. ASSUME NEW t \in Caller, Capture(t) \/ Step(t)
      PROVE  FeedInv'
  <2>1. CASE Poll(t)
    BY <2>1, AskKeepsFeed, RefreshKeepsFeed, FailureKeepsFeed, OthersKeepFeed
       DEF Poll, PollFails, Polled
  <2>2. CASE Reports(t)
    BY <2>2, FetchedKeepsFeed DEF Reports
  <2>3. CASE Capture(t) \/ Prune(t) \/ Sense(t) \/ Publish(t) \/ Settle(t)
    BY <1>1, <2>3 DEF Capture, Prune, Sense, Publish, Settle
  <2> QED BY <1>2, <2>1, <2>2, <2>3 DEF Step
<1>3. CASE Pass
  BY <1>3, OthersKeepFeed DEF Pass
<1> QED BY <1>1, <1>2, <1>3 DEF Next, vars

(* After a failed fetch at most every other caller fetches once more in    *)
(* the backoff (livedata.py:312-331), whatever the feed answers, however   *)
(* long it takes, and however many threads ask.                            *)
THEOREM FailingFeedLeftAlone == Spec => []SuppressedAfterError
<1>1. Init => FeedInv
  BY FeedStarts DEF Init
<1>2. FeedInv => SuppressedAfterError
  BY DEF FeedInv
<1> QED BY <1>1, <1>2, FeedSteps, PTL DEF Spec
-----------------------------------------------------------------------------
(* The greatest and the least of finitely many integers: the one that the  *)
(* fewest exceed.                                                          *)
LEMMA GreatestOf ==
  ASSUME NEW S \in SUBSET Int, IsFiniteSet(S), S # {}
  PROVE  Max(S) \in S /\ \A y \in S : y <= Max(S)
<1> DEFINE above(x) == {y \in S : y > x}
           counts == {Cardinality(above(x)) : x \in S}
<1>1. \A x \in S : IsFiniteSet(above(x)) /\ Cardinality(above(x)) \in Nat
  BY FS_Subset, FS_CardinalityType
<1>2. counts \in SUBSET Nat /\ counts # {}
  BY <1>1
<1>3. PICK n \in counts : \A m \in counts : <<m, n>> \notin OpToRel(<, Nat)
  BY <1>2, NatLessThanWellFounded, WFMin
<1>4. \A m \in counts : n <= m
  <2> HIDE DEF counts
  <2> TAKE m \in counts
  <2>1. ~ m < n /\ m \in Nat /\ n \in Nat
    BY <1>2, <1>3 DEF OpToRel
  <2> QED BY <2>1
<1>5. PICK x \in S : n = Cardinality(above(x))
  BY <1>3
<1>6. \A y \in S : y <= x
  <2> SUFFICES ASSUME NEW y \in S, y > x
               PROVE  FALSE
    OBVIOUS
  <2>1. above(y) \in SUBSET above(x) /\ above(x) # above(y)
    <3>1. y \in above(x) /\ y \notin above(y)
      OBVIOUS
    <3>2. \A z \in S : z > y => z > x
      OBVIOUS
    <3> QED BY <3>1, <3>2
  <2> DEFINE a == above(x)
             b == above(y)
  <2>2. IsFiniteSet(a) /\ Cardinality(a) \in Nat /\ Cardinality(b) \in Nat
    BY <1>1
  <2>3. b \in SUBSET a /\ a # b
    BY <2>1
  <2>4. n <= Cardinality(b) /\ n = Cardinality(a)
    BY <1>4, <1>5
  <2> HIDE DEF a, b
  <2>5. Cardinality(b) <= Cardinality(a) /\ (Cardinality(a) = Cardinality(b) => a = b)
    BY <2>2, <2>3, FS_Subset
  <2> QED BY <2>2, <2>3, <2>4, <2>5
<1>7. \E z \in S : \A y \in S : z >= y
  BY <1>6
<1>8. Max(S) \in S /\ \A y \in S : Max(S) >= y
  BY <1>7 DEF Max
<1> QED BY <1>8

LEMMA LeastOf ==
  ASSUME NEW S \in SUBSET Int, IsFiniteSet(S), S # {}
  PROVE  Min(S) \in S /\ \A y \in S : Min(S) <= y
<1> DEFINE f == [x \in S |-> 0 - x]
           T == {f[x] : x \in S}
<1>1. \A x \in S : f[x] \in Int
  OBVIOUS
<1>2. f \in Surjection(S, T)
  BY DEF Surjection
<1>3. T \in SUBSET Int /\ T # {}
  BY <1>1
<1>4. IsFiniteSet(T)
  <2> HIDE DEF f, T
  <2> QED BY <1>2, FS_Surjection
<1>5. Max(T) \in T /\ \A y \in T : y <= Max(T)
  <2> HIDE DEF T
  <2> QED BY <1>3, <1>4, GreatestOf
<1>6. PICK x \in S : Max(T) = 0 - x
  BY <1>5
<1>7. \A y \in S : x <= y
  <2> TAKE y \in S
  <2>1. 0 - y \in T
    OBVIOUS
  <2>2. 0 - y <= 0 - x
    BY <1>5, <1>6, <2>1
  <2> QED BY <2>2
<1>8. \E z \in S : \A y \in S : z =< y
  BY <1>7
<1> QED BY <1>8 DEF Min

-----------------------------------------------------------------------------
(* Samples: a finite number, with ratios, times and weights that a single  *)
(* reading may have.                                                       *)
AreSamples(sources) ==
  /\ IsFiniteSet(DOMAIN sources)
  /\ \A s \in DOMAIN sources : /\ sources[s].ratio \in Int
                               /\ sources[s].weight \in 1..3

LEMMA ExpandedIsFinite ==
  ASSUME NEW sources, AreSamples(sources)
  PROVE  IsFiniteSet(Expanded(sources)) /\ Weight(sources) \in Nat
<1>1. IsFiniteSet(1..3)
  <2>1. 1 \in Int /\ 3 \in Int
    OBVIOUS
  <2> QED BY <2>1, FS_Interval
<1>2. IsFiniteSet((DOMAIN sources) \X (1..3))
  BY <1>1, FS_Product DEF AreSamples
<1>3. Expanded(sources) \in SUBSET ((DOMAIN sources) \X (1..3))
  BY DEF Expanded, AreSamples
<1>4. IsFiniteSet(Expanded(sources))
  BY <1>2, <1>3, FS_Subset
<1> QED BY <1>4, FS_CardinalityType DEF Weight

(* The share of one source.                                                *)
LEMMA ShareOfOne ==
  ASSUME NEW s, NEW w \in Nat
  PROVE  IsFiniteSet({s} \X (1..w)) /\ Cardinality({s} \X (1..w)) = w
<1> DEFINE f == [k \in 1..w |-> <<s, k>>]
           T == {s} \X (1..w)
<1>1. f \in Bijection(1..w, T)
  <2>1. f \in [1..w -> T]
    OBVIOUS
  <2>2. \A a, b \in 1..w : f[a] = f[b] => a = b
    OBVIOUS
  <2>3. \A t \in T : \E a \in 1..w : f[a] = t
    OBVIOUS
  <2> HIDE DEF f, T
  <2>4. f \in Injection(1..w, T)
    BY <2>1, <2>2 DEF Injection, IsInjective
  <2>5. f \in Surjection(1..w, T)
    BY <2>1, <2>3 DEF Surjection
  <2> QED BY <2>4, <2>5 DEF Bijection
<1>2. ExistsBijection(1..w, T)
  BY <1>1 DEF ExistsBijection
<1>3. IsFiniteSet(1..w) /\ Cardinality(1..w) = w
  BY FS_Interval
<1> HIDE DEF T
<1>4. IsFiniteSet(T) /\ Cardinality(T) = w
  BY <1>2, <1>3, FS_Bijection
<1> QED BY <1>4 DEF T

(* Whatever it says, a minority does not decide the k-th ratio: those who  *)
(* say more than all the others, and less, are outnumbered.                *)
LEMMA MinorityOfKth ==
  ASSUME NEW sources, AreSamples(sources), NEW s \in DOMAIN sources, NEW k \in Nat,
         sources[s].weight < k, k <= Weight(sources) - sources[s].weight
  PROVE  LET others == {sources[x].ratio : x \in DOMAIN sources \ {s}} IN
         /\ others \in SUBSET Int /\ IsFiniteSet(others) /\ others # {}
         /\ KthRatio(sources, k) \in Min(others)..Max(others)
<1> DEFINE others == {sources[x].ratio : x \in DOMAIN sources \ {s}}
           w == sources[s].weight
           all == Expanded(sources)
           mine == {s} \X (1..w)
           theirs == all \ mine
<1>0. w \in 1..3 /\ w \in Nat
  BY DEF AreSamples
<1>1. IsFiniteSet(all) /\ Cardinality(all) \in Nat /\ Weight(sources) = Cardinality(all)
  BY ExpandedIsFinite DEF Weight
<1>2. IsFiniteSet(mine) /\ Cardinality(mine) = w
  <2> HIDE DEF w
  <2> QED BY <1>0, ShareOfOne
<1>3. mine \in SUBSET all /\ theirs \in SUBSET all
  BY DEF Expanded
<1>4. IsFiniteSet(theirs) /\ Cardinality(theirs) \in Nat /\ Cardinality(theirs) = Cardinality(all) - w
  <2> HIDE DEF all, mine, w
  <2>1. IsFiniteSet(theirs)
    BY <1>1, <1>3, FS_Subset
  <2>2. Cardinality(mine \cup theirs)
          = Cardinality(mine) + Cardinality(theirs) - Cardinality(mine \cap theirs)
    BY <1>2, <2>1, FS_Union
  <2>3. mine \cup theirs = all /\ mine \cap theirs = {}
    BY <1>3
  <2>4. Cardinality(theirs) \in Nat /\ Cardinality(all) \in Nat /\ w \in Nat
    BY <2>1, <1>0, <1>1, FS_CardinalityType
  <2> HIDE DEF theirs
  <2>5. Cardinality(all) = Cardinality(mine) + Cardinality(theirs) - 0
    BY <2>2, <2>3, FS_EmptySet
  <2> QED BY <1>2, <2>1, <2>4, <2>5
<1>5. \A e \in theirs : e[1] \in DOMAIN sources \ {s}
  BY DEF Expanded
<1>6. others \in SUBSET Int /\ others # {}
  <2>1. theirs # {}
    <3> HIDE DEF theirs, all
    <3>1. Cardinality(theirs) > 0
      BY <1>0, <1>1, <1>4
    <3> QED BY <1>4, <3>1, FS_EmptySet
  <2> QED BY <1>5, <2>1 DEF AreSamples
<1>7. IsFiniteSet(others)
  <2> DEFINE D == DOMAIN sources \ {s}
             f == [x \in D |-> sources[x].ratio]
  <2>1. IsFiniteSet(D)
    BY FS_RemoveElement DEF AreSamples
  <2>2. f \in Surjection(D, others)
    BY DEF Surjection
  <2> HIDE DEF D, f, others
  <2> QED BY <2>1, <2>2, FS_Surjection
<1>8. /\ Max(others) \in others /\ \A y \in others : y <= Max(others)
      /\ Min(others) \in others /\ \A y \in others : Min(others) <= y
  <2> HIDE DEF others
  <2> QED BY <1>6, <1>7, GreatestOf, LeastOf
<1> DEFINE hi == Max(others)
           lo == Min(others)
           upTo(r) == {e \in all : sources[e[1]].ratio <= r}
           R == {r \in {sources[x].ratio : x \in DOMAIN sources} : WeightUpTo(sources, r) >= k}
<1>9. hi \in Int /\ lo \in Int
  <2> HIDE DEF others
  <2> QED BY <1>6, <1>8
<1>10. \A r : IsFiniteSet(upTo(r)) /\ Cardinality(upTo(r)) \in Nat
              /\ WeightUpTo(sources, r) = Cardinality(upTo(r))
  <2> TAKE r
  <2>1. upTo(r) \in SUBSET all
    OBVIOUS
  <2> DEFINE u == upTo(r)
  <2>2. u \in SUBSET all /\ WeightUpTo(sources, r) = Cardinality(u)
    BY <2>1 DEF WeightUpTo
  <2> HIDE DEF u, all
  <2>3. IsFiniteSet(u) /\ Cardinality(u) \in Nat
    BY <1>1, <2>2, FS_Subset, FS_CardinalityType
  <2> QED BY <2>2, <2>3 DEF u
<1>11. hi \in R
  <2>1. theirs \in SUBSET upTo(hi)
    <3>1. \A e \in theirs : sources[e[1]].ratio \in others
      BY <1>5
    <3>2. \A e \in theirs : sources[e[1]].ratio <= hi
      BY <3>1, <1>8
    <3> QED BY <1>3, <3>2
  <2> DEFINE u == upTo(hi)
  <2>2. IsFiniteSet(u) /\ Cardinality(u) \in Nat /\ WeightUpTo(sources, hi) = Cardinality(u)
    BY <1>10
  <2>3. theirs \in SUBSET u
    BY <2>1
  <2> HIDE DEF u, theirs
  <2>4. Cardinality(theirs) <= Cardinality(u)
    BY <2>2, <2>3, FS_Subset
  <2>5. WeightUpTo(sources, hi) >= k
    <3> HIDE DEF hi, w, all
    <3> QED BY <1>0, <1>1, <1>4, <2>2, <2>4 DEF w
  <2>6. hi \in {sources[x].ratio : x \in DOMAIN sources}
    BY <1>8
  <2> HIDE DEF hi
  <2> QED BY <2>5, <2>6
<1>12. \A r \in R : r \in Int /\ lo <= r
  <2> SUFFICES ASSUME NEW r \in R
               PROVE  r \in Int /\ lo <= r
    OBVIOUS
  <2>1. r \in Int
    BY DEF AreSamples
  <2>2. ASSUME r < lo PROVE FALSE
    <3>1. upTo(r) \in SUBSET mine
      <4> SUFFICES ASSUME NEW e \in all, sources[e[1]].ratio <= r, e \notin mine
                   PROVE  FALSE
        OBVIOUS
      <4>1. sources[e[1]].ratio \in others
        BY <1>5
      <4>2. lo <= sources[e[1]].ratio /\ sources[e[1]].ratio \in Int
        BY <1>6, <1>8, <4>1
      <4> HIDE DEF lo, others
      <4> QED BY <1>9, <2>1, <2>2, <4>2
    <3> DEFINE u == upTo(r)
    <3>2. Cardinality(u) \in Nat /\ u \in SUBSET mine
          /\ WeightUpTo(sources, r) = Cardinality(u)
      BY <1>10, <3>1
    <3>3. WeightUpTo(sources, r) >= k
      OBVIOUS
    <3> HIDE DEF u, mine
    <3>4. Cardinality(u) <= Cardinality(mine)
      BY <1>2, <3>2, FS_Subset
    <3> HIDE DEF w
    <3> QED BY <1>0, <1>2, <3>2, <3>3, <3>4 DEF w
  <2> HIDE DEF lo
  <2> QED BY <1>9, <2>1, <2>2
<1>13. IsFiniteSet(R)
  <2> DEFINE f == [x \in DOMAIN sources |-> sources[x].ratio]
             T == {sources[x].ratio : x \in DOMAIN sources}
  <2>1. f \in Surjection(DOMAIN sources, T)
    BY DEF Surjection
  <2>2. IsFiniteSet(T)
    <3> HIDE DEF f, T
    <3> QED BY <2>1, FS_Surjection DEF AreSamples
  <2>3. R \in SUBSET T
    OBVIOUS
  <2> HIDE DEF R, T
  <2> QED BY <2>2, <2>3, FS_Subset
<1>14. KthRatio(sources, k) = Min(R)
  BY DEF KthRatio
<1>15. Min(R) \in R /\ \A y \in R : Min(R) <= y
  <2>1. R \in SUBSET Int /\ R # {}
    <3> HIDE DEF R
    <3> QED BY <1>11, <1>12
  <2> HIDE DEF R
  <2> QED BY <1>13, <2>1, LeastOf
<1>16. Min(R) \in lo..hi
  <2> DEFINE m == Min(R)
  <2>1. m \in Int /\ lo <= m /\ m <= hi
    <3> HIDE DEF R
    <3> QED BY <1>11, <1>12, <1>15
  <2> HIDE DEF m, lo, hi
  <2>2. m \in lo..hi
    BY <1>9, <2>1
  <2> QED BY <2>2 DEF m, lo, hi
<1> QED BY <1>6, <1>7, <1>14, <1>16

(* Nor does it decide the median. *)
LEMMA MinorityOfMedian ==
  ASSUME NEW sources, AreSamples(sources), NEW s \in DOMAIN sources,
         2 * sources[s].weight < Weight(sources)
  PROVE  LET others == {sources[x].ratio : x \in DOMAIN sources \ {s}} IN
         /\ others \in SUBSET Int /\ IsFiniteSet(others) /\ others # {}
         /\ MedianRatio(sources) \in Min(others)..Max(others)
<1> DEFINE others == {sources[x].ratio : x \in DOMAIN sources \ {s}}
           w == Weight(sources)
           i == (w + 1) \div 2
           j == w \div 2 + 1
<1>1. w \in Nat /\ sources[s].weight \in Nat
  BY ExpandedIsFinite DEF AreSamples
<1>2. /\ i \in Nat /\ sources[s].weight < i /\ i <= w - sources[s].weight
      /\ j \in Nat /\ sources[s].weight < j /\ j <= w - sources[s].weight
  <2> HIDE DEF w
  <2> QED BY <1>1 DEF w
<1>3. /\ others \in SUBSET Int /\ IsFiniteSet(others) /\ others # {}
      /\ KthRatio(sources, i) \in Min(others)..Max(others)
      /\ KthRatio(sources, j) \in Min(others)..Max(others)
  <2> HIDE DEF i, j
  <2> QED BY <1>2, MinorityOfKth DEF w
<1>4. MedianRatio(sources) = (KthRatio(sources, i) + KthRatio(sources, j)) \div 2
  BY DEF MedianRatio
<1>5. Min(others) \in Int /\ Max(others) \in Int
  <2> HIDE DEF others
  <2> QED BY <1>3, GreatestOf, LeastOf
<1>6. MedianRatio(sources) \in Min(others)..Max(others)
  <2> DEFINE a == KthRatio(sources, i)
             b == KthRatio(sources, j)
             lo == Min(others)
             hi == Max(others)
  <2>1. a \in lo..hi /\ b \in lo..hi /\ lo \in Int /\ hi \in Int
    BY <1>3, <1>5
  <2>2. MedianRatio(sources) = (a + b) \div 2
    BY <1>4
  <2> HIDE DEF a, b, lo, hi
  <2>3. (a + b) \div 2 \in lo..hi
    BY <2>1
  <2>4. MedianRatio(sources) \in lo..hi
    BY <2>2, <2>3
  <2> QED BY <2>4 DEF lo, hi
<1> QED BY <1>3, <1>6

(* Slower is more congested. *)
LEMMA CongestionFalls ==
  ASSUME NEW q \in Int, NEW r \in Int, q <= r
  PROVE  /\ RatioToCongestion(q) \in Int /\ RatioToCongestion(r) \in Int
         /\ RatioToCongestion(r) <= RatioToCongestion(q)
<1>1. \A x \in Int : \/ x >= 1000 /\ RatioToCongestion(x) = 0
                     \/ x <= 120 /\ RatioToCongestion(x) = 1000
                     \/ /\ x \in 121..999
                        /\ RatioToCongestion(x) = ((1000 - x) * 1000) \div 880
  BY DEF RatioToCongestion
<1>2. \A x \in 121..999 : ((1000 - x) * 1000) \div 880 \in 1..1000
  OBVIOUS
<1>3. \A x, y \in 121..999 : x <= y =>
        ((1000 - y) * 1000) \div 880 <= ((1000 - x) * 1000) \div 880
  OBVIOUS
<1> QED BY <1>1, <1>2, <1>3
-----------------------------------------------------------------------------
(* What vehicles, samples and estimates are made of.                       *)

(* What a fetch returned: for some buses, when they were last seen. *)
IsFix(v) ==
  \/ v = NoValue
  \/ DOMAIN v \subseteq Bus /\ \A b \in DOMAIN v : v[b] \in Int \cup {Untimed}

FixInv ==
  /\ IsFix(cache.value)
  /\ DOMAIN answer = Caller /\ \A t \in Caller : IsFix(answer[t])

VehicleInv ==
  /\ DOMAIN vehicles \subseteq Bus \cup Simulated
  /\ \A v \in DOMAIN vehicles :
       /\ vehicles[v] = [at |-> vehicles[v].at, moving |-> vehicles[v].moving]
       /\ vehicles[v].at \in Int

Sources == {"bus", "waze", "flow"} \X (Bus \cup Simulated \cup {"station", "jam"})

KindWeight(kind) == CASE kind = "bus" -> 1 [] kind = "waze" -> 2 [] OTHER -> 3

IsSample(s, x) ==
  /\ x = [ratio |-> x.ratio, weight |-> KindWeight(s[1]), at |-> x.at]
  /\ x.ratio \in Int /\ x.at \in Int

Sampled(sources) ==
  DOMAIN sources \subseteq Sources /\ \A s \in DOMAIN sources : IsSample(s, sources[s])

SampleInv ==
  DOMAIN samples = Intersection /\ \A i \in Intersection : Sampled(samples[i])

AllFresh(sources) == \A s \in DOMAIN sources : sources[s].at >= 0 - Window

(* An estimate in force rests on a sample at most a window older than it,  *)
(* and one made now is what the samples say.                               *)
IsEstimate(i, x, sources) ==
  /\ i \in Intersection
  /\ x = [at |-> x.at, congestion |-> x.congestion, basis |-> x.basis]
  /\ x.at \in Int /\ x.at <= 0 /\ x.basis \in Int
  /\ x.at >= 0 - Window => x.basis >= x.at - Window
  /\ x.at = 0 => /\ AllFresh(sources) /\ Estimable(sources)
                 /\ x.congestion = RatioToCongestion(MedianRatio(sources))

EstimateInv == \A i \in DOMAIN estimates : IsEstimate(i, estimates[i], samples[i])

SensingInv ==
  DOMAIN pc = Caller /\ FixInv /\ VehicleInv /\ SampleInv /\ EstimateInv

LEMMA SourcesAreFinite == IsFiniteSet(Sources)
<1> DEFINE K == {"bus", "waze", "flow"}
           I == Bus \cup Simulated \cup {"station", "jam"}
<1>1. IsFiniteSet(K)
  <2>1. K = {} \cup {"bus"} \cup {"waze"} \cup {"flow"}
    OBVIOUS
  <2> HIDE DEF K
  <2>2. IsFiniteSet({} \cup {"bus"})
    BY FS_EmptySet, FS_AddElement
  <2>3. IsFiniteSet({} \cup {"bus"} \cup {"waze"})
    BY <2>2, FS_AddElement
  <2> QED BY <2>1, <2>3, FS_AddElement
<1>2. IsFiniteSet(I)
  <2>1. IsFiniteSet(Bus \cup Simulated)
    BY TickAssumption, FS_Union
  <2>2. IsFiniteSet((Bus \cup Simulated) \cup {"station"})
    BY <2>1, FS_AddElement
  <2>3. IsFiniteSet(((Bus \cup Simulated) \cup {"station"}) \cup {"jam"})
    BY <2>2, FS_AddElement
  <2>4. I = ((Bus \cup Simulated) \cup {"station"}) \cup {"jam"}
    OBVIOUS
  <2> QED BY <2>3, <2>4
<1>3. IsFiniteSet(K \X I)
  <2> HIDE DEF K, I
  <2> QED BY <1>1, <1>2, FS_Product
<1> QED BY <1>3 DEF Sources

LEMMA SampledAreSamples ==
  ASSUME NEW sources, Sampled(sources)
  PROVE  AreSamples(sources)
<1>1. IsFiniteSet(DOMAIN sources)
  BY SourcesAreFinite, FS_Subset DEF Sampled
<1>2. ASSUME NEW s \in DOMAIN sources
      PROVE  sources[s].ratio \in Int /\ sources[s].weight \in 1..3
  <2>1. /\ sources[s].ratio \in Int
        /\ sources[s] = [ratio |-> sources[s].ratio, weight |-> KindWeight(s[1]),
                         at |-> sources[s].at]
    BY DEF Sampled, IsSample
  <2>2. sources[s].weight = KindWeight(s[1])
    BY <2>1
  <2> QED BY <2>1, <2>2 DEF KindWeight
<1> QED BY <1>1, <1>2 DEF AreSamples

(* A source weighs what its kind does, so more sources weigh more. *)
LEMMA MoreSourcesWeighMore ==
  ASSUME NEW old, NEW new, Sampled(old), Sampled(new),
         DOMAIN old \subseteq DOMAIN new, Estimable(old)
  PROVE  Estimable(new)
<1>1. \A s \in DOMAIN old : old[s].weight = KindWeight(s[1])
  BY DEF Sampled, IsSample
<1>2. \A s \in DOMAIN new : new[s].weight = KindWeight(s[1])
  BY DEF Sampled, IsSample
<1>3. Expanded(old) \in SUBSET Expanded(new)
  <2>1. \A s \in DOMAIN old : old[s].weight = new[s].weight
    BY <1>1, <1>2
  <2> QED BY <2>1 DEF Expanded
<1>4. IsFiniteSet(Expanded(new)) /\ Weight(new) \in Nat /\ Weight(old) \in Nat
  BY SampledAreSamples, ExpandedIsFinite
<1>5. Weight(old) <= Weight(new)
  BY <1>3, <1>4, FS_Subset DEF Weight
<1> QED BY <1>4, <1>5, EstimatorAssumption DEF Estimable

LEMMA EstimableHasSamples ==
  ASSUME NEW sources, Sampled(sources), Estimable(sources)
  PROVE  DOMAIN sources # {}
<1>1. Weight(sources) >= 1
  BY EstimatorAssumption, SampledAreSamples, ExpandedIsFinite DEF Estimable
<1>2. Expanded(sources) # {}
  BY <1>1, FS_EmptySet DEF Weight
<1> QED BY <1>2 DEF Expanded

LEMMA GreaterOfTwo ==
  ASSUME NEW a \in Int, NEW b \in Int
  PROVE  Max({a, b}) \in Int
<1> DEFINE S == {a, b}
<1>1. IsFiniteSet(S)
  <2>1. IsFiniteSet({a} \cup {b}) /\ S = {a} \cup {b}
    BY FS_Singleton, FS_AddElement
  <2> QED BY <2>1
<1>2. S \in SUBSET Int /\ S # {}
  OBVIOUS
<1>3. Max(S) \in S
  <2> HIDE DEF S
  <2> QED BY <1>1, <1>2, GreatestOf
<1> QED BY <1>2, <1>3

-----------------------------------------------------------------------------
(* What a tick makes of a reading. *)
IsReading(r) ==
  /\ r.source \in Sources /\ r.weight = KindWeight(r.source[1])
  /\ r.speed \in Int /\ r.at \in Int /\ r.at >= 0 - Window

LEMMA ReadingsOfATick ==
  ASSUME VehicleInv, NEW flows \in FlowSpeeds, NEW jams \in WazeJams
  PROVE  /\ \A r \in BusReadings(Probes, 0) : IsReading(r)
         /\ \A r \in FlowReadings(flows, 0) : IsReading(r)
         /\ \A r \in JamReadings(jams, 0) : IsReading(r)
<1>1. ASSUME NEW r \in BusReadings(Probes, 0)
      PROVE  IsReading(r)
  <2>1. PICK v \in DOMAIN vehicles :
          /\ r = [source |-> <<"bus", v>>, near |-> Intersection,
                  speed |-> IF vehicles[v].moving THEN 15 ELSE 0,
                  weight |-> 1, at |-> vehicles[v].at]
          /\ 0 - vehicles[v].at <= StaleFix
    BY DEF BusReadings, Probes
  <2>2. v \in Bus \cup Simulated /\ vehicles[v].at \in Int
    BY DEF VehicleInv
  <2>3. r.source = <<"bus", v>> /\ r.weight = 1 /\ r.at = vehicles[v].at /\ r.speed \in {0, 15}
    BY <2>1
  <2>4. r.source \in Sources /\ KindWeight(r.source[1]) = 1
    BY <2>2, <2>3 DEF Sources, KindWeight
  <2> QED BY <2>1, <2>2, <2>3, <2>4, EstimatorAssumption DEF IsReading
<1>2. ASSUME NEW r \in FlowReadings(flows, 0)
      PROVE  IsReading(r)
  <2>1. PICK v \in LoopSpeed : flows = {Station(v)}
    BY DEF FlowSpeeds, FlowReadings
  <2>2. r.source = <<"flow", "station">> /\ r.weight = 3 /\ r.at = 0 /\ r.speed = v
    BY <2>1 DEF FlowReadings, Station
  <2>3. r.source \in Sources /\ KindWeight(r.source[1]) = 3
    BY <2>2 DEF Sources, KindWeight
  <2> QED BY <2>2, <2>3, EstimatorAssumption, TickAssumption DEF IsReading
<1>3. ASSUME NEW r \in JamReadings(jams, 0)
      PROVE  IsReading(r)
  <2>1. PICK j \in jams : r = [source |-> <<"waze", j.id>>, near |-> j.near,
                               speed |-> JamSpeed(j), weight |-> 2, at |-> 0]
    BY DEF JamReadings
  <2>2. j = Jam
    BY <2>1 DEF WazeJams
  <2>3. r.source = <<"waze", "jam">> /\ r.weight = 2 /\ r.at = 0 /\ r.speed = 20
    BY <2>1, <2>2 DEF Jam, JamSpeed
  <2>4. r.source \in Sources /\ KindWeight(r.source[1]) = 2
    BY <2>3 DEF Sources, KindWeight
  <2> QED BY <2>3, <2>4, EstimatorAssumption DEF IsReading
<1> QED BY <1>1, <1>2, <1>3

LEMMA ReadingMakesSample ==
  ASSUME NEW sources, Sampled(sources), NEW r, IsReading(r), NEW i
  PROVE  /\ IsSample(r.source, Sample(sources, r, SpeedLimit(i)))
         /\ Sample(sources, r, SpeedLimit(i)).at = r.at
<1> DEFINE bus == r.source[1] = "bus"
           ratio == Ratio(r.speed, SpeedLimit(i), bus)
           kept == /\ bus /\ r.source \in DOMAIN sources
                   /\ sources[r.source].at >= r.at - Window
           q == IF kept THEN Max({ratio, sources[r.source].ratio}) ELSE ratio
           x == Sample(sources, r, SpeedLimit(i))
<1>1. ratio \in Int
  <2>1. SpeedLimit(i) \in {25, 55} /\ r.speed \in Int
    BY DEF SpeedLimit, IsReading
  <2>2. \A v \in Int : \A l \in {25, 55} : \A b : Ratio(v, l, b) \in Int
    BY DEF Ratio
  <2> QED BY <2>1, <2>2
<1>2. q \in Int
  <2>1. CASE kept
    <3>1. sources[r.source].ratio \in Int
      BY <2>1 DEF Sampled, IsSample
    <3> HIDE DEF ratio
    <3> QED BY <1>1, <2>1, <3>1, GreaterOfTwo
  <2>2. CASE ~kept
    BY <1>1, <2>2
  <2> QED BY <2>1, <2>2
<1>3. x = [ratio |-> q, weight |-> r.weight, at |-> r.at]
  BY DEF Sample
<1>4. x.ratio \in Int /\ x.at = r.at /\ x = [ratio |-> x.ratio, weight |-> r.weight, at |-> x.at]
  <2> HIDE DEF q, x
  <2> QED BY <1>2, <1>3
<1> QED BY <1>4 DEF IsSample, IsReading

(* Taking readings in drops no source, and what it does not replace stays. *)
LEMMA IngestKeepsSources ==
  ASSUME NEW readings, \A r \in readings : IsReading(r), SampleInv, NEW i \in Intersection
  PROVE  LET old == samples[i]
             got == Ingest(samples, readings)[i]
         IN  /\ Sampled(got) /\ DOMAIN old \subseteq DOMAIN got
             /\ AllFresh(old) => AllFresh(got)
<1> DEFINE old == samples[i]
           here == {r \in readings : i \in r.near}
           got == Ingest(samples, readings)[i]
<1>1. Sampled(old) /\ DOMAIN samples = Intersection
  BY DEF SampleInv
<1>2. got = [s \in DOMAIN old \cup {r.source : r \in here} |->
               IF \E r \in here : r.source = s
               THEN Sample(old, CHOOSE r \in here : r.source = s, SpeedLimit(i))
               ELSE old[s]]
  BY <1>1 DEF Ingest
<1>3. DOMAIN got = DOMAIN old \cup {r.source : r \in here}
  BY <1>2
<1>4. DOMAIN got \subseteq Sources
  BY <1>1, <1>3 DEF Sampled, IsReading
<1>5. ASSUME NEW s \in DOMAIN got
      PROVE  /\ IsSample(s, got[s])
             /\ AllFresh(old) => got[s].at >= 0 - Window
  <2>1. CASE \E r \in here : r.source = s
    <3> DEFINE c == CHOOSE r \in here : r.source = s
    <3>1. c \in here /\ c.source = s
      BY <2>1
    <3>2. got[s] = Sample(old, c, SpeedLimit(i))
      <4>1. got[s] = IF \E r \in here : r.source = s
                     THEN Sample(old, CHOOSE r \in here : r.source = s, SpeedLimit(i))
                     ELSE old[s]
        BY <1>2, <1>3
      <4> QED BY <2>1, <4>1
    <3> HIDE DEF c, got, old
    <3>3. IsReading(c)
      BY <3>1
    <3>4. IsSample(c.source, got[s]) /\ got[s].at = c.at
      BY <1>1, <3>2, <3>3, ReadingMakesSample
    <3> QED BY <3>1, <3>3, <3>4 DEF IsReading
  <2>2. CASE ~\E r \in here : r.source = s
    <3>1. s \in DOMAIN old /\ got[s] = old[s]
      BY <1>2, <1>3, <2>2
    <3> QED BY <1>1, <3>1 DEF Sampled, AllFresh
  <2> QED BY <2>1, <2>2
<1> QED BY <1>3, <1>4, <1>5 DEF Sampled, AllFresh

LEMMA FreshIsSampled ==
  ASSUME NEW sources, Sampled(sources)
  PROVE  /\ Sampled(Fresh(sources, 0)) /\ AllFresh(Fresh(sources, 0))
         /\ AllFresh(sources) => DOMAIN Fresh(sources, 0) = DOMAIN sources
<1>1. /\ DOMAIN Fresh(sources, 0) = {s \in DOMAIN sources : sources[s].at >= 0 - Window}
      /\ \A s \in DOMAIN Fresh(sources, 0) : Fresh(sources, 0)[s] = sources[s]
  BY DEF Fresh, Restrict
<1> QED BY <1>1 DEF Sampled, AllFresh

-----------------------------------------------------------------------------
LEMMA SensingStarts == Init => SensingInv
<1> SUFFICES ASSUME Init
             PROVE  SensingInv
  OBVIOUS
<1>1. DOMAIN pc = Caller /\ FixInv
  BY DEF Init, CacheInit, FixInv, IsFix
<1>2. VehicleInv
  BY DEF Init, VehicleInv
<1>3. SampleInv
  BY DEF Init, SampleInv, Sampled
<1>4. EstimateInv
  BY DEF Init, EstimateInv
<1> QED BY <1>1, <1>2, <1>3, <1>4 DEF SensingInv

LEMMA PollKeepsFixes ==
  ASSUME FeedInv, FixInv, NEW t \in Caller,
         Ask(t) \/ Refresh(t) \/ StandsAside(t) \/ FetchFails(t) \/ Return(t)
  PROVE  FixInv'
<1>1. /\ cache'.value = cache.value
      /\ \/ answer' = answer
         \/ \E v : IsFix(v) /\ answer' = [answer EXCEPT ![t] = v]
  <2>1. cache'.value = cache.value
    BY DEF Ask, Refresh, StandsAside, FetchFails, Return, FeedInv, CacheTyped
  <2>2. IsFix(NoValue)
    BY DEF IsFix
  <2>3. CASE Ask(t)
    BY <2>1, <2>3 DEF Ask, Answer, FixInv
  <2>4. CASE Refresh(t)
    BY <2>1, <2>4 DEF Refresh
  <2>5. CASE StandsAside(t)
    BY <2>1, <2>5 DEF StandsAside, Answer, FixInv
  <2>6. CASE FetchFails(t)
    BY <2>1, <2>6 DEF FetchFails, Answer, FixInv
  <2>7. CASE Return(t)
    BY <2>1, <2>2, <2>7 DEF Return
  <2> QED BY <2>1, <2>3, <2>4, <2>5, <2>6, <2>7
<1>2. DOMAIN answer' = Caller /\ \A u \in Caller : IsFix(answer'[u])
  BY <1>1 DEF FixInv
<1>3. IsFix(cache'.value)
  BY <1>1 DEF FixInv
<1> QED BY <1>2, <1>3 DEF FixInv, IsFix

LEMMA FetchKeepsFixes ==
  ASSUME FeedInv, FixInv, NEW t \in Caller, NEW v, IsFix(v), Fetched(t, v)
  PROVE  FixInv'
<1>1. cache'.value = v /\ answer' = [answer EXCEPT ![t] = v]
  BY DEF Fetched, Answer, FeedInv, CacheTyped
<1>2. DOMAIN answer' = Caller /\ \A u \in Caller : IsFix(answer'[u])
  BY <1>1 DEF FixInv
<1>3. IsFix(cache'.value)
  BY <1>1
<1> QED BY <1>2, <1>3 DEF FixInv, IsFix

(* What the tick takes along and puts into the graph is made of buses.     *)
LEMMA PolledKeepsVehicles ==
  ASSUME FixInv, VehicleInv, NEW t \in Caller, Polled(t)
  PROVE  VehicleInv' /\ DOMAIN pc' = Caller
<1> DEFINE fixes == Fixes(t)
           seen(came) == [b \in DOMAIN fixes |->
                            [at |-> Stamped(fixes[b]), moving |-> Moving(b, came[b])]]
           polled(came) == IF fixes = NoFixes
                           THEN [s \in Simulated |-> [at |-> 0, moving |-> TRUE]]
                           ELSE seen(came)
           changed(came) == [v \in DOMAIN vehicles \cup DOMAIN polled(came) |->
                               IF v \in DOMAIN polled(came) THEN polled(came)[v]
                               ELSE vehicles[v]]
<1>1. PICK came \in [DOMAIN fixes -> Distance] : Updated(t, changed(came), "prune")
  BY DEF Polled
<1>2. DOMAIN fixes \subseteq Bus /\ \A b \in DOMAIN fixes : Stamped(fixes[b]) \in Int
  <2>1. CASE answer[t] = NoValue
    BY <2>1 DEF Fixes, NoFixes
  <2>2. CASE answer[t] # NoValue
    BY <2>2 DEF Fixes, FixInv, IsFix, Stamped
  <2> QED BY <2>1, <2>2
<1> DEFINE p == polled(came)
<1>3. /\ DOMAIN p \subseteq Bus \cup Simulated
      /\ \A v \in DOMAIN p : p[v] = [at |-> p[v].at, moving |-> p[v].moving] /\ p[v].at \in Int
  <2>1. CASE fixes = NoFixes
    BY <2>1
  <2>2. CASE fixes # NoFixes
    <3> HIDE DEF fixes
    <3> QED BY <1>2, <2>2
  <2> QED BY <2>1, <2>2
<1>4. vehicles' = [v \in DOMAIN vehicles \cup DOMAIN p |->
                     IF v \in DOMAIN p THEN p[v] ELSE vehicles[v]]
  BY <1>1 DEF Updated
<1>5. DOMAIN pc' = Caller
  BY <1>1 DEF Updated, GoesTearing
<1> HIDE DEF p
<1>6. DOMAIN vehicles' = DOMAIN vehicles \cup DOMAIN p
  BY <1>4
<1>7. \A v \in DOMAIN vehicles' : vehicles'[v] \in {p[v], vehicles[v]}
                                  /\ (v \in DOMAIN p => vehicles'[v] = p[v])
                                  /\ (v \notin DOMAIN p => vehicles'[v] = vehicles[v])
  BY <1>4
<1>8. \A v \in DOMAIN vehicles' : /\ vehicles'[v] = [at |-> vehicles'[v].at, moving |-> vehicles'[v].moving]
                                  /\ vehicles'[v].at \in Int
  BY <1>3, <1>6, <1>7 DEF VehicleInv
<1> QED BY <1>3, <1>5, <1>6, <1>8 DEF VehicleInv

LEMMA PruneKeepsVehicles ==
  ASSUME VehicleInv, NEW t \in Caller, Prune(t)
  PROVE  VehicleInv' /\ DOMAIN pc' = Caller
<1>1. /\ DOMAIN vehicles' \subseteq DOMAIN vehicles
      /\ \A v \in DOMAIN vehicles' : vehicles'[v] = vehicles[v]
  BY DEF Prune, Updated, Restrict
<1>2. DOMAIN pc' = Caller
  BY DEF Prune, Updated, GoesTearing
<1> QED BY <1>1, <1>2 DEF VehicleInv

(* The readings of a tick make sound samples and estimates; an estimate    *)
(* made in the same instant by another thread is made again.               *)
LEMMA SenseKeepsEstimates ==
  ASSUME VehicleInv, SampleInv, EstimateInv, NEW t \in Caller, Sense(t)
  PROVE  SampleInv' /\ EstimateInv'
<1>1. PICK readings :
        /\ \A r \in readings : IsReading(r)
        /\ samples' = FreshSamples(Ingest(samples, readings), 0)
        /\ estimates' = Estimates(Ingest(samples, readings), estimates, 0)
  <2>1. PICK flows \in FlowSpeeds, jams \in WazeJams :
          LET due == 0 - flowAt >= Every
              extra == IF due THEN FlowReadings(flows, 0) \cup JamReadings(jams, 0)
                       ELSE {}
              ingested == Ingest(samples, BusReadings(Probes, 0) \cup extra)
          IN  /\ samples' = FreshSamples(ingested, 0)
              /\ estimates' = Estimates(ingested, estimates, 0)
    BY DEF Sense
  <2> DEFINE due == 0 - flowAt >= Every
             extra == IF due THEN FlowReadings(flows, 0) \cup JamReadings(jams, 0)
                      ELSE {}
             readings == BusReadings(Probes, 0) \cup extra
  <2>2. \A r \in readings : IsReading(r)
    BY ReadingsOfATick
  <2>3. /\ samples' = FreshSamples(Ingest(samples, readings), 0)
        /\ estimates' = Estimates(Ingest(samples, readings), estimates, 0)
    BY <2>1
  <2> HIDE DEF readings
  <2> QED BY <2>2, <2>3
<1> DEFINE got == Ingest(samples, readings)
           fresh == FreshSamples(got, 0)
           new == {i \in DOMAIN fresh : Estimable(fresh[i])}
<1>2. DOMAIN got = Intersection /\ DOMAIN fresh = Intersection
  BY DEF Ingest, FreshSamples, SampleInv
<1>3. \A i \in Intersection : fresh[i] = Fresh(got[i], 0)
  BY <1>2 DEF FreshSamples
<1>4. \A i \in Intersection :
        /\ Sampled(got[i]) /\ DOMAIN samples[i] \subseteq DOMAIN got[i]
        /\ AllFresh(samples[i]) => AllFresh(got[i])
  BY <1>1, IngestKeepsSources
<1> HIDE DEF got
<1>5. \A i \in Intersection :
        /\ Sampled(fresh[i]) /\ AllFresh(fresh[i])
        /\ AllFresh(got[i]) => DOMAIN fresh[i] = DOMAIN got[i]
  BY <1>3, <1>4, FreshIsSampled
<1>6. samples' = fresh
  BY <1>1 DEF got
<1>7. estimates' = [i \in DOMAIN estimates \cup new |->
                      IF i \in new
                      THEN [at |-> 0, congestion |-> RatioToCongestion(MedianRatio(fresh[i])),
                            basis |-> Max({fresh[i][s].at : s \in DOMAIN fresh[i]})]
                      ELSE estimates[i]]
  BY <1>1 DEF Estimates, got
<1> HIDE DEF fresh
<1>8. SampleInv'
  BY <1>2, <1>5, <1>6 DEF SampleInv, Sampled, IsSample
<1>9. ASSUME NEW i \in DOMAIN estimates'
      PROVE  IsEstimate(i, estimates'[i], samples'[i])
  <2> DEFINE x == estimates'[i]
  <2>1. CASE i \in new
    <3> DEFINE ats == {fresh[i][s].at : s \in DOMAIN fresh[i]}
               mine == RatioToCongestion(MedianRatio(fresh[i]))
    <3>1. i \in Intersection /\ Estimable(fresh[i])
      BY <1>2, <2>1
    <3>2. x = [at |-> 0, congestion |-> mine, basis |-> Max(ats)]
      <4> HIDE DEF mine, ats
      <4> QED BY <1>7, <2>1 DEF mine, ats
    <3>3. Max(ats) \in Int /\ Max(ats) >= 0 - Window
      <4>1. \A s \in DOMAIN fresh[i] : fresh[i][s].at \in Int /\ fresh[i][s].at >= 0 - Window
        BY <1>5, <3>1 DEF Sampled, IsSample, AllFresh
      <4>2. DOMAIN fresh[i] # {} /\ IsFiniteSet(DOMAIN fresh[i])
        BY <1>5, <3>1, EstimableHasSamples, SampledAreSamples DEF AreSamples
      <4>3. ats \in SUBSET Int /\ ats # {} /\ \A a \in ats : a >= 0 - Window
        BY <4>1, <4>2
      <4>4. IsFiniteSet(ats)
        <5> DEFINE D == DOMAIN fresh[i]
                   f == [s \in D |-> fresh[i][s].at]
        <5>1. f \in Surjection(D, ats)
          BY DEF Surjection
        <5> HIDE DEF D, f, ats
        <5> QED BY <4>2, <5>1, FS_Surjection DEF D
      <4>5. Max(ats) \in ats
        <5> HIDE DEF ats
        <5> QED BY <4>3, <4>4, GreatestOf
      <4> QED BY <4>3, <4>5
    <3> HIDE DEF ats, mine, x
    <3>4. x.at = 0 /\ x.basis = Max(ats) /\ x.congestion = mine
          /\ x = [at |-> x.at, congestion |-> x.congestion, basis |-> x.basis]
      BY <3>2
    <3>5. x.at >= 0 - Window => x.basis >= x.at - Window
      BY <3>3, <3>4
    <3>6. AllFresh(samples'[i]) /\ Estimable(samples'[i])
          /\ mine = RatioToCongestion(MedianRatio(samples'[i]))
      BY <1>5, <1>6, <3>1 DEF mine
    <3>7. IsEstimate(i, x, samples'[i])
      BY <3>1, <3>3, <3>4, <3>5, <3>6 DEF IsEstimate
    <3> QED BY <3>7 DEF x
  <2>2. CASE i \notin new
    <3>1. i \in DOMAIN estimates /\ x = estimates[i]
      BY <1>7, <2>2
    <3>2. IsEstimate(i, x, samples[i])
      BY <3>1 DEF EstimateInv
    <3>3. x.at # 0
      <4> SUFFICES ASSUME x.at = 0
                   PROVE  FALSE
        OBVIOUS
      <4>1. i \in Intersection /\ AllFresh(samples[i]) /\ Estimable(samples[i])
        BY <3>2 DEF IsEstimate
      <4>2. Sampled(samples[i]) /\ DOMAIN samples[i] \subseteq DOMAIN fresh[i]
        BY <1>4, <1>5, <4>1 DEF SampleInv
      <4>3. Estimable(fresh[i])
        BY <1>5, <4>1, <4>2, MoreSourcesWeighMore
      <4> QED BY <1>2, <2>2, <4>1, <4>3
    <3> QED BY <3>2, <3>3 DEF IsEstimate
  <2> QED BY <2>1, <2>2
<1>10. EstimateInv'
  BY <1>9 DEF EstimateInv
<1> QED BY <1>8, <1>10

LEMMA PassKeepsSensing ==
  ASSUME FeedInv, SensingInv, Pass
  PROVE  SensingInv'
<1>1. \A at \in Int : \A n \in Nat : Aged(at, n) \in Int
  BY DEF Aged
<1>2. \A v : IsFix(v) => IsFix(OlderFix(v))
  BY <1>1, TickAssumption DEF IsFix, OlderFix
<1>3. FixInv'
  <2>1. cache'.value = OlderFix(cache.value) /\ answer' = [t \in Caller |-> OlderFix(answer[t])]
    BY DEF Pass, CacheAges, FeedInv, CacheTyped
  <2>2. IsFix(cache'.value) /\ \A t \in Caller : IsFix(answer'[t])
    BY <1>2, <2>1 DEF SensingInv, FixInv
  <2> QED BY <2>1, <2>2 DEF FixInv, IsFix
<1>4. VehicleInv'
  <2>1. /\ DOMAIN vehicles' = DOMAIN vehicles
        /\ \A v \in DOMAIN vehicles :
             vehicles'[v] = [vehicles[v] EXCEPT !.at = Aged(vehicles[v].at, PruneAge)]
    BY DEF Pass
  <2>2. ASSUME NEW v \in DOMAIN vehicles
        PROVE  /\ vehicles'[v] = [at |-> vehicles'[v].at, moving |-> vehicles'[v].moving]
               /\ vehicles'[v].at \in Int
    <3> DEFINE x == vehicles[v]
               y == vehicles'[v]
    <3>1. x = [at |-> x.at, moving |-> x.moving] /\ x.at \in Int
      BY DEF SensingInv, VehicleInv
    <3>2. y = [x EXCEPT !.at = Aged(x.at, PruneAge)]
      BY <2>1
    <3> HIDE DEF x, y
    <3>3. y = [at |-> Aged(x.at, PruneAge), moving |-> x.moving]
      BY <3>1, <3>2
    <3>4. y = [at |-> y.at, moving |-> y.moving] /\ y.at \in Int
      BY <1>1, <3>1, <3>3, TickAssumption
    <3> QED BY <3>4 DEF y
  <2> QED BY <2>1, <2>2 DEF SensingInv, VehicleInv
<1>5. SampleInv'
  <2>1. \A i \in Intersection :
          /\ DOMAIN samples'[i] = DOMAIN samples[i]
          /\ \A s \in DOMAIN samples[i] :
               samples'[i][s] = [samples[i][s] EXCEPT !.at = Aged(samples[i][s].at, Window)]
    BY DEF Pass
  <2>2. DOMAIN samples' = Intersection
    BY DEF Pass
  <2>3. ASSUME NEW i \in Intersection, NEW s \in DOMAIN samples[i]
        PROVE  IsSample(s, samples'[i][s])
    <3> DEFINE x == samples[i][s]
               y == samples'[i][s]
    <3>1. IsSample(s, x)
      BY DEF SensingInv, SampleInv, Sampled
    <3>2. y = [x EXCEPT !.at = Aged(x.at, Window)]
      BY <2>1
    <3> HIDE DEF x, y
    <3>3. y = [ratio |-> x.ratio, weight |-> KindWeight(s[1]), at |-> Aged(x.at, Window)]
      BY <3>1, <3>2 DEF IsSample
    <3>4. IsSample(s, y)
      BY <1>1, <3>1, <3>3, EstimatorAssumption DEF IsSample
    <3> QED BY <3>4 DEF y
  <2>4. \A i \in Intersection : Sampled(samples'[i])
    BY <2>1, <2>3 DEF SensingInv, SampleInv, Sampled
  <2> QED BY <2>2, <2>4 DEF SampleInv, Sampled, IsSample
<1>6. EstimateInv'
  <2>1. /\ DOMAIN estimates' = DOMAIN estimates
        /\ \A i \in DOMAIN estimates :
             estimates'[i] = [estimates[i] EXCEPT !.at = Aged(estimates[i].at, Window),
                                                  !.basis = Aged(estimates[i].basis, 2 * Window)]
    BY DEF Pass
  <2>2. ASSUME NEW i \in DOMAIN estimates
        PROVE  IsEstimate(i, estimates'[i], samples'[i])
    <3> DEFINE x == estimates[i]
               y == estimates'[i]
    <3>1. IsEstimate(i, x, samples[i])
      BY DEF SensingInv, EstimateInv
    <3>2. y = [x EXCEPT !.at = Aged(x.at, Window), !.basis = Aged(x.basis, 2 * Window)]
      BY <2>1
    <3> HIDE DEF x, y
    <3>3. y = [at |-> Aged(x.at, Window), congestion |-> x.congestion,
               basis |-> Aged(x.basis, 2 * Window)]
      BY <3>1, <3>2 DEF IsEstimate
    <3>4. /\ x.at \in Int /\ x.at <= 0 /\ x.basis \in Int /\ i \in Intersection
          /\ x.at >= 0 - Window => x.basis >= x.at - Window
          /\ Window \in Nat
      BY <3>1, EstimatorAssumption DEF IsEstimate
    <3>5. /\ Aged(x.at, Window) \in Int /\ Aged(x.at, Window) < 0
          /\ Aged(x.basis, 2 * Window) \in Int
          /\ Aged(x.at, Window) >= 0 - Window =>
               Aged(x.basis, 2 * Window) >= Aged(x.at, Window) - Window
      BY <3>4 DEF Aged
    <3>6. IsEstimate(i, y, samples'[i])
      BY <3>3, <3>4, <3>5 DEF IsEstimate
    <3> QED BY <3>6 DEF y
  <2> QED BY <2>1, <2>2 DEF EstimateInv
<1> QED BY <1>3, <1>4, <1>5, <1>6 DEF SensingInv, Pass

LEMMA SensingSteps == FeedInv /\ SensingInv /\ [Next]_vars => SensingInv'
<1> SUFFICES ASSUME FeedInv, SensingInv, [Next]_vars
             PROVE  SensingInv'
  OBVIOUS
<1> USE DEF SensingInv
<1>1. UNCHANGED <<cache, answer>> => FixInv'
  BY DEF FixInv, IsFix
<1>2. UNCHANGED vehicles => VehicleInv'
  BY DEF VehicleInv
<1>3. UNCHANGED samples => SampleInv'
  BY DEF SampleInv, Sampled, IsSample
<1>4. UNCHANGED <<samples, estimates>> => EstimateInv'
  BY DEF EstimateInv
<1>5. UNCHANGED feed => UNCHANGED <<cache, answer>>
  BY DEF feed
<1>6. ASSUME NEW t \in Caller, Capture(t) \/ Step(t)
      PROVE  SensingInv'
  <2>1. CASE Capture(t)
    BY <1>1, <1>2, <1>3, <1>4, <1>5, <2>1 DEF Capture, Goes
  <2>2. CASE Poll(t) /\ ~Polled(t)
    <3>1. UNCHANGED tick
      BY <2>2 DEF Poll, PollFails
    <3>2. FixInv'
      BY <2>2, PollKeepsFixes DEF Poll, PollFails
    <3> QED BY <1>2, <1>3, <1>4, <3>1, <3>2 DEF tick
  <2>3. CASE Polled(t)
    <3>1. FixInv' /\ UNCHANGED <<samples, estimates>>
      BY <2>3, PollKeepsFixes DEF Polled
    <3> QED BY <1>3, <1>4, <2>3, <3>1, PolledKeepsVehicles
  <2>4. CASE Reports(t)
    <3>0. PICK buses \in SUBSET Bus : \E fixes \in [buses -> Lags] : Fetched(t, fixes)
      BY <2>4 DEF Reports
    <3>1. PICK fixes \in [buses -> Lags] : Fetched(t, fixes)
      BY <3>0
    <3>2. IsFix(fixes)
      BY <3>1, TickAssumption DEF IsFix
    <3>3. FixInv' /\ UNCHANGED tick
      BY <2>4, <3>1, <3>2, FetchKeepsFixes DEF Reports
    <3> QED BY <1>2, <1>3, <1>4, <3>3 DEF tick
  <2>5. CASE Prune(t)
    <3>1. UNCHANGED <<feed, samples, estimates>>
      BY <2>5 DEF Prune
    <3> QED BY <1>1, <1>3, <1>4, <1>5, <2>5, <3>1, PruneKeepsVehicles
  <2>6. CASE Sense(t)
    <3>1. UNCHANGED <<feed, vehicles>> /\ DOMAIN pc' = Caller
      BY <2>6 DEF Sense, GoesTearing
    <3> QED BY <1>1, <1>2, <1>5, <2>6, <3>1, SenseKeepsEstimates
  <2>7. CASE Publish(t)
    BY <1>1, <1>2, <1>3, <1>4, <1>5, <2>7 DEF Publish, Goes
  <2>8. CASE Settle(t)
    BY <1>1, <1>2, <1>3, <1>4, <1>5, <2>8 DEF Settle, Goes
  <2> QED BY <1>6, <2>1, <2>2, <2>3, <2>4, <2>5, <2>6, <2>7, <2>8 DEF Step
<1>7. CASE Pass
  BY <1>7, PassKeepsSensing
<1>8. CASE UNCHANGED vars
  BY <1>1, <1>2, <1>3, <1>4, <1>5, <1>8 DEF vars, tick
<1> QED BY <1>6, <1>7, <1>8 DEF Next

-----------------------------------------------------------------------------
(* The median holds against any single source that weighs less than the    *)
(* others together (congestion.py:45-46), whatever the feeds report and    *)
(* however the ticks of any number of threads interleave.                  *)
LEMMA EstimatesResistMinorities == SensingInv => MinorityCannotMove
<1> SUFFICES ASSUME SensingInv, NEW i \in DOMAIN estimates, NEW s \in DOMAIN samples[i],
                    estimates[i].at = 0, 2 * samples[i][s].weight < Weight(samples[i])
             PROVE  LET others == {samples[i][x].ratio : x \in DOMAIN samples[i] \ {s}} IN
                    estimates[i].congestion \in
                      RatioToCongestion(Max(others))..RatioToCongestion(Min(others))
  BY DEF MinorityCannotMove
<1> DEFINE others == {samples[i][x].ratio : x \in DOMAIN samples[i] \ {s}}
           m == MedianRatio(samples[i])
           lo == Min(others)
           hi == Max(others)
<1>1. i \in Intersection /\ estimates[i].congestion = RatioToCongestion(m)
  BY DEF SensingInv, EstimateInv, IsEstimate
<1>2. AreSamples(samples[i])
  BY <1>1, SampledAreSamples DEF SensingInv, SampleInv
<1>3. /\ others \in SUBSET Int /\ IsFiniteSet(others) /\ others # {}
      /\ m \in lo..hi
  BY <1>2, MinorityOfMedian
<1>4. lo \in Int /\ hi \in Int
  <2> HIDE DEF others
  <2> QED BY <1>3, GreatestOf, LeastOf
<1> HIDE DEF m, lo, hi
<1>5. m \in Int /\ lo <= m /\ m <= hi
  BY <1>3, <1>4
<1>6. RatioToCongestion(m) \in RatioToCongestion(hi)..RatioToCongestion(lo)
  BY <1>4, <1>5, CongestionFalls
<1> QED BY <1>1, <1>6 DEF lo, hi

(* "robust to a single outlier probe": no minority source moves an         *)
(* estimate out of what the other sources say.                             *)
THEOREM MinoritiesMoveNothing == Spec => []MinorityCannotMove
<1>1. Init => FeedInv /\ SensingInv
  BY FeedStarts, SensingStarts DEF Init
<1>2. FeedInv /\ SensingInv /\ [Next]_vars => (FeedInv /\ SensingInv)'
  BY FeedSteps, SensingSteps
<1> QED BY <1>1, <1>2, EstimatesResistMinorities, PTL DEF Spec

(* Only the end of a publication takes a thread to settlement. *)
LEMMA OnlyPublishSettles ==
  ASSUME SensingInv, Next, NEW t \in Caller, pc[t] = "publish", pc'[t] = "settle"
  PROVE  real' = FreshIds(estimates, 0)
<1> USE DEF SensingInv
<1>1. ASSUME NEW u \in Caller, Capture(u) \/ Step(u)
      PROVE  real' = FreshIds(estimates, 0)
  <2>1. CASE Publish(u)
    BY <2>1 DEF Publish
  <2>2. CASE Capture(u) \/ Sense(u) \/ Settle(u)
    BY <2>2 DEF Capture, Sense, Settle, Goes, GoesTearing
  <2>3. CASE Prune(u) \/ Polled(u)
    BY <2>3 DEF Prune, Polled, Updated, GoesTearing
  <2>4. CASE (Poll(u) /\ ~Polled(u)) \/ Reports(u)
    BY <2>4 DEF Poll, PollFails, Reports, tick
  <2> QED BY <1>1, <2>1, <2>2, <2>3, <2>4 DEF Step
<1>2. CASE Pass
  BY <1>2 DEF Pass
<1> QED BY <1>1, <1>2 DEF Next

(* What a tick protects from the simulation rests on a sample stamped at   *)
(* most two windows ago (engine.py:271-274), for any number of threads.    *)
(* The stamp of a speed is the time of the bus's fix if the feed dates it, *)
(* otherwise that of the last poll that got the fix, stale answers too     *)
(* (adapters.py:381): then the theorem bounds no age of the fix.           *)
THEOREM ProtectionRestsOnEvidence == Spec => EvidenceBounded
<1>1. Init => FeedInv /\ SensingInv
  BY FeedStarts, SensingStarts DEF Init
<1>2. FeedInv /\ SensingInv /\ [Next]_vars => (FeedInv /\ SensingInv)'
  BY FeedSteps, SensingSteps
<1>3. SensingInv /\ [Next]_vars =>
        [(\E t \in Caller : pc[t] = "publish" /\ pc'[t] = "settle") =>
           \A i \in real' : 0 - estimates[i].basis <= 2 * Window]_vars
  <2> SUFFICES ASSUME SensingInv, Next, NEW t \in Caller,
                      pc[t] = "publish", pc'[t] = "settle", NEW i \in real'
               PROVE  0 - estimates[i].basis <= 2 * Window
    OBVIOUS
  <2>1. i \in DOMAIN estimates /\ estimates[i].at >= 0 - Window
    BY OnlyPublishSettles DEF FreshIds
  <2>2. /\ estimates[i].at \in Int /\ estimates[i].basis \in Int
        /\ estimates[i].basis >= estimates[i].at - Window
    BY <2>1 DEF SensingInv, EstimateInv, IsEstimate
  <2> QED BY <2>1, <2>2, EstimatorAssumption
<1> QED BY <1>1, <1>2, <1>3, PTL DEF Spec, EvidenceBounded
=============================================================================
