---------------------------- MODULE TimingProofs ----------------------------
(***************************************************************************)
(* Proofs about the rules and about the timing of one signal, for every    *)
(* timing, every operation list and every number of changes.               *)
(*                                                                         *)
(* The invariant is about every timing in force or on record, because a    *)
(* rollback puts a recorded one in force: each is of this signal, and is   *)
(* configured, legal, or legal once repetitions are taken off again.  That *)
(* applications add up (AppliedTwice) is what makes a second visit to the  *)
(* signal a repetition of the one application that was verified.           *)
(***************************************************************************)
EXTENDS SignalTiming, FiniteSetTheorems, WellFoundedInduction, TLAPS

-----------------------------------------------------------------------------
(* Sums.  SumFunction takes out one element after another, so what it      *)
(* returns is found by induction over subsets, by the smallest exception.  *)

(* g sums f over every subset of S in D, taking out an element at a time,  *)
(* as SumFunction does.                                                    *)
Pick(s) == CHOOSE x \in s : TRUE

Summed(f, D, g) ==
  g = [s \in D |-> IF s = {} THEN 0 ELSE f[Pick(s)] + g[s \ {Pick(s)}]]

Small(S, n) == {s \in SUBSET S : Cardinality(s) <= n}

LEMMA OneLess ==
  ASSUME NEW S, IsFiniteSet(S), NEW s \in SUBSET S, s # {}
  PROVE  /\ Pick(s) \in s /\ s \ {Pick(s)} \in SUBSET S
         /\ Cardinality(s) \in Nat /\ Cardinality(s \ {Pick(s)}) \in Nat
         /\ Cardinality(s \ {Pick(s)}) = Cardinality(s) - 1
<1>1. Pick(s) \in s
  BY DEF Pick
<1>2. IsFiniteSet(s)
  BY FS_Subset
<1> DEFINE r == s \ {Pick(s)}
<1>3. IsFiniteSet(r) /\ Cardinality(r) = Cardinality(s) - 1
  BY <1>1, <1>2, FS_RemoveElement
<1> QED BY <1>1, <1>2, <1>3, FS_CardinalityType

(* Induction over the subsets of a finite set, by the smallest exception.  *)
LEMMA EverySubset ==
  ASSUME NEW S, IsFiniteSet(S), NEW Good, {} \in Good,
         \A s \in SUBSET S : s # {} /\ s \ {Pick(s)} \in Good => s \in Good
  PROVE  SUBSET S \subseteq Good
<1> DEFINE Rel == StrictSubsetOrdering(S)
           Bad == (SUBSET S) \ Good
<1>1. IsWellFoundedOn(Rel, SUBSET S)
  BY FS_FiniteSubsetsOfFinite, FS_StrictSubsetOrderingWellFounded
<1> SUFFICES ASSUME Bad # {} PROVE FALSE
  OBVIOUS
<1>2. Bad \subseteq SUBSET S
  OBVIOUS
<1> HIDE DEF Bad, Rel
<1>3. PICK s \in Bad : \A t \in Bad : ~ <<t, s>> \in Rel
  BY <1>1, <1>2, WFMin
<1> USE DEF Bad, Rel
<1>4. s \in SUBSET S /\ s # {}
  OBVIOUS
<1>5. s \ {Pick(s)} \in Bad
  BY <1>4
<1>6. Pick(s) \in s
  BY <1>4, OneLess
<1>7. <<s \ {Pick(s)}, s>> \in Rel
  BY <1>4, <1>6 DEF StrictSubsetOrdering
<1> QED BY <1>3, <1>5, <1>7

(* The natural numbers up to N. *)
LEMMA EveryNumber ==
  ASSUME NEW N \in Nat, NEW Good, 0 \in Good,
         \A n \in Nat : n \in Good => n + 1 \in Good
  PROVE  N \in Good
<1> DEFINE S == 1..N
           All == {s \in SUBSET S : Cardinality(s) \in Good}
<1>1. IsFiniteSet(S) /\ Cardinality(S) = N
  BY FS_Interval
<1> HIDE DEF S
<1>2. SUBSET S \subseteq All
  <2>1. {} \in All
    BY FS_EmptySet
  <2>2. ASSUME NEW s \in SUBSET S, s # {}, s \ {Pick(s)} \in All
        PROVE  s \in All
    <3>1. /\ Cardinality(s) \in Nat /\ Cardinality(s \ {Pick(s)}) \in Nat
          /\ Cardinality(s \ {Pick(s)}) = Cardinality(s) - 1
      BY <1>1, <2>2, OneLess
    <3>2. Cardinality(s \ {Pick(s)}) + 1 \in Good
      BY <2>2, <3>1
    <3> QED BY <3>1, <3>2
  <2> HIDE DEF All
  <2> QED BY <1>1, <2>1, <2>2, EverySubset
<1> QED BY <1>1, <1>2

LEMMA SumExists ==
  ASSUME NEW S, IsFiniteSet(S), NEW f
  PROVE  \E g : Summed(f, SUBSET S, g)
<1> DEFINE Good == {n \in Nat : \E g : Summed(f, Small(S, n), g)}
<1>0. \A s \in SUBSET S : Cardinality(s) \in Nat /\ (Cardinality(s) = 0 <=> s = {})
  BY FS_Subset, FS_CardinalityType, FS_EmptySet
<1>1. 0 \in Good
  <2> DEFINE g == [s \in Small(S, 0) |-> 0]
  <2>1. \A s \in Small(S, 0) : s = {}
    BY <1>0 DEF Small
  <2>2. Summed(f, Small(S, 0), g)
    BY <2>1 DEF Summed
  <2> QED BY <2>2
<1>2. ASSUME NEW n \in Nat, n \in Good
      PROVE  n + 1 \in Good
  <2>1. PICK g : Summed(f, Small(S, n), g)
    BY <1>2
  <2> DEFINE h == [s \in Small(S, n + 1) |->
                     IF s = {} THEN 0 ELSE f[Pick(s)] + g[s \ {Pick(s)}]]
  <2>2. \A s \in Small(S, n + 1) : s # {} => s \ {Pick(s)} \in Small(S, n)
    BY OneLess DEF Small
  <2>3. \A s \in Small(S, n) : s \in Small(S, n + 1)
    BY <1>0 DEF Small
  <2>4. \A s \in Small(S, n) : h[s] = g[s]
    BY <2>1, <2>3 DEF Summed
  <2>5. \A s \in Small(S, n + 1) :
          h[s] = IF s = {} THEN 0 ELSE f[Pick(s)] + h[s \ {Pick(s)}]
    BY <2>2, <2>4
  <2>6. h = [s \in Small(S, n + 1) |-> h[s]]
    OBVIOUS
  <2> HIDE DEF h
  <2>7. Summed(f, Small(S, n + 1), h)
    BY <2>5, <2>6 DEF Summed
  <2> QED BY <2>7
<1>3. Cardinality(S) \in Good
  <2>1. Cardinality(S) \in Nat
    BY FS_CardinalityType
  <2> HIDE DEF Good
  <2> QED BY <1>1, <1>2, <2>1, EveryNumber
<1>4. Small(S, Cardinality(S)) = SUBSET S
  BY FS_Subset, FS_CardinalityType DEF Small
<1> QED BY <1>3, <1>4

(* What SumFunction is over the domain of f. *)
LEMMA SumIs ==
  ASSUME NEW f, IsFiniteSet(DOMAIN f)
  PROVE  \E g : Summed(f, SUBSET (DOMAIN f), g) /\ SumFunction(f) = g[DOMAIN f]
<1> DEFINE g == CHOOSE g : Summed(f, SUBSET (DOMAIN f), g)
<1>1. SumFunction(f) = g[DOMAIN f]
  BY DEF SumFunction, SumFunctionOnSet, FoldFunctionOnSet, MapThenFoldSet, Summed, Pick
<1>2. Summed(f, SUBSET (DOMAIN f), g)
  BY SumExists
<1> QED BY <1>1, <1>2

(* A sum is in every set that has zero and is closed under the additions.  *)
LEMMA SumWithin ==
  ASSUME NEW f, IsFiniteSet(DOMAIN f), NEW T, 0 \in T,
         \A x \in DOMAIN f, a \in T : f[x] + a \in T
  PROVE  SumFunction(f) \in T
<1>1. PICK g : Summed(f, SUBSET (DOMAIN f), g) /\ SumFunction(f) = g[DOMAIN f]
  BY SumIs
<1> DEFINE Good == {s \in SUBSET (DOMAIN f) : g[s] \in T}
<1>2. \A s \in SUBSET (DOMAIN f) :
        g[s] = IF s = {} THEN 0 ELSE f[Pick(s)] + g[s \ {Pick(s)}]
  BY <1>1 DEF Summed
<1>3. {} \in Good
  BY <1>2
<1>4. \A s \in SUBSET (DOMAIN f) : s # {} /\ s \ {Pick(s)} \in Good => s \in Good
  BY <1>2, OneLess
<1> HIDE DEF Good
<1>5. SUBSET (DOMAIN f) \subseteq Good
  BY <1>3, <1>4, EverySubset
<1> QED BY <1>1, <1>5 DEF Good

(* The sum over one element. *)
LEMMA SumOfOne ==
  ASSUME NEW f, NEW x, DOMAIN f = {x}, f[x] \in Int
  PROVE  SumFunction(f) = f[x]
<1>1. IsFiniteSet(DOMAIN f)
  BY FS_Singleton
<1>2. PICK g : Summed(f, SUBSET (DOMAIN f), g) /\ SumFunction(f) = g[DOMAIN f]
  BY <1>1, SumIs
<1>3. \A s \in SUBSET {x} :
        g[s] = IF s = {} THEN 0 ELSE f[Pick(s)] + g[s \ {Pick(s)}]
  BY <1>2 DEF Summed
<1>4. Pick({x}) = x
  BY DEF Pick
<1>5. {} \in SUBSET {x} /\ {x} \in SUBSET {x} /\ {x} \ {x} = {}
  OBVIOUS
<1>6. g[{}] = 0
  BY <1>3, <1>5
<1>7. g[{x}] = f[x] + g[{x} \ {x}]
  BY <1>3, <1>4, <1>5
<1>8. g[{x}] = f[x] + 0
  BY <1>5, <1>6, <1>7
<1>9. f[x] + 0 = f[x]
  OBVIOUS
<1> QED BY <1>2, <1>8, <1>9
-----------------------------------------------------------------------------
(* The timing with phase k extended by d. *)
Longer1(t, k, d) == Added(t, [j \in DOMAIN t.phases |-> IF j = k THEN d ELSE 0], d)

-----------------------------------------------------------------------------
(* An extension lengthens the cycle and one green, and nothing else.       *)
LEMMA ExtensionChanges ==
  ASSUME NEW t, IsTiming(t), NEW k \in DOMAIN t.phases, NEW d \in Nat
  PROVE  LET u == Longer1(t, k, d) IN
         /\ u.cycle = t.cycle + d
         /\ u.walk = t.walk /\ u.crosswalk = t.crosswalk /\ u.slow = t.slow
         /\ DOMAIN u.phases = DOMAIN t.phases
         /\ \A j \in DOMAIN t.phases :
              /\ u.phases[j].green = IF j = k THEN t.phases[j].green + d
                                              ELSE t.phases[j].green
              /\ u.phases[j].movement = t.phases[j].movement
              /\ u.phases[j].yellow = t.phases[j].yellow
              /\ u.phases[j].red = t.phases[j].red
              /\ u.phases[j].speed = t.phases[j].speed
              /\ u.phases[j].grade = t.phases[j].grade
              /\ u.phases[j].conflicts = t.phases[j].conflicts
<1> DEFINE f == t.phases
           gain == [j \in DOMAIN f |-> IF j = k THEN d ELSE 0]
           g == [j \in DOMAIN f |-> WithGreen(f[j], f[j].green + gain[j])]
<1>1. Longer1(t, k, d) = [t EXCEPT !.cycle = @ + d, !.phases = g]
  BY DEF Longer1, Added
<1>2. Longer1(t, k, d) = [cycle |-> t.cycle + d, phases |-> g, walk |-> t.walk,
                          crosswalk |-> t.crosswalk, slow |-> t.slow]
  BY <1>1 DEF IsTiming
<1>3. ASSUME NEW j \in DOMAIN f
      PROVE  /\ g[j].green = IF j = k THEN f[j].green + d ELSE f[j].green
             /\ g[j].movement = f[j].movement
             /\ g[j].yellow = f[j].yellow
             /\ g[j].red = f[j].red
             /\ g[j].speed = f[j].speed
             /\ g[j].grade = f[j].grade
             /\ g[j].conflicts = f[j].conflicts
  <2>1. f[j] \in SignalPhase
    BY DEF IsTiming
  <2>2. g[j] = WithGreen(f[j], f[j].green + gain[j])
    OBVIOUS
  <2>3. f[j].green + gain[j] = IF j = k THEN f[j].green + d ELSE f[j].green
    BY <2>1 DEF SignalPhase
  <2> QED
    BY <2>1, <2>2, <2>3 DEF SignalPhase, WithGreen
<1>4. DOMAIN g = DOMAIN f
  OBVIOUS
<1> DEFINE u == Longer1(t, k, d)
<1> HIDE DEF g
<1>5. /\ u.cycle = t.cycle + d /\ u.phases = g /\ u.walk = t.walk
      /\ u.crosswalk = t.crosswalk /\ u.slow = t.slow
  BY <1>2
<1> HIDE DEF u
<1>6. \A j \in DOMAIN t.phases :
         /\ u.phases[j].green = IF j = k THEN t.phases[j].green + d
                                         ELSE t.phases[j].green
         /\ u.phases[j].movement = t.phases[j].movement
         /\ u.phases[j].yellow = t.phases[j].yellow
         /\ u.phases[j].red = t.phases[j].red
         /\ u.phases[j].speed = t.phases[j].speed
         /\ u.phases[j].grade = t.phases[j].grade
         /\ u.phases[j].conflicts = t.phases[j].conflicts
  BY <1>3, <1>5
<1>7. DOMAIN u.phases = DOMAIN t.phases
  BY <1>4, <1>5
<1> QED
  BY <1>5, <1>6, <1>7 DEF u

(* The two facts the rules use of a phase are unchanged when its green is  *)
(* all that changed.                                                       *)
LEMMA SameYellow ==
  ASSUME NEW f, NEW g, f.yellow = g.yellow, f.speed = g.speed, f.grade = g.grade
  PROVE  YellowMet(f) <=> YellowMet(g)
BY DEF YellowMet, Braking

(* A green extension of a legal timing in which no phase conflicts with    *)
(* itself is legal exactly when it fits under the longest cycle and the    *)
(* longest phase (safety.py:81-83, rulepacks.py R1-R5): the headroom       *)
(* PlanLifecycle counts with is all there is.                              *)
THEOREM ExtensionLegal ==
  ASSUME NEW t, IsTiming(t), Legal(t), NoSelfConflict(t),
         NEW k \in DOMAIN t.phases, NEW d \in Nat
  PROVE  Legal(Longer1(t, k, d)) <=> Fits(t, k, d)
<1> DEFINE u == Longer1(t, k, d)
<1>0. \A j \in DOMAIN t.phases : t.phases[j] \in SignalPhase
  BY DEF IsTiming
<1>1. /\ u.cycle = t.cycle + d
      /\ u.walk = t.walk /\ u.crosswalk = t.crosswalk /\ u.slow = t.slow
      /\ DOMAIN u.phases = DOMAIN t.phases
  BY ExtensionChanges
<1>2. \A j \in DOMAIN t.phases :
        /\ u.phases[j].green = IF j = k THEN t.phases[j].green + d
                                        ELSE t.phases[j].green
        /\ u.phases[j].movement = t.phases[j].movement
        /\ u.phases[j].yellow = t.phases[j].yellow
        /\ u.phases[j].red = t.phases[j].red
        /\ u.phases[j].speed = t.phases[j].speed
        /\ u.phases[j].grade = t.phases[j].grade
        /\ u.phases[j].conflicts = t.phases[j].conflicts
  BY ExtensionChanges
<1> HIDE DEF u
<1>3. \A j \in DOMAIN t.phases :
        /\ t.phases[j].green \in Int /\ t.phases[j].yellow \in Int
        /\ t.phases[j].red \in Int
  BY <1>0 DEF SignalPhase
<1>4. \A j \in DOMAIN t.phases :
        Service(u.phases[j]) = IF j = k THEN Service(t.phases[j]) + d
                                        ELSE Service(t.phases[j])
  BY <1>2, <1>3 DEF Service
<1>5. \A j \in DOMAIN t.phases : Service(t.phases[j]) \in Int
  BY <1>3 DEF Service
<1>6. \A j \in DOMAIN t.phases : MinGreen(u.phases[j]) = MinGreen(t.phases[j])
  BY <1>2 DEF MinGreen
<1>7. \A j \in DOMAIN t.phases : MinGreen(t.phases[j]) \in Int
  BY DEF MinGreen, MinGreenLeft, MinGreenThrough
<1>8. R1(u)
  BY <1>1, <1>2, <1>3, <1>6, <1>7 DEF Legal, R1
<1>9. R2(u)
  <2>1. Crossing(u) = Crossing(t)
    BY <1>1 DEF Crossing
  <2>2. t.walk + Crossing(t) \in Int
    BY DEF Crossing, IsTiming
  <2>3. {j \in DOMAIN u.phases : u.phases[j].movement = "through"}
          = {j \in DOMAIN t.phases : t.phases[j].movement = "through"}
    BY <1>1, <1>2
  <2>4. \A j \in DOMAIN t.phases : Service(u.phases[j]) >= Service(t.phases[j])
    BY <1>4, <1>5
  <2>5. \A j \in DOMAIN t.phases : Service(u.phases[j]) \in Int
    BY <1>4, <1>5
  <2>6. \A j \in DOMAIN t.phases : Service(t.phases[j]) >= t.walk + Crossing(t)
                                     => Service(u.phases[j]) >= u.walk + Crossing(u)
    BY <1>1, <1>5, <2>1, <2>2, <2>4, <2>5
  <2> QED
    BY <1>1, <2>3, <2>6 DEF Legal, R2
<1>10. R3(u)
  BY <1>1, <1>2, SameYellow DEF Legal, R3
<1>11. R4(u)
  <2> SUFFICES ASSUME NEW a \in DOMAIN t.phases, NEW b \in DOMAIN t.phases,
                      b \in u.phases[a].conflicts
               PROVE  Service(u.phases[a]) + Service(u.phases[b]) <= u.cycle
    BY <1>1 DEF R4, ConflictPairs
  <2>1. b \in t.phases[a].conflicts
    BY <1>2
  <2>2. a # b
    BY <2>1 DEF NoSelfConflict
  <2>3. <<a, b>> \in ConflictPairs(t)
    BY <2>1 DEF ConflictPairs
  <2>4. Service(t.phases[a]) + Service(t.phases[b]) <= t.cycle
    BY <2>3 DEF Legal, R4
  <2> QED
    BY <1>1, <1>4, <1>5, <2>2, <2>4 DEF IsTiming
<1>12. R5(u) <=> Fits(t, k, d)
  <2>1. t.cycle \in Int
    BY DEF IsTiming
  <2>2. /\ MinCycle <= t.cycle /\ t.cycle <= MaxCycle
        /\ \A j \in DOMAIN t.phases :
             /\ t.phases[j].green <= MaxPhase
             /\ t.phases[j].green >= MinGreen(t.phases[j])
                  => t.phases[j].green >= MinPhase
    BY DEF Legal, R5
  <2>3. \A j \in DOMAIN t.phases : t.phases[j].green >= MinPhase
    BY <2>2 DEF Legal, R1
  <2>4. ASSUME Fits(t, k, d) PROVE R5(u)
    <3>1. \A j \in DOMAIN t.phases : u.phases[j].green <= MaxPhase
      BY <1>2, <1>3, <2>2, <2>4 DEF Fits, MaxPhase
    <3>2. \A j \in DOMAIN t.phases : u.phases[j].green >= MinPhase
      BY <1>2, <1>3, <2>3 DEF MinPhase
    <3>3. MinCycle <= u.cycle /\ u.cycle <= MaxCycle
      BY <1>1, <2>1, <2>2, <2>4 DEF Fits, MinCycle, MaxCycle
    <3> QED
      BY <1>1, <3>1, <3>2, <3>3 DEF R5
  <2>5. ASSUME R5(u) PROVE Fits(t, k, d)
    BY <1>1, <1>2, <2>5 DEF Fits, R5
  <2> QED
    BY <2>4, <2>5
<1> QED
  BY <1>8, <1>9, <1>10, <1>11, <1>12 DEF Legal, u

-----------------------------------------------------------------------------
(* The fields a timing has, whatever their values.                         *)
Shape(t) ==
  /\ t = [cycle |-> t.cycle, phases |-> t.phases, walk |-> t.walk,
          crosswalk |-> t.crosswalk, slow |-> t.slow]
  /\ t.phases = [k \in DOMAIN t.phases |->
        [movement |-> t.phases[k].movement, green |-> t.phases[k].green,
         yellow |-> t.phases[k].yellow, red |-> t.phases[k].red,
         speed |-> t.phases[k].speed, conflicts |-> t.phases[k].conflicts,
         grade |-> t.phases[k].grade]]

(* Two timings of one signal: they differ in cycle and greens at most.     *)
SameSignal(t, u) ==
  /\ t.walk = u.walk /\ t.crosswalk = u.crosswalk /\ t.slow = u.slow
  /\ DOMAIN t.phases = DOMAIN u.phases
  /\ \A k \in DOMAIN t.phases :
       /\ t.phases[k].movement = u.phases[k].movement
       /\ t.phases[k].yellow = u.phases[k].yellow
       /\ t.phases[k].red = u.phases[k].red
       /\ t.phases[k].speed = u.phases[k].speed
       /\ t.phases[k].conflicts = u.phases[k].conflicts
       /\ t.phases[k].grade = u.phases[k].grade

(* A timing that may be in force, or on record for a rollback, at a signal *)
(* configured with c.                                                      *)
Sound(t, c) ==
  IsTiming(t) /\ SameSignal(t, c) /\ (t = c \/ Legal(t) \/ Repeated(t))

(* The inductive invariant: what is on record is sound too, so bringing it *)
(* back is.                                                                *)
IInv ==
  /\ IsTiming(configured)
  /\ Sound(timing, configured)
  /\ \A n \in DOMAIN prior : Sound(prior[n], configured)

(* What EXCEPT makes of a phase. *)
LEMMA PhaseExcept ==
  ASSUME NEW m, NEW g, NEW y, NEW r, NEW v, NEW x, NEW e, NEW h
  PROVE  [[movement |-> m, green |-> g, yellow |-> y, red |-> r, speed |-> v,
           conflicts |-> x, grade |-> e] EXCEPT !.green = h]
          = [movement |-> m, green |-> h, yellow |-> y, red |-> r, speed |-> v,
             conflicts |-> x, grade |-> e]
OBVIOUS

LEMMA PhaseOfSound ==
  ASSUME NEW t, Shape(t), NEW k \in DOMAIN t.phases
  PROVE  t.phases[k] =
           [movement |-> t.phases[k].movement, green |-> t.phases[k].green,
            yellow |-> t.phases[k].yellow, red |-> t.phases[k].red,
            speed |-> t.phases[k].speed, conflicts |-> t.phases[k].conflicts,
            grade |-> t.phases[k].grade]
BY DEF Shape

LEMMA PhaseRegreened ==
  ASSUME NEW t, Shape(t), NEW k \in DOMAIN t.phases, NEW h
  PROVE  WithGreen(t.phases[k], h) =
           [movement |-> t.phases[k].movement, green |-> h,
            yellow |-> t.phases[k].yellow, red |-> t.phases[k].red,
            speed |-> t.phases[k].speed, conflicts |-> t.phases[k].conflicts,
            grade |-> t.phases[k].grade]
<1>1. WithGreen(t.phases[k], h) =
        [[movement |-> t.phases[k].movement, green |-> t.phases[k].green,
          yellow |-> t.phases[k].yellow, red |-> t.phases[k].red,
          speed |-> t.phases[k].speed, conflicts |-> t.phases[k].conflicts,
          grade |-> t.phases[k].grade] EXCEPT !.green = h]
  BY PhaseOfSound, Zenon DEF WithGreen
<1> QED
  BY <1>1, PhaseExcept, Zenon

LEMMA TimingRegreened ==
  ASSUME NEW t, Shape(t), NEW c, NEW p
  PROVE  [t EXCEPT !.cycle = c, !.phases = p] =
           [cycle |-> c, phases |-> p, walk |-> t.walk,
            crosswalk |-> t.crosswalk, slow |-> t.slow]
<1>1. [t EXCEPT !.cycle = c, !.phases = p] =
        [[cycle |-> t.cycle, phases |-> t.phases, walk |-> t.walk,
          crosswalk |-> t.crosswalk, slow |-> t.slow]
            EXCEPT !.cycle = c, !.phases = p]
  BY Zenon DEF Shape
<1>2. [[cycle |-> t.cycle, phases |-> t.phases, walk |-> t.walk,
        crosswalk |-> t.crosswalk, slow |-> t.slow] EXCEPT !.cycle = c]
        = [cycle |-> c, phases |-> t.phases, walk |-> t.walk,
           crosswalk |-> t.crosswalk, slow |-> t.slow]
  OBVIOUS
<1>3. [[cycle |-> c, phases |-> t.phases, walk |-> t.walk,
        crosswalk |-> t.crosswalk, slow |-> t.slow] EXCEPT !.phases = p]
        = [cycle |-> c, phases |-> p, walk |-> t.walk,
           crosswalk |-> t.crosswalk, slow |-> t.slow]
  OBVIOUS
<1> QED
  BY <1>1, <1>2, <1>3, Zenon

LEMMA ConfiguredHasShape ==
  ASSUME NEW t, IsTiming(t)
  PROVE  Shape(t)
<1> DEFINE f == t.phases
           g == [k \in DOMAIN f |->
                  [movement |-> f[k].movement, green |-> f[k].green,
                   yellow |-> f[k].yellow, red |-> f[k].red,
                   speed |-> f[k].speed, conflicts |-> f[k].conflicts,
                   grade |-> f[k].grade]]
<1>1. \A k \in DOMAIN f : f[k] = g[k]
  BY DEF IsTiming, SignalPhase
<1>2. f = [k \in DOMAIN f |-> f[k]]
  BY DEF IsTiming
<1>3. f = g
  BY <1>1, <1>2
<1> QED
  BY <1>3 DEF Shape, IsTiming

(* Changing the cycle and the greens keeps the shape and the signal.       *)
LEMMA RegreenedIsSameSignal ==
  ASSUME NEW t, Shape(t), NEW u, NEW g, NEW green,
         g = [k \in DOMAIN t.phases |-> WithGreen(t.phases[k], green[k])],
         u.phases = g, NEW c,
         u = [cycle |-> c, phases |-> g, walk |-> t.walk,
              crosswalk |-> t.crosswalk, slow |-> t.slow]
  PROVE  Shape(u) /\ SameSignal(u, t)
<1> DEFINE f == t.phases
<1>1. DOMAIN g = DOMAIN f
  OBVIOUS
<1>2. ASSUME NEW k \in DOMAIN f
      PROVE  /\ g[k] = [movement |-> f[k].movement, green |-> green[k],
                        yellow |-> f[k].yellow, red |-> f[k].red,
                        speed |-> f[k].speed, conflicts |-> f[k].conflicts,
                        grade |-> f[k].grade]
             /\ g[k].movement = f[k].movement /\ g[k].green = green[k]
             /\ g[k].yellow = f[k].yellow /\ g[k].red = f[k].red
             /\ g[k].speed = f[k].speed /\ g[k].conflicts = f[k].conflicts
             /\ g[k].grade = f[k].grade
  <2>1. g[k] = WithGreen(f[k], green[k])
    OBVIOUS
  <2>2. g[k] = [movement |-> f[k].movement, green |-> green[k],
                yellow |-> f[k].yellow, red |-> f[k].red,
                speed |-> f[k].speed, conflicts |-> f[k].conflicts,
                grade |-> f[k].grade]
    BY <2>1, PhaseRegreened
  <2> QED
    BY <2>2
<1>3. g = [k \in DOMAIN g |->
             [movement |-> g[k].movement, green |-> g[k].green,
              yellow |-> g[k].yellow, red |-> g[k].red,
              speed |-> g[k].speed, conflicts |-> g[k].conflicts,
              grade |-> g[k].grade]]
  <2>1. g = [k \in DOMAIN g |-> g[k]]
    OBVIOUS
  <2>2. \A k \in DOMAIN g :
          g[k] = [movement |-> g[k].movement, green |-> g[k].green,
                  yellow |-> g[k].yellow, red |-> g[k].red,
                  speed |-> g[k].speed, conflicts |-> g[k].conflicts,
                  grade |-> g[k].grade]
    BY <1>1, <1>2, Zenon
  <2> QED
    BY <2>1, <2>2
<1>4. /\ u.cycle = c /\ u.walk = t.walk
      /\ u.crosswalk = t.crosswalk /\ u.slow = t.slow
  OBVIOUS
<1>5. Shape(u)
  BY <1>3, <1>4 DEF Shape
<1>6. SameSignal(u, t)
  BY <1>1, <1>2, <1>4 DEF SameSignal
<1> QED
  BY <1>5, <1>6

LEMMA GainsWithin ==
  ASSUME NEW ops \in OperationLists, NEW T, 0 \in T,
         \A n \in DOMAIN ops, a \in T : Gain(ops[n]) + a \in T /\ 0 + a \in T,
         \A n \in DOMAIN ops, a \in T : Longer(ops[n]) + a \in T
  PROVE  LongerBy(ops) \in T /\ \A k : GainOf(ops, k) \in T
<1>1. IsFiniteSet(DOMAIN ops)
  <2>1. DOMAIN ops = 1..Len(ops) /\ Len(ops) \in Nat
    BY OperationsAreTyped
  <2> QED BY <2>1, FS_Interval
<1>2. LongerBy(ops) \in T
  <2> DEFINE f == [n \in DOMAIN ops |-> Longer(ops[n])]
  <2>1. DOMAIN f = DOMAIN ops /\ \A x \in DOMAIN f, a \in T : f[x] + a \in T
    OBVIOUS
  <2> HIDE DEF f
  <2>2. SumFunction(f) \in T
    BY <1>1, <2>1, SumWithin
  <2> QED BY <2>2 DEF LongerBy, f
<1>3. ASSUME NEW k PROVE GainOf(ops, k) \in T
  <2> DEFINE f == [n \in DOMAIN ops |-> IF ops[n].phase = k THEN Gain(ops[n]) ELSE 0]
  <2>1. DOMAIN f = DOMAIN ops /\ \A x \in DOMAIN f, a \in T : f[x] + a \in T
    OBVIOUS
  <2> HIDE DEF f
  <2>2. SumFunction(f) \in T
    BY <1>1, <2>1, SumWithin
  <2> QED BY <2>2 DEF GainOf, f
<1> QED BY <1>2, <1>3

LEMMA Products ==
  /\ \A a, b \in Int : a * b \in Int
  /\ \A a, b \in Nat : a * b \in Nat
  /\ \A a, b, c \in Int : (a + b) * c = a * c + b * c
  /\ \A a \in Int : 1 * a = a /\ 0 * a = 0
OBVIOUS

LEMMA KnownGains ==
  ASSUME NEW t, NEW ops \in OperationLists, Known(t, ops)
  PROVE  /\ LongerBy(ops) \in Int /\ \A k : GainOf(ops, k) \in Int
         /\ R7(ops) => LongerBy(ops) \in Nat /\ \A k : GainOf(ops, k) \in Nat
<1>1. \A n \in DOMAIN ops : /\ ops[n].type \in OpType /\ ops[n].delta \in Int
                           /\ Abs(ops[n].delta) \in Nat
  <2> TAKE n \in DOMAIN ops
  <2> DEFINE Op == [type : STRING, phase : Int, delta : Int]
  <2>0. ops \in Seq(Op)
    BY OperationsAreTyped
  <2>1. ops[n] \in [type : STRING, phase : Int, delta : Int]
    <3> HIDE DEF Op
    <3>1. ops[n] \in Op
      BY <2>0
    <3> QED BY <3>1 DEF Op
  <2>2. ops[n].delta \in Int
    BY <2>1
  <2>3. Abs(ops[n].delta) \in Nat
    BY <2>2 DEF Abs
  <2> QED BY <2>2, <2>3 DEF Known
<1>2. \A n \in DOMAIN ops : Gain(ops[n]) \in Int /\ Longer(ops[n]) \in Int
  BY <1>1 DEF OpType, Gain, Longer
<1>3. R7(ops) => \A n \in DOMAIN ops : Gain(ops[n]) \in Nat /\ Longer(ops[n]) \in Nat
  BY <1>1 DEF OpType, Gain, Longer, R7
<1>4. LongerBy(ops) \in Int /\ \A k : GainOf(ops, k) \in Int
  BY <1>2, GainsWithin
<1>5. ASSUME R7(ops) PROVE LongerBy(ops) \in Nat /\ \A k : GainOf(ops, k) \in Nat
  <2>1. \A n \in DOMAIN ops : Gain(ops[n]) \in Nat /\ Longer(ops[n]) \in Nat
    BY <1>3, <1>5
  <2> DEFINE T == Nat
  <2>2. 0 \in T
    OBVIOUS
  <2>3. \A n \in DOMAIN ops, a \in T : Gain(ops[n]) + a \in T /\ 0 + a \in T
    BY <2>1
  <2>4. \A n \in DOMAIN ops, a \in T : Longer(ops[n]) + a \in T
    BY <2>1
  <2>5. LongerBy(ops) \in T /\ \A k : GainOf(ops, k) \in T
    <3> HIDE DEF T
    <3> QED BY <2>2, <2>3, <2>4, GainsWithin
  <2> QED BY <2>5
<1> QED BY <1>4, <1>5

(* Applying known operations leaves a timing, their gains added.           *)
LEMMA AppliedIsTiming ==
  ASSUME NEW t, IsTiming(t), NEW ops \in OperationLists, Known(t, ops),
         NEW m \in Int
  PROVE  LET u == Applied(t, ops, m) IN
         /\ IsTiming(u) /\ DOMAIN u.phases = DOMAIN t.phases
         /\ u.cycle = t.cycle + m * LongerBy(ops)
         /\ \A k \in DOMAIN t.phases :
              u.phases[k].green = t.phases[k].green + m * GainOf(ops, k)
<1> DEFINE f == t.phases
           gain == [k \in DOMAIN f |-> m * GainOf(ops, k)]
           longer == m * LongerBy(ops)
           g == [k \in DOMAIN f |-> WithGreen(f[k], f[k].green + gain[k])]
           u == Applied(t, ops, m)
<1>1. u = [cycle |-> t.cycle + longer, phases |-> g, walk |-> t.walk,
           crosswalk |-> t.crosswalk, slow |-> t.slow]
  <2>1. u = Added(t, gain, longer)
    BY DEF Applied
  <2> HIDE DEF gain, longer
  <2>2. u = [t EXCEPT !.cycle = @ + longer, !.phases = g]
    BY <2>1 DEF Added
  <2> HIDE DEF g, u
  <2> QED BY <2>2 DEF IsTiming
<1>2. ASSUME NEW k \in DOMAIN f
      PROVE  g[k] \in SignalPhase /\ g[k].green = f[k].green + gain[k]
  <2>1. f[k] \in SignalPhase
    BY DEF IsTiming
  <2>2. gain[k] \in Int
    BY KnownGains, Products
  <2>3. g[k] = WithGreen(f[k], f[k].green + gain[k])
    OBVIOUS
  <2> HIDE DEF g, gain
  <2> QED BY <2>1, <2>2, <2>3 DEF WithGreen, SignalPhase
<1>3. DOMAIN g = DOMAIN f /\ g \in [DOMAIN g -> SignalPhase]
  BY <1>2
<1>4. t.cycle \in Int /\ t.walk \in Int /\ t.crosswalk \in Int /\ longer \in Int
  BY KnownGains, Products DEF IsTiming
<1>5. \A k \in DOMAIN f : gain[k] = m * GainOf(ops, k)
  OBVIOUS
<1> HIDE DEF g, u, gain
<1>6. /\ u.cycle = t.cycle + longer /\ u.phases = g /\ u.walk = t.walk
      /\ u.crosswalk = t.crosswalk /\ u.slow = t.slow
  BY <1>1
<1>7. IsTiming(u)
  <2> HIDE DEF longer
  <2> QED BY <1>1, <1>3, <1>4, <1>6 DEF IsTiming
<1> QED BY <1>2, <1>3, <1>5, <1>6, <1>7 DEF u

(* Extending one phase is adding to it and to the cycle.                   *)
LEMMA ExtensionIsLonger ==
  ASSUME NEW t, NEW k \in DOMAIN t.phases, NEW d \in Nat
  PROVE  ApplyAll(t, <<[type |-> "extend_green", phase |-> k, delta |-> d]>>)
           = Longer1(t, k, d)
<1> DEFINE op == [type |-> "extend_green", phase |-> k, delta |-> d]
           ops == <<op>>
<1>1. Gain(op) = d /\ Longer(op) = d /\ op.phase = k
  BY DEF Gain, Longer, Abs
<1> HIDE DEF op
<1>2. DOMAIN ops = {1} /\ ops[1] = op
  OBVIOUS
<1> HIDE DEF ops
<1>3. SumFunction([n \in DOMAIN ops |-> Longer(ops[n])]) = d
  <2> DEFINE f == [n \in DOMAIN ops |-> Longer(ops[n])]
  <2>1. DOMAIN f = {1} /\ f[1] = d
    BY <1>1, <1>2
  <2> HIDE DEF f
  <2>2. SumFunction(f) = d
    BY <2>1, SumOfOne
  <2> QED BY <2>2 DEF f
<1>4. ASSUME NEW j
      PROVE  SumFunction([n \in DOMAIN ops |-> IF ops[n].phase = j THEN Gain(ops[n])
                                               ELSE 0]) = IF j = k THEN d ELSE 0
  <2> DEFINE f == [n \in DOMAIN ops |-> IF ops[n].phase = j THEN Gain(ops[n]) ELSE 0]
  <2>1. DOMAIN f = {1} /\ f[1] = IF j = k THEN d ELSE 0
    BY <1>1, <1>2
  <2> HIDE DEF f
  <2>2. SumFunction(f) = IF j = k THEN d ELSE 0
    BY <2>1, SumOfOne
  <2> QED BY <2>2 DEF f
<1>5. [j \in DOMAIN t.phases |->
         SumFunction([n \in DOMAIN ops |-> IF ops[n].phase = j THEN Gain(ops[n]) ELSE 0])]
        = [j \in DOMAIN t.phases |-> IF j = k THEN d ELSE 0]
  BY <1>4
<1>6. ApplyAll(t, ops) = Longer1(t, k, d)
  BY <1>3, <1>5 DEF ApplyAll, GainOf, LongerBy, Longer1
<1> QED BY <1>6 DEF ops, op

LEMMA AppliedIsSameSignal ==
  ASSUME NEW t, Shape(t), NEW ops, NEW m
  PROVE  Shape(Applied(t, ops, m)) /\ SameSignal(Applied(t, ops, m), t)
<1> DEFINE gain == [k \in DOMAIN t.phases |-> m * GainOf(ops, k)]
           longer == m * LongerBy(ops)
           green == [k \in DOMAIN t.phases |-> t.phases[k].green + gain[k]]
           g == [k \in DOMAIN t.phases |-> WithGreen(t.phases[k], green[k])]
           c == t.cycle + longer
           u == Applied(t, ops, m)
<1>1. u = Added(t, gain, longer)
  BY DEF Applied
<1> HIDE DEF gain, longer
<1>2. u = [t EXCEPT !.cycle = c,
                    !.phases = [k \in DOMAIN t.phases |->
                       WithGreen(t.phases[k], t.phases[k].green + gain[k])]]
  BY <1>1, Zenon DEF Added
<1>3. [k \in DOMAIN t.phases |-> WithGreen(t.phases[k], t.phases[k].green + gain[k])]
        = g
  OBVIOUS
<1> HIDE DEF g, c, u
<1>4. u = [t EXCEPT !.cycle = c, !.phases = g]
  BY <1>2, <1>3, Zenon
<1>5. u = [cycle |-> c, phases |-> g, walk |-> t.walk,
           crosswalk |-> t.crosswalk, slow |-> t.slow]
  BY <1>4, TimingRegreened, Zenon
<1>6. u.phases = g
  BY <1>5
<1>7. g = [k \in DOMAIN t.phases |-> WithGreen(t.phases[k], green[k])]
  BY Zenon DEF g
<1> HIDE DEF green
<1> QED
  BY <1>5, <1>6, <1>7, RegreenedIsSameSignal DEF u

(* Two timings of one signal with the same cycle and greens are the same.  *)
LEMMA SameTiming ==
  ASSUME NEW t, NEW u, IsTiming(t), IsTiming(u), SameSignal(t, u),
         t.cycle = u.cycle,
         \A k \in DOMAIN t.phases : t.phases[k].green = u.phases[k].green
  PROVE  t = u
<1>1. Shape(t) /\ Shape(u)
  BY ConfiguredHasShape
<1>2. ASSUME NEW k \in DOMAIN t.phases PROVE t.phases[k] = u.phases[k]
  <2>1. k \in DOMAIN u.phases
    BY DEF SameSignal
  <2>2. t.phases[k] =
          [movement |-> t.phases[k].movement, green |-> t.phases[k].green,
           yellow |-> t.phases[k].yellow, red |-> t.phases[k].red,
           speed |-> t.phases[k].speed, conflicts |-> t.phases[k].conflicts,
           grade |-> t.phases[k].grade]
    BY <1>1, PhaseOfSound, Zenon
  <2>3. u.phases[k] =
          [movement |-> u.phases[k].movement, green |-> u.phases[k].green,
           yellow |-> u.phases[k].yellow, red |-> u.phases[k].red,
           speed |-> u.phases[k].speed, conflicts |-> u.phases[k].conflicts,
           grade |-> u.phases[k].grade]
    BY <1>1, <2>1, PhaseOfSound, Zenon
  <2>4. /\ t.phases[k].movement = u.phases[k].movement
        /\ t.phases[k].yellow = u.phases[k].yellow
        /\ t.phases[k].red = u.phases[k].red
        /\ t.phases[k].speed = u.phases[k].speed
        /\ t.phases[k].conflicts = u.phases[k].conflicts
        /\ t.phases[k].grade = u.phases[k].grade
        /\ t.phases[k].green = u.phases[k].green
    BY <2>1 DEF SameSignal
  <2> QED BY <2>2, <2>3, <2>4
<1>3. t.phases = u.phases
  <2>1. t.phases = [k \in DOMAIN t.phases |-> t.phases[k]]
    BY DEF IsTiming
  <2>2. u.phases = [k \in DOMAIN u.phases |-> u.phases[k]]
    BY DEF IsTiming
  <2> QED BY <1>2, <2>1, <2>2 DEF SameSignal
<1> QED BY <1>1, <1>3, Zenon DEF Shape, SameSignal

(* Applications add up, and may be taken off again.                        *)
LEMMA AppliedTwice ==
  ASSUME NEW t, IsTiming(t), NEW ops \in OperationLists, Known(t, ops),
         NEW m \in Int, NEW n \in Int
  PROVE  Applied(Applied(t, ops, m), ops, n) = Applied(t, ops, m + n)
<1> DEFINE u == Applied(t, ops, m)
           v == Applied(u, ops, n)
           w == Applied(t, ops, m + n)
<1>1. /\ IsTiming(u) /\ DOMAIN u.phases = DOMAIN t.phases
      /\ u.cycle = t.cycle + m * LongerBy(ops)
      /\ \A k \in DOMAIN t.phases :
           u.phases[k].green = t.phases[k].green + m * GainOf(ops, k)
  BY AppliedIsTiming
<1>2. SameSignal(u, t) /\ SameSignal(w, t)
  BY AppliedIsSameSignal, ConfiguredHasShape
<1>3. m + n \in Int
  OBVIOUS
<1>4. /\ IsTiming(w) /\ DOMAIN w.phases = DOMAIN t.phases
      /\ w.cycle = t.cycle + (m + n) * LongerBy(ops)
      /\ \A k \in DOMAIN t.phases :
           w.phases[k].green = t.phases[k].green + (m + n) * GainOf(ops, k)
  BY <1>3, AppliedIsTiming
<1>5. Known(u, ops)
  BY <1>1 DEF Known
<1> HIDE DEF u, w
<1>6. /\ IsTiming(v) /\ DOMAIN v.phases = DOMAIN u.phases
      /\ v.cycle = u.cycle + n * LongerBy(ops)
      /\ \A k \in DOMAIN u.phases :
           v.phases[k].green = u.phases[k].green + n * GainOf(ops, k)
  BY <1>1, <1>5, AppliedIsTiming
<1>7. SameSignal(v, u)
  BY <1>1, AppliedIsSameSignal, ConfiguredHasShape
<1> HIDE DEF v
<1>8. SameSignal(v, w)
  BY <1>2, <1>7 DEF SameSignal
<1>9. ASSUME NEW b \in Int, NEW g \in Int
      PROVE  b + m * g + n * g = b + (m + n) * g
  <2>1. /\ m * g \in Int /\ n * g \in Int
        /\ (m + n) * g = m * g + n * g
    BY Products
  <2> QED BY <2>1
<1>10. v.cycle = w.cycle
  <2>1. t.cycle \in Int /\ LongerBy(ops) \in Int
    BY KnownGains DEF IsTiming
  <2> QED BY <1>1, <1>4, <1>6, <1>9, <2>1
<1>11. ASSUME NEW k \in DOMAIN v.phases
       PROVE  v.phases[k].green = w.phases[k].green
  <2>1. t.phases[k].green \in Int /\ GainOf(ops, k) \in Int
    BY <1>1, <1>6, KnownGains DEF IsTiming, SignalPhase
  <2> QED BY <1>1, <1>4, <1>6, <1>9, <2>1
<1>12. v = w
  BY <1>4, <1>6, <1>8, <1>10, <1>11, SameTiming
<1> QED BY <1>12 DEF u, v, w

LEMMA AppliedOnce ==
  ASSUME NEW t, IsTiming(t), NEW ops \in OperationLists, Known(t, ops)
  PROVE  /\ Applied(t, ops, 1) = ApplyAll(t, ops)
         /\ Applied(t, ops, 0) = t
<1>1. \A k \in DOMAIN t.phases : 1 * GainOf(ops, k) = GainOf(ops, k)
  BY KnownGains, Products
<1>2. 1 * LongerBy(ops) = LongerBy(ops)
  BY KnownGains, Products
<1>3. [k \in DOMAIN t.phases |-> 1 * GainOf(ops, k)]
        = [k \in DOMAIN t.phases |-> GainOf(ops, k)]
  BY <1>1
<1>4. Applied(t, ops, 1) = ApplyAll(t, ops)
  BY <1>2, <1>3 DEF Applied, ApplyAll
<1>5. Applied(t, ops, 0) = t
  <2> DEFINE u == Applied(t, ops, 0)
  <2>1. /\ IsTiming(u) /\ DOMAIN u.phases = DOMAIN t.phases
        /\ u.cycle = t.cycle + 0 * LongerBy(ops)
        /\ \A k \in DOMAIN t.phases :
             u.phases[k].green = t.phases[k].green + 0 * GainOf(ops, k)
    BY AppliedIsTiming
  <2>2. SameSignal(u, t)
    BY AppliedIsSameSignal, ConfiguredHasShape
  <2>3. LongerBy(ops) \in Int /\ \A k : GainOf(ops, k) \in Int
    BY KnownGains
  <2> HIDE DEF u
  <2>4. u.cycle = t.cycle
    BY <2>1, <2>3, Products DEF IsTiming
  <2>5. \A k \in DOMAIN u.phases : u.phases[k].green = t.phases[k].green
    BY <2>1, <2>3, Products DEF IsTiming, SignalPhase
  <2>6. u = t
    BY <2>1, <2>2, <2>4, <2>5, SameTiming
  <2> QED BY <2>6 DEF u
<1> QED BY <1>4, <1>5

LEMMA VisitedOften ==
  ASSUME NEW ops \in OperationLists
  PROVE  Visits(ops) \in Nat \ {0}
<1>1. Len(ops) \in Nat \ {0}
  BY OperationsAreTyped
<1> QED BY <1>1 DEF Visits

(* Everything after the first application is a repetition.                 *)
LEMMA RepeatsAreRepeated ==
  ASSUME NEW t, IsTiming(t), NEW ops \in OperationLists, Known(t, ops),
         Legal(ApplyAll(t, ops)), NEW m \in 1..Visits(ops)
  PROVE  Repeated(Applied(t, ops, m))
<1> DEFINE u == Applied(t, ops, m)
<1>1. m \in Int /\ m - 1 \in 0..(Visits(ops) - 1) /\ -(m - 1) \in Int
      /\ m + (-(m - 1)) = 1
  BY VisitedOften
<1>2. Applied(u, ops, -(m - 1)) = ApplyAll(t, ops)
  BY <1>1, AppliedTwice, AppliedOnce
<1>3. Known(u, ops)
  BY <1>1, AppliedIsTiming DEF Known
<1> QED BY <1>1, <1>2, <1>3 DEF Repeated

(* Bringing back a timing of the same signal brings it back exactly.       *)
LEMMA RevertedIsPrior ==
  ASSUME NEW t, NEW u, Shape(t), Shape(u), SameSignal(t, u)
  PROVE  Reverted(t, u) = u
<1> DEFINE g == [k \in DOMAIN t.phases |-> WithGreen(t.phases[k], u.phases[k].green)]
<1>1. Reverted(t, u) = [cycle |-> u.cycle, phases |-> g, walk |-> t.walk,
                        crosswalk |-> t.crosswalk, slow |-> t.slow]
  BY TimingRegreened, Zenon DEF Reverted
<1>2. ASSUME NEW k \in DOMAIN u.phases PROVE g[k] = u.phases[k]
  <2>1. k \in DOMAIN t.phases
    BY DEF SameSignal
  <2>2. g[k] = WithGreen(t.phases[k], u.phases[k].green)
    BY <2>1
  <2>3. WithGreen(t.phases[k], u.phases[k].green) =
          [movement |-> t.phases[k].movement, green |-> u.phases[k].green,
           yellow |-> t.phases[k].yellow, red |-> t.phases[k].red,
           speed |-> t.phases[k].speed, conflicts |-> t.phases[k].conflicts,
           grade |-> t.phases[k].grade]
    BY <2>1, PhaseRegreened, Zenon
  <2>4. u.phases[k] =
          [movement |-> u.phases[k].movement, green |-> u.phases[k].green,
           yellow |-> u.phases[k].yellow, red |-> u.phases[k].red,
           speed |-> u.phases[k].speed, conflicts |-> u.phases[k].conflicts,
           grade |-> u.phases[k].grade]
    BY PhaseOfSound, Zenon
  <2>5. /\ t.phases[k].movement = u.phases[k].movement
        /\ t.phases[k].yellow = u.phases[k].yellow
        /\ t.phases[k].red = u.phases[k].red
        /\ t.phases[k].speed = u.phases[k].speed
        /\ t.phases[k].conflicts = u.phases[k].conflicts
        /\ t.phases[k].grade = u.phases[k].grade
    BY <2>1 DEF SameSignal
  <2> QED
    BY <2>2, <2>3, <2>4, <2>5
<1>3. g = u.phases
  <2>1. DOMAIN g = DOMAIN u.phases
    BY DEF SameSignal
  <2>2. u.phases = [k \in DOMAIN u.phases |-> u.phases[k]]
    BY DEF Shape
  <2> QED
    BY <1>2, <2>1, <2>2
<1> HIDE DEF g
<1>4. Reverted(t, u) = [cycle |-> u.cycle, phases |-> u.phases, walk |-> u.walk,
                        crosswalk |-> u.crosswalk, slow |-> u.slow]
  BY <1>1, <1>3, Zenon DEF SameSignal
<1> QED
  BY <1>4, Zenon DEF Shape

-----------------------------------------------------------------------------
LEMMA SameSignalChain ==
  ASSUME NEW t, NEW u, NEW v, SameSignal(t, u), SameSignal(u, v)
  PROVE  SameSignal(t, v) /\ SameSignal(u, t)
BY DEF SameSignal

LEMMA InitSound == Init => IInv
<1> SUFFICES ASSUME Init PROVE IInv
  OBVIOUS
<1>1. IsTiming(configured)
  BY ConfiguredAreTimings DEF Init
<1>2. SameSignal(configured, configured)
  BY DEF SameSignal
<1> QED
  BY <1>1, <1>2 DEF Init, IInv, Sound

LEMMA StepSound == IInv /\ [Next]_vars => IInv'
<1> SUFFICES ASSUME IInv, [Next]_vars PROVE IInv'
  OBVIOUS
<1> USE DEF IInv
<1>1. CASE UNCHANGED vars
  BY <1>1 DEF vars, Sound
<1>2. ASSUME NEW ops \in OperationLists, Change(ops) PROVE IInv'
  <2> DEFINE v == Visits(ops)
             was == Applied(timing, ops, v - 1)
  <2>1. /\ configured' = configured /\ timing' = Applied(timing, ops, v)
        /\ \A n \in DOMAIN prior' :
             prior'[n] = was \/ (n \in DOMAIN prior /\ prior'[n] = prior[n])
    BY <1>2 DEF Change
  <2>2. /\ Known(timing, ops) /\ Legal(ApplyAll(timing, ops))
        /\ IsTiming(timing) /\ SameSignal(timing, configured)
    BY <1>2 DEF Change, VerifySignal, Sound
  <2>3. v \in Nat \ {0} /\ v \in Int /\ v - 1 \in Int
    BY VisitedOften
  <2>4. \A m \in Int : /\ IsTiming(Applied(timing, ops, m))
                       /\ SameSignal(Applied(timing, ops, m), configured)
    <3> TAKE m \in Int
    <3>1. SameSignal(Applied(timing, ops, m), timing)
      BY <2>2, AppliedIsSameSignal, ConfiguredHasShape
    <3> QED BY <2>2, <3>1, AppliedIsTiming, SameSignalChain
  <2>5. \A m \in 1..v : Repeated(Applied(timing, ops, m))
    BY <2>2, RepeatsAreRepeated
  <2>6. Sound(timing', configured)
    BY <2>1, <2>3, <2>4, <2>5 DEF Sound
  <2>7. Sound(was, configured)
    <3>1. CASE v = 1
      <4>1. was = timing
        BY <2>2, <3>1, AppliedOnce
      <4> QED BY <4>1
    <3>2. CASE v # 1
      <4>1. v - 1 \in 1..v
        BY <2>3, <3>2
      <4> QED BY <2>3, <2>4, <2>5, <4>1 DEF Sound
    <3> QED BY <3>1, <3>2
  <2> QED
    BY <2>1, <2>6, <2>7
<1>3. ASSUME NEW n \in DOMAIN prior, Rollback(n) PROVE IInv'
  <2>1. configured' = configured /\ timing' = Reverted(timing, prior[n])
    BY <1>3 DEF Rollback
  <2>2. SameSignal(timing, prior[n])
    BY SameSignalChain DEF Sound, SameSignal
  <2>3. timing' = prior[n]
    BY <2>1, <2>2, RevertedIsPrior, ConfiguredHasShape DEF Sound
  <2>4. \A m \in DOMAIN prior' : m \in DOMAIN prior /\ prior'[m] = prior[m]
    BY <1>3 DEF Rollback, Restrict
  <2> QED
    BY <2>1, <2>3, <2>4 DEF Sound
<1>4. CASE EmergencyVehicle
  BY <1>4 DEF EmergencyVehicle, Sound
<1> QED
  BY <1>1, <1>2, <1>3, <1>4 DEF Next

(* Every reachable timing, in force or on record, is of this signal and    *)
(* within the rules, the configured one, or within the rules but for       *)
(* operations applied again after their only verification (engine.py:860-  *)
(* 928, 1006-1039).                                                        *)
THEOREM TimingsSound == Spec => []IInv
<1>1. Init => IInv
  BY InitSound
<1>2. IInv /\ [Next]_vars => IInv'
  BY StepSound
<1> QED
  BY <1>1, <1>2, PTL DEF Spec

(* No order of verified changes and unverified rollbacks puts a timing     *)
(* outside the rules in force, except the configured one and what the      *)
(* repetitions of a plan that lists a signal more than once account for.   *)
THEOREM RulesBrokenByRepeats == Spec => []RulesBrokenOnlyByRepeats
<1>1. IInv => RulesBrokenOnlyByRepeats
  BY DEF IInv, Sound, RulesBrokenOnlyByRepeats
<1> QED
  BY <1>1, TimingsSound, PTL

(* When no plan lists a signal more than once, as the deterministic        *)
(* planner's do not (copilot.py:176-206), only the configured timing may   *)
(* be outside the rules.                                                   *)
THEOREM RulesOrConfigured ==
  ASSUME \A ops \in OperationLists : Visits(ops) = 1
  PROVE  Spec => []LegalOrConfigured
<1>1. IInv => LegalOrConfigured
  <2> SUFFICES ASSUME IInv PROVE LegalOrConfigured
    OBVIOUS
  <2>1. IsTiming(timing) /\ (timing = configured \/ Legal(timing) \/ Repeated(timing))
    BY DEF IInv, Sound
  <2>2. ASSUME Repeated(timing) PROVE Legal(timing)
    <3>1. PICK ops \in OperationLists : \E n \in 0..(Visits(ops) - 1) :
                 Known(timing, ops) /\ Legal(Applied(timing, ops, -n))
      BY <2>2 DEF Repeated
    <3>2. Known(timing, ops) /\ Legal(Applied(timing, ops, 0))
      BY <3>1
    <3> QED BY <2>1, <3>2, AppliedOnce
  <2> QED BY <2>1, <2>2 DEF LegalOrConfigured
<1> QED
  BY <1>1, TimingsSound, PTL

(* On a legal timing the work-zone pack decides by the cycle and by the    *)
(* clearance the signal was configured with (rulepacks.py:210-262).        *)
THEOREM WorkzoneVerdict == Spec => []WorkzoneByCycleAndClearance
<1>1. IInv => WorkzoneByCycleAndClearance
  <2> SUFFICES ASSUME IInv, Legal(timing)
               PROVE  LegalInWorkzone(timing) <=> WZ2(timing) /\ WZ3(configured)
    BY DEF WorkzoneByCycleAndClearance
  <2>1. WZ1(timing)
    BY DEF Legal, R1, R5, WZ1, WzMinGreen, MinPhase
  <2>2. WZ4(timing)
    BY DEF Legal, R3, WZ4
  <2>3. WZ3(timing) <=> WZ3(configured)
    BY DEF IInv, Sound, SameSignal, WZ3
  <2> QED
    BY <2>1, <2>2, <2>3 DEF LegalInWorkzone
<1> QED
  BY <1>1, TimingsSound, PTL

-----------------------------------------------------------------------------
(* R1 and R5 together keep every green between ten seconds and two         *)
(* minutes, and nothing else is needed for them to hold.                   *)
THEOREM GreensStayInBand == Spec => []GreensInBand
<1>1. IInv => GreensInBand
  <2> SUFFICES ASSUME IsTiming(timing) PROVE GreensInBand
    BY DEF IInv, Sound
  <2>1. timing.cycle \in Int /\ \A k \in DOMAIN timing.phases : timing.phases[k].green \in Int
    BY DEF IsTiming, SignalPhase
  <2>2. \A k \in DOMAIN timing.phases :
          MinGreen(timing.phases[k]) \in Int /\ MinGreen(timing.phases[k]) <= MinPhase
    BY DEF MinGreen, MinGreenLeft, MinGreenThrough, MinPhase
  <2>3. MinCycle \in Int /\ MaxCycle \in Int /\ MinPhase \in Int /\ MaxPhase \in Int
    BY DEF MinCycle, MaxCycle, MinPhase, MaxPhase
  <2> QED BY <2>1, <2>2, <2>3 DEF GreensInBand, R1, R5
<1> QED
  BY <1>1, TimingsSound, PTL

(* On every legal timing in force, whether an extension may be made is a   *)
(* question of room alone.                                                 *)
THEOREM RoomDecidesExtensions == Spec => []ExtensionNeedsRoomOnly
<1>1. IInv => ExtensionNeedsRoomOnly
  <2> SUFFICES ASSUME IsTiming(timing), Legal(timing), NoSelfConflict(timing),
                      NEW k \in DOMAIN timing.phases, NEW d \in {1, 50, 100, 250}
               PROVE  Legal(ApplyAll(timing,
                              <<[type |-> "extend_green", phase |-> k, delta |-> d]>>))
                        <=> Fits(timing, k, d)
    BY DEF IInv, Sound, ExtensionNeedsRoomOnly
  <2>1. d \in Nat
    OBVIOUS
  <2>2. Legal(Longer1(timing, k, d)) <=> Fits(timing, k, d)
    BY <2>1, ExtensionLegal
  <2>3. ApplyAll(timing, <<[type |-> "extend_green", phase |-> k, delta |-> d]>>)
          = Longer1(timing, k, d)
    BY <2>1, ExtensionIsLonger
  <2> QED BY <2>2, <2>3
<1> QED
  BY <1>1, TimingsSound, PTL

(* While an emergency vehicle depends on the signal, only a rollback       *)
(* shortens a green or the cycle.                                          *)
THEOREM EmsPriorityHolds == Spec => EmsPriorityLostOnlyByRollback
<1> DEFINE Kept ==
      ems /\ DOMAIN prior \subseteq DOMAIN prior' =>
        /\ timing'.cycle >= timing.cycle
        /\ \A k \in DOMAIN timing.phases :
             timing'.phases[k].green >= timing.phases[k].green
<1>1. IInv /\ [Next]_vars => [Kept]_vars
  <2> SUFFICES ASSUME IInv, [Next]_vars, ems, DOMAIN prior \subseteq DOMAIN prior'
               PROVE  /\ timing'.cycle >= timing.cycle
                      /\ \A k \in DOMAIN timing.phases :
                           timing'.phases[k].green >= timing.phases[k].green
    OBVIOUS
  <2>1. /\ IsTiming(timing) /\ timing.cycle \in Int
        /\ \A k \in DOMAIN timing.phases : timing.phases[k].green \in Int
    BY DEF IInv, Sound, IsTiming, SignalPhase
  <2>2. CASE timing' = timing
    BY <2>1, <2>2
  <2>3. ASSUME NEW ops \in OperationLists, Change(ops)
        PROVE  /\ timing'.cycle >= timing.cycle
               /\ \A k \in DOMAIN timing.phases :
                    timing'.phases[k].green >= timing.phases[k].green
    <3> DEFINE v == Visits(ops)
    <3>1. /\ Known(timing, ops) /\ R7(ops)
          /\ timing' = Applied(timing, ops, v)
      BY <2>3 DEF Change, VerifySignal
    <3>2. v \in Nat /\ v \in Int
      BY VisitedOften
    <3>3. v * LongerBy(ops) \in Nat /\ \A k : v * GainOf(ops, k) \in Nat
      BY <3>1, <3>2, KnownGains, Products
    <3>4. /\ timing'.cycle = timing.cycle + v * LongerBy(ops)
          /\ \A k \in DOMAIN timing.phases :
               timing'.phases[k].green = timing.phases[k].green + v * GainOf(ops, k)
      BY <2>1, <3>1, <3>2, AppliedIsTiming
    <3> HIDE DEF v
    <3> QED BY <2>1, <3>3, <3>4
  <2>4. ASSUME NEW n \in DOMAIN prior, Rollback(n)
        PROVE  FALSE
    BY <2>4 DEF Rollback, Restrict
  <2> QED BY <2>2, <2>3, <2>4 DEF Next, EmergencyVehicle, vars
<1> QED
  BY <1>1, TimingsSound, PTL DEF Spec, EmsPriorityLostOnlyByRollback
=============================================================================
