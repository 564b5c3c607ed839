------------------------ MODULE RecommendationProofs ------------------------
(***************************************************************************)
(* The bound on what the language model's certainty can add to the score   *)
(* of its own plan, and that the plan works nearest the incident, for any  *)
(* road graph, feeds, answers and threshold.                               *)
(***************************************************************************)
EXTENDS Recommendation, FiniteSetTheorems, WellFoundedInduction, TLAPS

LEMMA FreshnessIsScore ==
  ASSUME NEW ages
  PROVE  Freshness(ages) \in Int
<1> DEFINE known == {f \in Feed : ages[f] # "missing"}
           fresh == {f \in known : ages[f] = "fresh"}
<1>1. IsFiniteSet(known) /\ IsFiniteSet(fresh)
  BY ScoreAssumption, FS_Subset
<1>2. Cardinality(known) \in Nat /\ Cardinality(fresh) \in Nat
  BY <1>1, FS_CardinalityType
<1>3. known # {} => Cardinality(known) > 0
  BY <1>1, <1>2, FS_EmptySet
<1> QED BY <1>2, <1>3 DEF Freshness

LEMMA CoverageIsScore ==
  ASSUME NEW targets \in SUBSET Impacted
  PROVE  Coverage(targets) \in Int
<1> DEFINE seen == (targets \cup {Origin}) \cap Monitored
<1>1. IsFiniteSet(targets)
  BY ScoreAssumption, GraphAssumption, FS_Subset
<1>2. IsFiniteSet(targets \cup {Origin})
  BY <1>1, FS_AddElement
<1>3. IsFiniteSet(seen)
  BY <1>2, FS_Subset
<1>4. Cardinality(targets) \in Nat /\ Cardinality(seen) \in Nat
  BY <1>1, <1>3, FS_CardinalityType
<1> QED BY <1>4 DEF Coverage

(* The mean moves a certainty of at least 52 by 24 at most, which weighs   *)
(* ten points at most.                                                     *)
LEMMA BlendLifts ==
  ASSUME NEW certainty \in 520..1000, NEW rest \in Int, NEW answer
  PROVE  Composite(Blended(certainty, answer), rest)
           - Composite(certainty, rest) <= 100
<1>1. CASE answer.certainty \in 0..100
  <2>1. Blended(certainty, answer) \in 0..(certainty + 240)
    BY <1>1 DEF Blended
  <2> QED BY <2>1 DEF Composite
<1>2. CASE answer.certainty \notin 0..100
  BY <1>2 DEF Blended, Composite
<1> QED BY <1>1, <1>2

-----------------------------------------------------------------------------
(* What a plan waiting for the model's answer carries.                     *)
ScoreKnown ==
  plan.phase = "asked" => plan.certainty \in 520..1000 /\ plan.rest \in Int

LiftInv == ScoreKnown /\ ModelLiftBounded

LEMMA GenerateScores == Generate => LiftInv'
<1> SUFFICES ASSUME Generate
             PROVE  LiftInv'
  OBVIOUS
<1>1. PICK taken \in Candidates, certainty \in Certainty,
           accuracy \in Accuracy, ages \in [Feed -> Age] :
        plan' = [phase |-> "asked", candidates |-> taken,
                 certainty |-> certainty,
                 rest |-> Rest(Freshness(ages), Coverage(taken \cap Through),
                               accuracy),
                 recent |-> \A s \in Source : ages[s] # "dead"]
  BY DEF Generate
<1>2. plan'.phase = "asked" /\ plan'.certainty = certainty
      /\ plan'.rest = Rest(Freshness(ages), Coverage(taken \cap Through),
                           accuracy)
  BY <1>1
<1>3. taken \cap Through \in SUBSET Impacted
  BY DEF Candidates
<1>4. Rest(Freshness(ages), Coverage(taken \cap Through), accuracy) \in Int
  BY <1>3, FreshnessIsScore, CoverageIsScore, ScoreAssumption DEF Rest
<1> QED
  BY <1>2, <1>4, ScoreAssumption DEF LiftInv, ScoreKnown, ModelLiftBounded

LEMMA GateLifts == LiftInv /\ Gate => LiftInv'
<1> SUFFICES ASSUME LiftInv, Gate
             PROVE  LiftInv'
  OBVIOUS
<1>1. plan.certainty \in 520..1000 /\ plan.rest \in Int
  BY DEF Gate, LiftInv, ScoreKnown
<1>2. PICK answer \in Answer :
        \E certainty \in {plan.certainty, Blended(plan.certainty, answer)} :
        /\ plan'.phase = "judged"
        /\ plan'.lift = Composite(certainty, plan.rest)
                          - Composite(plan.certainty, plan.rest)
  BY DEF Gate
<1>3. PICK certainty \in {plan.certainty, Blended(plan.certainty, answer)} :
        /\ plan'.phase = "judged"
        /\ plan'.lift = Composite(certainty, plan.rest)
                          - Composite(plan.certainty, plan.rest)
  BY <1>2
<1>4. plan'.lift <= 100
  <2>1. CASE certainty = plan.certainty
    BY <1>1, <1>3, <2>1 DEF Composite
  <2>2. CASE certainty = Blended(plan.certainty, answer)
    BY <1>1, <1>3, <2>2, BlendLifts
  <2> QED BY <1>3, <2>1, <2>2
<1> QED BY <1>3, <1>4 DEF LiftInv, ScoreKnown, ModelLiftBounded

LEMMA LiftSteps == LiftInv /\ [Next]_vars => LiftInv'
<1>1. UNCHANGED plan => (LiftInv => LiftInv')
  BY DEF LiftInv, ScoreKnown, ModelLiftBounded
<1> QED BY <1>1, GenerateScores, GateLifts DEF Next, vars

(* Whatever the traffic, the feeds, the history and the answers, the       *)
(* model's opinion of its own plan lifts the score by ten points at most   *)
(* (copilot.py:296-300): the gate's threshold keeps its meaning.           *)
THEOREM LiftIsBounded == Spec => []ModelLiftBounded
<1>1. Init => LiftInv
  BY DEF Init, NoPlan, LiftInv, ScoreKnown, ModelLiftBounded
<1>2. LiftInv => ModelLiftBounded
  BY DEF LiftInv
<1> QED BY <1>1, <1>2, LiftSteps, PTL DEF Spec

-----------------------------------------------------------------------------
LEMMA LeastOf ==
  ASSUME NEW S \in SUBSET Nat, NEW n \in S
  PROVE  Min(S) \in S /\ \A m \in S : Min(S) <= m
<1>1. PICK m \in S : \A k \in S : <<k, m>> \notin OpToRel(<, Nat)
  BY NatLessThanWellFounded, WFMin
<1>2. \A k \in S : m <= k
  <2> TAKE k \in S
  <2>1. ~ k < m
    BY <1>1 DEF OpToRel
  <2>2. k \in Nat /\ m \in Nat
    OBVIOUS
  <2> QED BY <2>1, <2>2
<1> QED BY <1>2 DEF Min

(* One or two roads away. *)
LEMMA HopsAreOneOrTwo ==
  ASSUME NEW i \in Impacted
  PROVE  Hops(i) \in 1..2
<1> DEFINE S == {n \in 1..MaxHops : i \in Within[n]}
<1>1. MaxHops \in S
  BY ScoreAssumption DEF Impacted
<1>2. S \in SUBSET Nat /\ S \subseteq 1..2
  BY ScoreAssumption
<1>3. Min(S) \in 1..2
  <2> HIDE DEF S
  <2> QED BY <1>1, <1>2, LeastOf
<1> QED BY <1>3 DEF Hops, Distance

LEMMA GreaterOf ==
  ASSUME NEW a \in Int, NEW b \in Int
  PROVE  Max({a, b}) = IF a >= b THEN a ELSE b
<1> DEFINE m == IF a >= b THEN a ELSE b
<1>1. m \in {a, b} /\ \A y \in {a, b} : m >= y
  OBVIOUS
<1>2. \A x \in {a, b} : (\A y \in {a, b} : x >= y) => x = m
  OBVIOUS
<1> QED BY <1>1, <1>2 DEF Max

(* What is known of the congestion, whatever the traffic and the sweep.    *)
CongestionInv ==
  congestion \in [Intersection \cup {At[c] : c \in Camera} -> 0..1000]

(* Four minutes a hop, halved at worst: a free intersection next door is   *)
(* no later than a jammed one behind it.                                   *)
LEMMA NearerIsAhead ==
  ASSUME CongestionInv, NEW i \in Impacted, NEW j \in Impacted, Hops(i) < Hops(j)
  PROVE  Ahead(i, j)
<1>1. Hops(i) = 1 /\ Hops(j) = 2
  BY HopsAreOneOrTwo
<1>2. congestion[i] \in 0..1000 /\ congestion[j] \in 0..1000
  BY GraphAssumption DEF CongestionInv
<1>3. Minutes(i) \in 10..40
  <2> DEFINE m == (1 * (2000 - congestion[i]) + 25) \div 50
  <2>1. m \in 20..40
    BY <1>2
  <2>2. Minutes(i) = Max({10, m})
    BY <1>1 DEF Minutes
  <2> HIDE DEF m
  <2>3. Max({10, m}) = m
    BY <2>1, GreaterOf
  <2> QED BY <2>1, <2>2, <2>3
<1>4. Minutes(j) \in 40..80
  <2> DEFINE m == (2 * (2000 - congestion[j]) + 25) \div 50
  <2>1. m \in 40..80
    BY <1>2
  <2>2. Minutes(j) = Max({10, m})
    BY <1>1 DEF Minutes
  <2> HIDE DEF m
  <2>3. Max({10, m}) = m
    BY <2>1, GreaterOf
  <2> QED BY <2>1, <2>2, <2>3
<1> QED BY <1>1, <1>3, <1>4 DEF Ahead

-----------------------------------------------------------------------------
(* The candidates are among the impacted and none left out is nearer.      *)
Nearest(taken) ==
  /\ taken \subseteq Impacted
  /\ \A i \in taken, j \in Impacted \ taken : Hops(i) <= Hops(j)

NearInv ==
  /\ CongestionInv
  /\ plan.phase \in {"asked", "judged"} => Nearest(plan.candidates)
  /\ plan.phase = "judged" => plan.targets \subseteq plan.candidates

LEMMA CongestionKept == CongestionInv /\ [SweepNext]_sweep => CongestionInv'
<1> DEFINE D == Intersection \cup {At[c] : c \in Camera}
<1> SUFFICES ASSUME congestion \in [D -> 0..1000], [SweepNext]_sweep
             PROVE  congestion' \in [D -> 0..1000]
  BY DEF CongestionInv
<1> HIDE DEF D
<1>1. CASE Sweep \/ UNCHANGED congestion
  BY <1>1 DEF Sweep
<1>2. ASSUME NEW c \in Camera, Analyse(c), ~UNCHANGED congestion
      PROVE  congestion' \in [D -> 0..1000]
  <2>1. PICK level \in {200, 500, 800} :
          congestion' = [congestion EXCEPT ![At[c]] = Seen(level)]
    BY <1>2 DEF Analyse
  <2>2. Seen(level) \in 0..1000
    BY <2>1 DEF Seen
  <2> QED BY <2>1, <2>2
<1>3. CASE Traffic
  <2>1. PICK i \in D, level \in Levels :
          congestion' = [congestion EXCEPT ![i] = level]
    BY <1>3 DEF Traffic
  <2>2. level \in 0..1000
    BY SweepAssumption
  <2> QED BY <2>1, <2>2
<1> QED BY <1>1, <1>2, <1>3 DEF SweepNext, sweep

LEMMA GenerateNearest == NearInv /\ Generate => NearInv'
<1> SUFFICES ASSUME NearInv, Generate
             PROVE  NearInv'
  OBVIOUS
<1>1. CongestionInv'
  BY DEF NearInv, CongestionInv, Generate, sweep
<1>2. PICK taken \in Candidates : plan'.phase = "asked" /\ plan'.candidates = taken
  BY DEF Generate
<1>3. /\ taken \in SUBSET Impacted
      /\ \A i \in taken, j \in Impacted \ taken : ~Ahead(j, i)
  BY DEF Candidates
<1>4. \A i \in Impacted : Hops(i) \in Int
  BY HopsAreOneOrTwo
<1>5. Nearest(taken)
  BY <1>3, <1>4, NearerIsAhead DEF Nearest, NearInv
<1> QED BY <1>1, <1>2, <1>5 DEF NearInv

LEMMA GateNearest == NearInv /\ Gate => NearInv'
<1> SUFFICES ASSUME NearInv, Gate
             PROVE  NearInv'
  OBVIOUS
<1>1. CongestionInv'
  BY DEF NearInv, CongestionInv, Gate, sweep
<1>2. PICK answer \in Answer :
        \E status, lift :
          plan' = [phase |-> "judged",
                   targets |-> IF Accepted(answer, plan.candidates) # {}
                               THEN {op.target : op \in Accepted(answer, plan.candidates)}
                               ELSE plan.candidates \cap Through,
                   candidates |-> plan.candidates, lift |-> lift, status |-> status]
  BY Zenon DEF Gate
<1>3. \A op \in Accepted(answer, plan.candidates) : op.target \in plan.candidates
  BY DEF Accepted, Valid
<1>4. /\ plan'.phase = "judged" /\ plan'.candidates = plan.candidates
      /\ plan'.targets \subseteq plan.candidates
  BY <1>2, <1>3
<1>5. Nearest(plan.candidates)
  BY DEF NearInv, Gate
<1> QED BY <1>1, <1>4, <1>5 DEF NearInv

LEMMA NearSteps == NearInv /\ [Next]_vars => NearInv'
<1>1. NearInv /\ UNCHANGED plan /\ [SweepNext]_sweep => NearInv'
  BY CongestionKept DEF NearInv
<1> QED
  BY <1>1, GenerateNearest, GateNearest DEF Next, vars

(* Whatever the roads, the traffic and the answers of the model, a plan    *)
(* works at no intersection farther from the incident than one that was    *)
(* not considered (graph.py:161-162, "nearest-first"): with at most two    *)
(* hops, the order by minutes is an order by hops.                         *)
THEOREM NearestAreServed == Spec => []NearestServed
<1>1. Init => NearInv
  <2> DEFINE D == Intersection \cup {At[c] : c \in Camera}
  <2> SUFFICES ASSUME Init PROVE NearInv
    OBVIOUS
  <2>1. congestion \in [D -> Levels]
    BY DEF Init, SweepInit
  <2>2. Levels \subseteq 0..1000
    BY SweepAssumption
  <2>3. congestion \in [D -> 0..1000]
    <3> HIDE DEF D
    <3> QED BY <2>1, <2>2
  <2>4. plan.phase = "none"
    BY DEF Init, NoPlan
  <2> QED BY <2>3, <2>4 DEF NearInv, CongestionInv
<1>2. NearInv => NearestServed
  BY DEF NearInv, Nearest, NearestServed
<1> QED BY <1>1, <1>2, NearSteps, PTL DEF Spec
=============================================================================
