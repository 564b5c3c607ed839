--------------------------- MODULE Recommendation ----------------------------
(***************************************************************************)
(* How a recommendation comes about: Copilot.generate_plan and _llm_refine *)
(* of platform/nexus/copilot.py, SafetyGate.evaluate of safety.py, the     *)
(* scoring of models.py and cascading_impact of graph.py, while the vision *)
(* sweep and the traffic change the congestion they read.  The language    *)
(* model answers between the reading of the city and the gate.             *)
(*                                                                         *)
(* Scores and seconds are tenths.  The timing rules and R6 are one verdict *)
(* here (TimingRules, PlanLifecycle).  A feed's age is one of four classes.*)
(* Left out: the texts, the counters of SafetyMetrics, and provenance      *)
(* completeness, which no plan of the copilot or of the probe can miss.    *)
(***************************************************************************)
EXTENDS VisionSweep

CONSTANTS
  Intersection,    \* all but the one with the incident
  Origin,          \* the intersection of the incident
  Adjacent,        \* Adjacent[i]: its neighbours in the road graph
  Through,         \* intersections with a through phase
  Monitored,       \* intersections with a camera
  MaxHops,         \* 2
  MaxNeighbours,   \* MAX_NEIGHBOR_TARGETS
  Certainty,       \* WEATHER_CERTAINTY, less 10 for a slight incident
  Accuracy,        \* what _historical_accuracy may have become
  Feed,            \* sources with a freshness threshold
  Source,          \* those of them a plan cites
  Answer,          \* what the planner model may answer
  Threshold        \* the governed confidence threshold

(* 62 for ice, less 10, is the least certainty the planner starts from.    *)
ASSUME ScoreAssumption ==
  /\ Certainty \subseteq 520..1000 /\ Accuracy \subseteq 0..1000
  /\ Threshold \in 500..950
  /\ IsFiniteSet(Feed) /\ Source \subseteq Feed /\ IsFiniteSet(Intersection)
  /\ MaxHops \in 1..2 /\ MaxNeighbours \in Nat

VARIABLES plan     \* the recommendation under way, or the last one

vars == <<sweep, plan>>

-----------------------------------------------------------------------------
(* cascading_impact: breadth first, at most MaxHops away. *)

Within[n \in 0..MaxHops] ==
  IF n = 0 THEN {Origin}
  ELSE Within[n - 1] \cup UNION {Adjacent[i] : i \in Within[n - 1]}

Impacted == Within[MaxHops] \ {Origin}

Distance == [i \in Impacted |-> Min({n \in 1..MaxHops : i \in Within[n]})]
Hops(i) == Distance[i]

BadMinutes(i) == Max({10, (Hops(i) * (1000 - congestion[i]) + 12) \div 25})

(* Minutes to gridlock: 4 a hop, halved at full congestion, rounded. *)
Minutes(i) == Max({10, (Hops(i) * (2000 - congestion[i]) + 25) \div 50})

(* The sort by minutes is stable, and the search finds the nearer first.   *)
Ahead(i, j) ==
  Minutes(i) < Minutes(j) \/ (Minutes(i) = Minutes(j) /\ Hops(i) < Hops(j))

(* The head of that list: no impact left out is ahead of one taken.        *)
Candidates ==
  {taken \in SUBSET Impacted :
     /\ Cardinality(taken) = Min({MaxNeighbours, Cardinality(Impacted)})
     /\ \A i \in taken, j \in Impacted \ taken : ~Ahead(j, i)}

ASSUME GraphAssumption == Impacted \subseteq Intersection

-----------------------------------------------------------------------------
(* _score_confidence *)

Age == {"missing", "fresh", "stale", "dead"}   \* dead: over MAX_DATA_AGE_S

(* The share of the feeds that ever reported. *)
Freshness(ages) ==
  LET known == {f \in Feed : ages[f] # "missing"}
  IN  IF known = {} THEN 500
      ELSE (1000 * Cardinality({f \in known : ages[f] = "fresh"}))
             \div Cardinality(known)

Coverage(targets) ==
  (1000 * Cardinality((targets \cup {Origin}) \cap Monitored))
    \div (Cardinality(targets) + 1)

(* ConfidenceBreakdown.composite, 40 : 25 : 20 : 15. *)
Rest(fresh, cover, accuracy) == 25 * fresh + 20 * cover + 15 * accuracy
Composite(certainty, rest) == (40 * certainty + rest + 50) \div 100

-----------------------------------------------------------------------------
(* _llm_refine *)

(* An operation of the answer that survives: [target, delta]. *)
Valid(op, candidates) ==
  op.target \in candidates \cap Through /\ op.delta \in 10..250

(* An answer is what came of the call and, of a plan with operations and a *)
(* rationale, [operations, certainty].  Those past the limit are dropped.  *)
(* What is left matters as a set: an answer may name a target twice.       *)
Accepted(answer, candidates) ==
  IF answer.kind # "plan" THEN {}
  ELSE {op \in {answer.operations[n] : n \in 1..Min({MaxNeighbours,
                                                    Len(answer.operations)})} :
          Valid(op, candidates)}

BadBlended(certainty, answer) == 10 * answer.certainty

(* The mean of the two certainties; a number out of range is ignored.      *)
Blended(certainty, answer) ==
  IF answer.certainty \in 0..100
  THEN (certainty + 10 * answer.certainty + 1) \div 2
  ELSE certainty

-----------------------------------------------------------------------------
(* SafetyGate.evaluate and HallucinationMonitor.check, on p with           *)
(* [known, recent, within, rules, composite]: the entities exist, the data *)
(* is recent, operations stay within the targets, the rules hold.          *)
Verdict(p) ==
  CASE ~(p.known /\ p.recent /\ p.within) -> "blocked_hallucination"
    [] p.known /\ p.recent /\ p.within /\ ~p.rules -> "blocked_constraint"
    [] p.known /\ p.recent /\ p.within /\ p.rules /\ p.composite < Threshold
         -> "withheld_confidence"
    [] OTHER -> "pending_approval"

(* attempt_action of mcp.py: the same targets and operations, vouched for  *)
(* with data of this moment and full confidence, and never with a cited    *)
(* incident, so that only H1, H4 and the rules are left to refuse them.    *)
Probe(p) == [known |-> TRUE, recent |-> TRUE, within |-> p.within,
             rules |-> p.rules, composite |-> 1000]

-----------------------------------------------------------------------------
NoPlan == [phase |-> "none"]

Init == SweepInit(Intersection \cup {At[c] : c \in Camera}) /\ plan = NoPlan

(* generate_plan up to the call of the model.  A feed that never reported  *)
(* is cited as if it just had.                                             *)
Generate ==
  /\ plan.phase # "asked"
  /\ \E taken \in Candidates, certainty \in Certainty,
        accuracy \in Accuracy, ages \in [Feed -> Age] :
       plan' = [phase |-> "asked", candidates |-> taken,
                certainty |-> certainty,
                rest |-> Rest(Freshness(ages), Coverage(taken \cap Through),
                              accuracy),
                recent |-> \A s \in Source : ages[s] # "dead"]
  /\ UNCHANGED sweep

(* The model answers, or does not, and the gate judges what there is.  By  *)
(* then the incident may be pruned, or the data cited too old: too late.   *)
Gate ==
  /\ plan.phase = "asked"
  /\ \E answer \in Answer, late, rules \in BOOLEAN :
       LET accepted == Accepted(answer, plan.candidates)
           refined == accepted # {}
           certainty == IF refined THEN Blended(plan.certainty, answer)
                        ELSE plan.certainty
           composite == Composite(certainty, plan.rest)
       IN  plan' =
             [phase |-> "judged",
              targets |-> IF refined
                          THEN {op.target : op \in accepted}
                          ELSE plan.candidates \cap Through,
              candidates |-> plan.candidates,
              lift |-> composite - Composite(plan.certainty, plan.rest),
              status |-> Verdict([known |-> ~late, recent |-> plan.recent /\ ~late,
                                  within |-> TRUE, rules |-> rules,
                                  composite |-> composite])]
  /\ UNCHANGED sweep

Next == Generate \/ Gate \/ (SweepNext /\ UNCHANGED plan)

Spec == Init /\ [][Next]_vars /\ SweepFairness

-----------------------------------------------------------------------------
(* cascading_impact "returns nearest-first" (graph.py:161-162) though it   *)
(* sorts by minutes: up to two hops even a gridlocked intersection farther *)
(* away is not ahead of a free one nearer by.  So whatever the traffic and *)
(* whatever the model answers, a plan works at no intersection farther off *)
(* than one that was not considered.                                       *)
NearestServed ==
  plan.phase = "judged" =>
    \A i \in plan.targets, j \in Impacted \ plan.candidates : Hops(i) <= Hops(j)

(* The model's opinion of its own plan lifts the score by at most ten      *)
(* points, so a plan scored ten below the threshold stays withheld         *)
(* whatever it says (copilot.py:296-300, "blend").                         *)
ModelLiftBounded == plan.phase = "judged" => plan.lift <= 100
=============================================================================
