---------------------------- MODULE PlanLifecycle ----------------------------
(***************************************************************************)
(* The decision loop of the engine (platform/nexus/engine.py) with the R6  *)
(* bookkeeping of its ConstraintVerifier (platform/nexus/safety.py):       *)
(* recommend, approve, reject, execute by operating mode, monitor, settle, *)
(* roll back, expire, prune and restart, and the incident states those     *)
(* operations move.                                                        *)
(*                                                                         *)
(* Each action is one whole handler, run to its end before the next one    *)
(* starts; module ApprovalThreads takes the same handlers apart.           *)
(*                                                                         *)
(* Abstractions:                                                           *)
(*  - the planner only ever extends the through green of neighbours, so a  *)
(*    signal's timing is the number of seconds added to its configured     *)
(*    plan and the timing rules are one number, Headroom;                  *)
(*  - a proposal is the list of its targets, which the language model may  *)
(*    fill with one signal several times (copilot.py:268-294), and what    *)
(*    its operations add to a signal each time they are applied there;     *)
(*  - plan identities are numbered in the order they are generated;        *)
(*  - provenance, hallucination and confidence refusals are one status,    *)
(*    "refused": nothing after the gate tells them apart;                  *)
(*  - congestion is the environment: any change inside its window may be   *)
(*    seen to worsen;                                                      *)
(*  - clocks are ages, which stop once no window can still be open.        *)
(*                                                                         *)
(* A definition named Bad... is a broken variant of the one below it; no   *)
(* action uses it.  PROJECT.json swaps it in to show that a property       *)
(* notices the mistake.                                                    *)
(***************************************************************************)
EXTENDS Integers, FiniteSets, Sequences, Functions

CONSTANTS
  Intersection,     \* signals the planner may target
  Incident,         \* incident identities
  Kind,             \* Kind[n]: the (intersection, type) pair of incident n
  PlanBound,        \* bound: how many plans are ever generated
  Proposals,        \* what the planner may produce: targets and gain
  Headroom,         \* seconds a signal can gain before a timing rule fails
  MaxConcurrent,    \* ConstraintVerifier.max_concurrent_changes
  MaxPlans,         \* MAX_PLANS_IN_MEMORY
  RevertWindow,     \* AUTO_REVERT_WINDOW_S
  AlertedSettle,    \* ALERTED_SETTLE_S
  AdvisoryExpiry    \* ADVISORY_EXPIRATION_S

Plan == 1 .. PlanBound
NoPlan == 0

ASSUME IntersectionAssumption == IsFiniteSet(Intersection)
ASSUME BoundAssumption == PlanBound \in Nat /\ MaxPlans \in Nat
ASSUME PlannerAssumption ==
  /\ Proposals \subseteq [targets : Seq(Intersection),
                         gain    : [Intersection -> Nat]]
  /\ Headroom \in Nat
ASSUME R6Assumption == MaxConcurrent \in Nat
ASSUME WindowAssumption ==
  /\ RevertWindow \in Nat
  /\ AlertedSettle \in Nat
  /\ AdvisoryExpiry \in Nat
  /\ RevertWindow <= AlertedSettle

Mode == {"shadow", "advisory", "live"}

Status == {"absent", "refused", "blocked_constraint", "pending_approval",
           "rejected", "shadow_logged", "advisory_issued", "expired",
           "executed", "reverted", "forgotten"}

BadTerminal == {"refused", "blocked_constraint", "rejected", "shadow_logged",
                "expired", "reverted", "executed"}

(* _TERMINAL_PLAN_STATUSES; an executed plan is not in it. *)
Terminal == {"refused", "blocked_constraint", "rejected", "shadow_logged",
             "expired", "reverted"}

IncidentState == {"absent", "detected", "acknowledged", "mitigating",
                  "monitoring", "resolved"}
ActiveState == IncidentState \ {"absent", "resolved"}

VARIABLES
  mode,       \* engine.mode
  issued,     \* how many plans have been generated so far
  status,     \* plan.status
  body,       \* plan.incident_id, plan.targets, plan.operations
  prev,       \* plan.previous_timing
  age,        \* time since executed_at, or since the advisory was issued
  monitor,    \* engine._monitoring: "off", "watching" or "alerted"
  active,     \* verifier._active_changes
  timing,     \* seconds added to each intersection's configured timing plan
  incident    \* graph.incidents

planVars == <<issued, status, body, prev>>
vars == <<mode, issued, status, body, prev, age, monitor, active, timing,
          incident>>

(* gain[i]: the seconds that all operations naming i add in one go.        *)
Body == [incident : Incident,
         targets  : Seq(Intersection),
         gain     : [Intersection -> Nat]]

TypeOK ==
  /\ mode \in Mode
  /\ issued \in 0 .. PlanBound
  /\ status \in [Plan -> Status]
  /\ body \in [1 .. issued -> Body]
  /\ prev \in [Plan -> [Intersection -> Nat]]
  /\ age \in [Plan -> Nat]
  /\ monitor \in [Plan -> {"off", "watching", "alerted"}]
  /\ active \in [Intersection -> {NoPlan} \union Plan]
  /\ timing \in [Intersection -> Nat]
  /\ incident \in [Incident -> IncidentState]

-----------------------------------------------------------------------------
(* State read by the handlers. *)

Targets(p) == IF p \in DOMAIN body THEN Range(body[p].targets) ELSE {}
InStatus(S) == {p \in Plan : status[p] \in S}
Monitored == {p \in Plan : monitor[p] # "off"}
Registered == {i \in Intersection : active[i] # NoPlan}

(* How often the list of targets names i. *)
Mentions(c, i) == Cardinality({k \in DOMAIN c.targets : c.targets[k] = i})

(* Places of the list whose signal is not booked yet. *)
NewPlaces(c) == {k \in DOMAIN c.targets : c.targets[k] \notin Registered}

BadR6Count(p, c) ==
  /\ Cardinality(Registered) < MaxConcurrent
  /\ \A i \in Range(c.targets) : active[i] \in {NoPlan, p}

BadR6Shared(p, c) ==
  Cardinality(Registered) + Cardinality(NewPlaces(c)) <= MaxConcurrent

(* R6a, the system-wide limit, and R6b, one change per intersection.       *)
R6Allows(p, c) ==
  /\ Cardinality(Registered) + Cardinality(NewPlaces(c)) <= MaxConcurrent
  /\ \A i \in Range(c.targets) : active[i] \in {NoPlan, p}

BadRulesAllow(c) == \A i \in Range(c.targets) : timing[i] <= Headroom

(* R1-R5 on the timing of one application of the operations, however often *)
(* the list names the signal.                                              *)
RulesAllow(c) == \A i \in Range(c.targets) : timing[i] + c.gain[i] <= Headroom

(* ConstraintVerifier.verify for a plan p that proposes c.                 *)
(* The EMS rule R7 speaks of reductions only, which no planner produces.   *)
Verify(p, c) == R6Allows(p, c) /\ RulesAllow(c)

(* register_active_change and clear_active_change, over the signals T.     *)
Booked(T, p) == [i \in Intersection |-> IF i \in T THEN p ELSE active[i]]

BadCleared(T) == active

Cleared(T) == [i \in Intersection |-> IF i \in T THEN NoPlan ELSE active[i]]

(* What the visits to i before the last one add: _execute applies all the  *)
(* operations of i each time the list names it, verify considered one.     *)
Unverified(c, i) ==
  IF i \in Range(c.targets) THEN (Mentions(c, i) - 1) * c.gain[i] ELSE 0

BadExtended(c) ==
  [i \in Intersection |->
     IF i \in Range(c.targets) THEN timing[i] + c.gain[i] + c.gain[i]
                               ELSE timing[i]]

(* apply_operations_to_plan at every visit of the list. *)
Extended(c) ==
  [i \in Intersection |->
     IF i \in Range(c.targets) THEN timing[i] + Unverified(c, i) + c.gain[i]
                               ELSE timing[i]]

(* The record of the timing found on each signal: each visit overwrites    *)
(* what the one before it wrote.                                           *)
Captured(c) ==
  [i \in Intersection |->
     IF i \in Range(c.targets) THEN timing[i] + Unverified(c, i) ELSE 0]

(* What rollback writes: the timing the plan has on record for each signal. *)
Restored(p) ==
  [i \in Intersection |-> IF i \in Targets(p) THEN prev[p][i] ELSE timing[i]]

-----------------------------------------------------------------------------
Init ==
  /\ mode \in Mode       \* Shadow, or whatever rung the store remembers
  /\ issued = 0
  /\ status = [p \in Plan |-> "absent"]
  /\ body = [p \in 1 .. 0 |-> {}]
  /\ prev = [p \in Plan |-> [i \in Intersection |-> 0]]
  /\ age = [p \in Plan |-> 0]
  /\ monitor = [p \in Plan |-> "off"]
  /\ active = [i \in Intersection |-> NoPlan]
  /\ timing = [i \in Intersection |-> 0]
  /\ incident = [n \in Incident |-> "absent"]

(* _prune_plans on the plan table st: the oldest finished plans beyond     *)
(* MaxPlans are dropped.                                                   *)
Pruned(st) ==
  LET held     == {p \in Plan : st[p] \notin {"absent", "forgotten"}}
      finished == {p \in Plan : st[p] \in Terminal}
      excess   == Cardinality(held) - MaxPlans
      victims  == {p \in finished :
                     Cardinality({q \in finished : q < p}) < excess}
  IN  [p \in Plan |-> IF p \in victims THEN "forgotten" ELSE st[p]]

(* What SafetyGate.evaluate can answer for a plan p that proposes c:       *)
(* provenance, hallucination and confidence refusals do not depend on this *)
(* state.                                                                  *)
GateAnswers(p, c) ==
  {"refused"} \union
  (IF Verify(p, c) THEN {"pending_approval"} ELSE {"blocked_constraint"})

Recommend(n, c) ==
  /\ issued < PlanBound
  /\ incident[n] # "absent"
  /\ LET p == issued + 1
     IN  \E answer \in GateAnswers(p, c) :
           /\ status' = Pruned([status EXCEPT ![p] = answer])
           /\ issued' = p
           /\ body' = [q \in 1 .. p |->
                         IF q = p THEN [incident |-> n, targets |-> c.targets,
                                        gain |-> c.gain]
                                  ELSE body[q]]
           /\ incident' = IF /\ answer = "pending_approval"
                             /\ incident[n] \in {"detected", "acknowledged"}
                          THEN [incident EXCEPT ![n] = "mitigating"]
                          ELSE incident
  /\ UNCHANGED <<mode, prev, age, monitor, active, timing>>

(* The incident record is still in memory, whatever state it is in: after  *)
(* an execution of any mode it is set to Monitoring.                       *)
IncidentAfterExecution(p) ==
  incident' = [incident EXCEPT ![body[p].incident] = "monitoring"]

Recheck(p) == Verify(p, body[p])

ApproveBlocked(p) ==
  /\ status[p] = "pending_approval"
  /\ ~ Recheck(p)
  /\ status' = [status EXCEPT ![p] = "blocked_constraint"]
  /\ UNCHANGED <<mode, issued, body, prev, age, monitor, active, timing,
                 incident>>

ApproveShadow(p) ==
  /\ status[p] = "pending_approval"
  /\ Recheck(p)
  /\ mode = "shadow"
  /\ status' = [status EXCEPT ![p] = "shadow_logged"]
  /\ IncidentAfterExecution(p)
  /\ UNCHANGED <<mode, issued, body, prev, age, monitor, active, timing>>

ApproveAdvisory(p) ==
  /\ status[p] = "pending_approval"
  /\ Recheck(p)
  /\ mode = "advisory"
  /\ status' = [status EXCEPT ![p] = "advisory_issued"]
  /\ age' = [age EXCEPT ![p] = 0]
  /\ IncidentAfterExecution(p)
  /\ UNCHANGED <<mode, issued, body, prev, monitor, active, timing>>

ApproveLive(p) ==
  /\ status[p] = "pending_approval"
  /\ Recheck(p)
  /\ mode = "live"
  /\ prev' = [prev EXCEPT ![p] = Captured(body[p])]
  /\ timing' = Extended(body[p])
  /\ active' = Booked(Targets(p), p)
  /\ status' = [status EXCEPT ![p] = "executed"]
  /\ age' = [age EXCEPT ![p] = 0]
  /\ monitor' = [monitor EXCEPT ![p] = "watching"]
  /\ IncidentAfterExecution(p)
  /\ UNCHANGED <<mode, issued, body>>

Reject(p) ==
  /\ status[p] = "pending_approval"
  /\ status' = [status EXCEPT ![p] = "rejected"]
  /\ UNCHANGED <<mode, issued, body, prev, age, monitor, active, timing,
                 incident>>

(* Every target goes back to what this plan has on record, and loses its   *)
(* registration, whichever plan holds it.                                  *)
Rollback(p) ==
  /\ status[p] = "executed"
  /\ timing' = Restored(p)
  /\ active' = Cleared(Targets(p))
  /\ status' = [status EXCEPT ![p] = "reverted"]
  /\ monitor' = [monitor EXCEPT ![p] = "off"]
  /\ UNCHANGED <<mode, issued, body, prev, age, incident>>

-----------------------------------------------------------------------------
(* The platform tick. *)

BadOverdue == {p \in InStatus({"executed"}) : age[p] > AdvisoryExpiry}

Overdue == {p \in InStatus({"advisory_issued"}) : age[p] > AdvisoryExpiry}

ExpireAdvisories ==
  /\ Overdue # {}
  /\ status' = [p \in Plan |-> IF p \in Overdue THEN "expired" ELSE status[p]]
  /\ UNCHANGED <<mode, issued, body, prev, age, monitor, active, timing,
                 incident>>

BadSettlingUncapped == {p \in Monitored : /\ age[p] > RevertWindow
                                          /\ monitor[p] = "watching"}

(* Past the window an unalerted change settles; an alerted one is held for *)
(* the operator until the hard cap.                                        *)
Settling == {p \in Monitored :
               /\ age[p] > RevertWindow
               /\ monitor[p] = "watching" \/ age[p] > AlertedSettle}

Watching == {p \in Plan : /\ monitor[p] = "watching"
                          /\ age[p] <= RevertWindow
                          /\ Targets(p) # {}}

CheckMonitors ==
  /\ \E worse \in SUBSET Watching :
       monitor' = [p \in Plan |-> IF p \in Settling THEN "off"
                                  ELSE IF p \in worse THEN "alerted"
                                  ELSE monitor[p]]
  /\ active' = Cleared(UNION {Targets(p) : p \in Settling})
  /\ UNCHANGED <<mode, issued, status, body, prev, age, timing, incident>>

(* Time passes for every plan whose age some window still reads. *)
Aging == {p \in Plan : \/ /\ p \in Monitored
                          /\ age[p] <= AlertedSettle
                       \/ /\ status[p] = "advisory_issued"
                          /\ age[p] <= AdvisoryExpiry}

Pass ==
  /\ Aging # {}
  /\ age' = [p \in Plan |-> IF p \in Aging THEN age[p] + 1 ELSE age[p]]
  /\ UNCHANGED <<mode, issued, status, body, prev, monitor, active, timing,
                 incident>>

-----------------------------------------------------------------------------
(* Incidents and administration. *)

BadSameKindActive(n) ==
  \E m \in Incident : /\ Kind[m] = Kind[n]
                      /\ incident[m] \in ActiveState \ {"monitoring"}

SameKindActive(n) ==
  \E m \in Incident : Kind[m] = Kind[n] /\ incident[m] \in ActiveState

Detect(n) ==
  /\ incident[n] = "absent"
  /\ ~ SameKindActive(n)
  /\ incident' = [incident EXCEPT ![n] = "detected"]
  /\ UNCHANGED <<mode, issued, status, body, prev, age, monitor, active,
                 timing>>

Acknowledge(n) ==
  /\ incident[n] = "detected"
  /\ incident' = [incident EXCEPT ![n] = "acknowledged"]
  /\ UNCHANGED <<mode, issued, status, body, prev, age, monitor, active,
                 timing>>

Resolve(n) ==
  /\ incident[n] # "absent"
  /\ incident' = [incident EXCEPT ![n] = "resolved"]
  /\ UNCHANGED <<mode, issued, status, body, prev, age, monitor, active,
                 timing>>

SetMode(m) ==
  /\ mode' = m
  /\ UNCHANGED <<issued, status, body, prev, age, monitor, active, timing,
                 incident>>

(* The process restarts: the mode comes back from the store, the signals   *)
(* from the city adapter; plans, monitors, registrations and incidents     *)
(* lived in memory only.                                                   *)
Restart ==
  /\ status' = [p \in Plan |-> IF status[p] = "absent" THEN "absent"
                               ELSE "forgotten"]
  /\ monitor' = [p \in Plan |-> "off"]
  /\ active' = [i \in Intersection |-> NoPlan]
  /\ timing' = [i \in Intersection |-> 0]
  /\ incident' = [n \in Incident |-> "absent"]
  /\ prev' = [p \in Plan |-> [i \in Intersection |-> 0]]
  /\ age' = [p \in Plan |-> 0]
  /\ UNCHANGED <<mode, issued, body>>

-----------------------------------------------------------------------------
Approve(p) ==
  ApproveBlocked(p) \/ ApproveShadow(p) \/ ApproveAdvisory(p) \/ ApproveLive(p)

Next ==
  \/ \E n \in Incident, c \in Proposals : Recommend(n, c)
  \/ \E p \in Plan : Approve(p) \/ Reject(p) \/ Rollback(p)
  \/ ExpireAdvisories
  \/ CheckMonitors
  \/ Pass
  \/ \E n \in Incident : Detect(n) \/ Acknowledge(n) \/ Resolve(n)
  \/ \E m \in Mode : SetMode(m)
  \/ Restart

Spec == Init /\ [][Next]_vars

(* The tick thread runs every few seconds for as long as the process       *)
(* lives, and time passes; nothing obliges an operator to act.             *)
Fairness == WF_vars(Pass) /\ WF_vars(ExpireAdvisories) /\ WF_vars(CheckMonitors)

FairSpec == Spec /\ Fairness
=============================================================================
