---------------------------- MODULE SignalTiming ----------------------------
(***************************************************************************)
(* The timing of one signal through its verified changes, their rollbacks  *)
(* and emergency vehicles coming and going: the real rules and the real    *)
(* arithmetic that PlanLifecycle abstracts to a sum of extensions under a  *)
(* headroom.                                                               *)
(*                                                                         *)
(* A change here is one approve as this signal sees it: verify, then       *)
(* _execute, which comes by once for every time the plan lists the signal. *)
(* The registrations of R6 are PlanLifecycle's business; a signal takes a  *)
(* second change once the first has settled, so here any number may be     *)
(* executed and not rolled back.                                           *)
(***************************************************************************)
EXTENDS TimingRules

CONSTANTS
  Configured,       \* timings a signal may be configured with
  OperationLists,   \* lists of operations a plan may have for the signal
  MaxChanges        \* bound on the changes executed

ASSUME ConfiguredAreTimings == \A t \in Configured : IsTiming(t)
ASSUME OperationsAreTyped ==
  \A ops \in OperationLists :
    ops \in Seq([type : STRING, phase : Int, delta : Int]) /\ ops # <<>>
ASSUME BoundsAreNatural == MaxChanges \in Nat

VARIABLES
  configured,   \* the timing the signal was loaded with
  timing,       \* Intersection.timing_plan
  prior,        \* previous_timing of each executed change, by its number
  ems,          \* the signal is in active_ems_intersections()
  made          \* changes executed so far: the number of the last

vars == <<configured, timing, prior, ems, made>>

Init ==
  /\ configured \in Configured
  /\ timing = configured
  /\ prior = [n \in {} |-> configured]
  /\ ems = FALSE
  /\ made = 0

(* The timing after n applications of the operations; n may be negative.   *)
Applied(t, ops, n) ==
  Added(t, [k \in DOMAIN t.phases |-> n * GainOf(ops, k)], n * LongerBy(ops))

(* How often the plan lists the signal: the language model's plans, all    *)
(* extensions, list it once per operation (copilot.py:268-294).  Lists of  *)
(* other operations, which no planner makes today, stand for one mention.  *)
Visits(ops) ==
  IF \A n \in DOMAIN ops : ops[n].type = "extend_green" THEN Len(ops) ELSE 1

(* One application is verified.  Each visit records the timing it finds,   *)
(* over what an earlier visit recorded, and applies all the operations.    *)
Change(ops) ==
  /\ made < MaxChanges
  /\ made' = made + 1
  /\ VerifySignal(timing, ops, ems)
  /\ timing' = Applied(timing, ops, Visits(ops))
  /\ prior' = [n \in DOMAIN prior \cup {made'} |->
                 IF n = made' THEN Applied(timing, ops, Visits(ops) - 1)
                 ELSE prior[n]]
  /\ UNCHANGED <<configured, ems>>

(* What a rollback writes back: the cycle and the greens on record, the    *)
(* rest of the timing as it is.                                            *)
BadReverted(t, p) == [t EXCEPT !.cycle = p.cycle]
Reverted(t, p) ==
  [t EXCEPT !.cycle = p.cycle,
            !.phases = [k \in DOMAIN t.phases |->
                          WithGreen(t.phases[k], p.phases[k].green)]]

(* The n-th executed change is rolled back; nothing is verified. *)
Rollback(n) ==
  /\ timing' = Reverted(timing, prior[n])
  /\ prior' = Restrict(prior, DOMAIN prior \ {n})
  /\ UNCHANGED <<configured, ems, made>>

(* An EMS_RESPONDING incident is attached here, or the last one resolved.  *)
EmergencyVehicle ==
  /\ ems' = ~ems
  /\ UNCHANGED <<configured, timing, prior, made>>

Next ==
  \/ \E ops \in OperationLists : Change(ops)
  \/ \E n \in DOMAIN prior : Rollback(n)
  \/ EmergencyVehicle

Spec == Init /\ [][Next]_vars

-----------------------------------------------------------------------------
(* What R1 and R5 come to together, though neither says so: every green    *)
(* between ten seconds and two minutes.  R1's seven and four seconds never *)
(* decide, because R5 turns away what lies between them and ten seconds    *)
(* (rulepacks.py:192-205).                                                 *)
GreensInBand ==
  (R1(timing) /\ R5(timing)) <=>
    /\ timing.cycle \in MinCycle..MaxCycle
    /\ \A k \in DOMAIN timing.phases : timing.phases[k].green \in MinPhase..MaxPhase

(* No phase is listed as conflicting with itself. *)
NoSelfConflict(t) == \A k \in DOMAIN t.phases : k \notin t.phases[k].conflicts

(* A green extension of a legal timing is legal exactly when it fits under *)
(* the longest cycle and the longest phase: R1-R4 cannot stop it, because  *)
(* the cycle grows with the phase (safety.py:81-83).  This is what lets    *)
(* PlanLifecycle count extensions against one headroom.                    *)
ExtensionNeedsRoomOnly ==
  Legal(timing) /\ NoSelfConflict(timing) =>
    \A k \in DOMAIN timing.phases, d \in {1, 50, 100, 250} :
      Legal(ApplyAll(timing, <<[type |-> "extend_green", phase |-> k, delta |-> d]>>))
        <=> Fits(timing, k, d)

(* Whatever is changed and rolled back in whatever order, a timing outside *)
(* the rules is the configured one, or owes it to a list of operations     *)
(* applied again after its only verification: with no more than the        *)
(* repetitions taken off, it is legal.  An illegal configuration can be    *)
(* mended, and come back, but nothing else can arise, although a rollback  *)
(* verifies nothing (engine.py:887-902, 1006).                             *)
Repeated(t) ==
  \E ops \in OperationLists : \E n \in 0..(Visits(ops) - 1) :
    Known(t, ops) /\ Legal(Applied(t, ops, -n))

RulesBrokenOnlyByRepeats ==
  timing = configured \/ Legal(timing) \/ Repeated(timing)

(* Where no list is applied twice, the signal runs a timing within the     *)
(* rules or the one it was configured with.                                *)
LegalOrConfigured == Legal(timing) \/ timing = configured

(* Operations touch greens and the cycle only, so the verdict of the       *)
(* work-zone pack on a legal timing rests on its cycle and on the          *)
(* clearance it was configured with (rulepacks.py:210-262).                *)
WorkzoneByCycleAndClearance ==
  Legal(timing) => (LegalInWorkzone(timing) <=> WZ2(timing) /\ WZ3(configured))

(* While an emergency vehicle depends on the signal, neither a green nor   *)
(* the cycle gets shorter, except that a rollback takes its extension back *)
(* (R7, safety.py:160-168, is asked of plans only).                        *)
EmsPriorityLostOnlyByRollback ==
  [][ems /\ DOMAIN prior \subseteq DOMAIN prior' =>
       /\ timing'.cycle >= timing.cycle
       /\ \A k \in DOMAIN timing.phases :
            timing'.phases[k].green >= timing.phases[k].green]_vars

(* What MASTER_PROMPT.md:51 asks: "Never reduce green priority on a        *)
(* corridor with an attached active Incident of status EMS_RESPONDING".    *)
(* The code does not keep it: a rollback is not verified.                  *)
EmsPriorityKept ==
  [][ems => \A k \in DOMAIN timing.phases :
              timing'.phases[k].green >= timing.phases[k].green]_vars
=============================================================================
