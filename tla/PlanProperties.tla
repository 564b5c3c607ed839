--------------------------- MODULE PlanProperties ----------------------------
(***************************************************************************)
(* What should be true of PlanLifecycle: the invariants and action         *)
(* properties its runs check, what the documents say that the code does    *)
(* not do, and the mapping under which it implements GovernedSignals.      *)
(***************************************************************************)
EXTENDS PlanLifecycle, FiniteSetsExt

(* No ghost registrations: whenever R6 counts a signal as changing, the    *)
(* plan it is booked to is executed, still monitored, and names that       *)
(* signal.  A booking without its monitor would never be cleared and would *)
(* eat a slot of the system-wide budget for good (engine.py:48-50).        *)
RegistrationOwned ==
  \A i \in Registered :
    /\ status[active[i]] = "executed"
    /\ active[i] \in Monitored
    /\ i \in Targets(active[i])

(* R6: no order of approvals, settlements and rollbacks ever books more    *)
(* signals than the system-wide limit (safety.py, verify).                 *)
R6Budget == Cardinality(Registered) <= MaxConcurrent

(* R1-R5 hold of what the streets run, and of every timing a rollback      *)
(* could still bring back, however approvals and rollbacks interleave.     *)
(* Only the approved timing is ever verified; a rollback verifies nothing. *)
(* True of a planner that names no signal twice in one plan.               *)
TimingWithinRules ==
  /\ \A i \in Intersection : timing[i] <= Headroom
  /\ \A p \in Plan, i \in Intersection : prev[p][i] <= Headroom

ListedOnce(c) == \A i \in Range(c.targets) : Mentions(c, i) = 1

(* Plans that may have changed a signal; a forgotten one may have. *)
WentLive == {"executed", "reverted", "forgotten"}

(* The timing s of signal i is one that a verification allowed, or goes    *)
(* beyond it by no more than the visits that one plan made to i without    *)
(* being verified for them.                                                *)
Explained(i, s) ==
  \/ s <= Headroom
  \/ \E p \in DOMAIN body :
       /\ status[p] \in WentLive
       /\ s <= Headroom + Unverified(body[p], i)

(* Approvals verify one application of a plan's operations while execution *)
(* applies them once per place of the list (safety.py:149-176,             *)
(* engine.py:887-902).  Still, whatever rollbacks write back in whatever   *)
(* order, no signal runs, and no record holds, a timing outside R1-R5 but  *)
(* for the repeated visits of one single plan: breaches never add up.      *)
RulesBrokenOnlyByRepeats ==
  /\ \A i \in Intersection : Explained(i, timing[i])
  /\ \A p \in Plan, i \in Intersection : Explained(i, prev[p][i])

(* Two monitored changes never share a signal.                             *)
Disjoint ==
  \A p, q \in Monitored : p # q => Targets(p) \cap Targets(q) = {}

(* Every monitored change holds the booking of each of its signals.        *)
AllBooked == \A p \in Monitored : \A i \in Targets(p) : active[i] = p

(* A booked change is the topmost one on its signals: what the signal runs *)
(* is what the change has on record for it plus one application of its     *)
(* operations.  If its list names the signal once, the record is what the  *)
(* change found there and taking it back restores the exact prior timing   *)
(* (README.md:384); if the list repeats the signal, the record is what the *)
(* last visit found, and taking the change back leaves the earlier visits  *)
(* on the street (engine.py:887-902).                                      *)
BookedChangeOnTop ==
  \A i \in Registered :
    timing[i] = prev[active[i]][i] + body[active[i]].gain[i]

(* The operator takes back a change that has already settled. *)
RollbackOfSettled ==
  \E p \in Plan \ Monitored : status[p] = "executed" /\ status'[p] = "reverted"

(* The only step that takes a booking away from the change it protects is  *)
(* the rollback of a settled plan: settlements, rollbacks inside the       *)
(* window, restarts and executions all leave the other changes' bookings   *)
(* alone as long as every booking was right before them.                   *)
BookingsLostOnlyBySettledRollback ==
  [][AllBooked /\ ~ RollbackOfSettled => AllBooked']_vars

(* Nothing but the hard cap, the operator or a restart ends the watch over *)
(* a change that was seen to make congestion worse (engine.py:47-51).      *)
AlertHeldForOperator ==
  [][\A p \in Plan :
       monitor[p] = "alerted" /\ monitor'[p] # "alerted" =>
         \/ age[p] > AlertedSettle
         \/ status'[p] \in {"reverted", "forgotten"}]_vars

-----------------------------------------------------------------------------
(* Seconds on signal i that executed plans account for. *)
Accounted(i) ==
  FoldSet(LAMBDA p, sum : sum + Mentions(body[p], i) * body[p].gain[i], 0,
          {p \in InStatus({"executed"}) : i \in Targets(p)})

(* What each signal runs is its configured plan plus what the visits of    *)
(* the executed plans added, neither more nor less.                        *)
Balanced == \A i \in Intersection : timing[i] = Accounted(i)

(* The operator takes back a change that named a signal twice. *)
RollbackOfRepeat ==
  \E p \in InStatus({"executed"}) :
    status'[p] = "reverted" /\ ~ ListedOnce(body[p])

(* The signals stay in balance through every step except the rollback of   *)
(* a settled plan or of one that named a signal twice: otherwise, while    *)
(* the bookings are right, what an operator takes back is exactly what the *)
(* plan had put there, although rollback restores a snapshot and subtracts *)
(* nothing.                                                                *)
BalanceLostOnlyByOddRollback ==
  [][AllBooked /\ Balanced /\ ~ RollbackOfSettled /\ ~ RollbackOfRepeat
       => Balanced']_vars

-----------------------------------------------------------------------------
(* Every booking is given back: the R6 budget is never permanently         *)
(* consumed, whatever the operators do or do not do.                       *)
BookingReleased ==
  \A i \in Intersection, p \in Plan : active[i] = p ~> active[i] # p

(* An advisory the field never confirms does not stay open. *)
AdvisoryLapses ==
  \A p \in Plan : status[p] = "advisory_issued" ~> status[p] # "advisory_issued"

-----------------------------------------------------------------------------
(* Two incidents of one kind are never active at once... *)
OneActiveIncidentPerKind ==
  \A m, n \in Incident :
    /\ m # n
    /\ Kind[m] = Kind[n]
    => ~ (incident[m] \in ActiveState /\ incident[n] \in ActiveState)

(* An approval puts an incident that was resolved back to Monitoring. *)
Reopening ==
  \E n \in Incident : incident[n] = "resolved" /\ incident'[n] = "monitoring"

(* ... unless an execution reopened a resolved one: while an incident goes *)
(* through acknowledgement, mitigation and monitoring, detections of its   *)
(* kind keep folding into it, whatever plans do (engine.py:296-301).       *)
DuplicateOnlyByReopening ==
  [][OneActiveIncidentPerKind /\ ~ Reopening => OneActiveIncidentPerKind']_vars

-----------------------------------------------------------------------------
(* Statements of the documents that the code does not keep, besides        *)
(* OneActiveIncidentPerKind: "Deduplicate: one active incident per         *)
(* intersection+type." (engine.py:296)                                     *)

(* "No single intersection receives more than one concurrent timing        *)
(* change" (PRD_v2.md:234), R6 in safety.py:133-141.                       *)
OneChangePerIntersection == Disjoint

(* "one-click revert restores the exact prior timing" (README.md:384): so  *)
(* once no plan is executed any more, no signal runs anything but its      *)
(* configured plan.                                                        *)
RollbackLeavesNothingBehind ==
  InStatus({"executed"}) = {} => \A i \in Intersection : timing[i] = 0

(* "Bound the in-memory plan table" (engine.py:953): even the changes that *)
(* are over and done with, executed and settled, fit into the table.       *)
PlanTableBounded ==
  Cardinality(InStatus({"executed"}) \ Monitored) <= MaxPlans

-----------------------------------------------------------------------------
(* PlanLifecycle implements GovernedSignals. *)

LifeOf(s) ==
  CASE s = "absent"           -> "unborn"
    [] s = "pending_approval" -> "open"
    [] s = "executed"         -> "live"
    [] s = "advisory_issued"  -> "advised"
    [] s = "forgotten"        -> "gone"
    [] OTHER                  -> "closed"

Promise == INSTANCE GovernedSignals WITH
  Live      <- "live",
  Advisory  <- "advisory",
  Base      <- 0,
  authority <- mode,
  life      <- [p \in Plan |-> LifeOf(status[p])],
  scope     <- [p \in Plan |-> Targets(p)]

(* Whatever the handlers do in detail, seen from the street the platform   *)
(* keeps its promise: plans only move forward, and timing changes only     *)
(* with the plan that names it, under the mode that allows it.             *)
KeepsPromise == Promise!Spec
=============================================================================
