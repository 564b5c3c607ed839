--------------------------- MODULE ApprovalThreads ---------------------------
(***************************************************************************)
(* The handlers of PlanLifecycle taken apart.  The HTTP server runs every  *)
(* request in a thread of its own and the tick runs in another; approve,   *)
(* reject, rollback and the settlement of a change hold no lock from their *)
(* first read to their last write (platform/nexus/engine.py).  An action   *)
(* here is one read or write of shared state, or one locked section.       *)
(*                                                                         *)
(* Abstractions, beyond those of PlanLifecycle:                            *)
(*  - the plans exist and wait for a decision from the start; their list   *)
(*    of targets may be empty, and may repeat a signal when the language    *)
(*    model wrote it (copilot.py:268-289 checks each operation, not the     *)
(*    list), with one operation per mention;                               *)
(*  - any monitored change may be past its window when a tick looks;       *)
(*  - the steps of one verification after its locked snapshot of the       *)
(*    bookings, and of writing one signal's timing back, are not split:    *)
(*    the first gives its answer one way or the other before anything is   *)
(*    written, the second overwrites fields nobody reads one by one;       *)
(*  - incidents, persistence, the audit trail and events come after the    *)
(*    last write of a handler and are left out.                            *)
(***************************************************************************)
EXTENDS Integers, FiniteSets, SequencesExt

CONSTANTS
  Thread,         \* request threads
  Ticker,         \* threads that run the platform tick
  Plan,           \* plans awaiting a decision
  Intersection,
  TargetsOf,      \* TargetsOf[p]: plan.targets, in order
  StartMode,      \* the mode the platform starts in
  NextModes,      \* the modes an administrator may switch to meanwhile
  Headroom,       \* seconds a signal can gain before a timing rule fails
  MaxConcurrent   \* ConstraintVerifier.max_concurrent_changes

NoPlan == "none"
Extension == 1    \* seconds of green every operation adds

ASSUME ThreadAssumption ==
  /\ Thread \cap Ticker = {}
  /\ Thread # {} /\ IsFiniteSet(Thread)
ASSUME PlanAssumption == NoPlan \notin Plan
ASSUME TargetsAssumption ==
  /\ IsFiniteSet(Intersection)
  /\ TargetsOf \in [Plan -> Seq(Intersection)]
  /\ \E p \in Plan : \A q \in Plan : Len(TargetsOf[q]) <= Len(TargetsOf[p])
ASSUME LimitAssumption == Headroom \in Nat /\ MaxConcurrent \in Nat

Mode == {"shadow", "advisory", "live"}
Status == {"pending_approval", "blocked_constraint", "approved", "rejected",
           "shadow_logged", "advisory_issued", "executed", "reverted"}
Timing == [Intersection -> Nat]

VARIABLES
  mode,      \* engine.mode
  status,    \* plan.status
  prev,      \* plan.previous_timing, per target
  timing,    \* seconds added to each intersection's configured timing plan
  active,    \* verifier._active_changes
  watched,   \* the keys of engine._monitoring
  at,        \* where each thread stands
  plan,      \* the plan it works on
  todo,      \* the targets its loop has still to visit
  snap,      \* its local copy of earlier timings
  fresh      \* the timing plan it has computed and not yet installed

shared == <<mode, status, prev, timing, active, watched>>
local == <<at, plan, todo, snap, fresh>>
vars == <<shared, local>>

Actor == Thread \union Ticker
NoTiming == [i \in {} |-> 0]

Place == {"idle", "verify", "block", "grant", "mode", "mode_again", "capture",
          "compute", "install", "register", "record", "execute", "watch",
          "reject", "restore", "clear", "revert", "unwatch", "settle"}

TypeOK ==
  /\ mode \in Mode
  /\ status \in [Plan -> Status]
  /\ \A p \in Plan : prev[p] \in [DOMAIN prev[p] -> Nat]
  /\ timing \in Timing
  /\ active \in [Intersection -> Plan \union {NoPlan}]
  /\ watched \subseteq Plan
  /\ at \in [Actor -> Place]
  /\ plan \in [Actor -> Plan \union {NoPlan}]
  /\ \A t \in Actor : /\ todo[t] \in Seq(Intersection)
                      /\ snap[t] \in [DOMAIN snap[t] -> Nat]
                      /\ fresh[t] \in Nat

Targets(p) == ToSet(TargetsOf[p])
Registered == {i \in Intersection : active[i] # NoPlan}

(* Seconds the operations of plan p that name i add, applied once. *)
Added(p, i) ==
  Extension * Cardinality({k \in DOMAIN TargetsOf[p] : TargetsOf[p][k] = i})

(* Places of the list whose signal is not booked yet. *)
NewTargets(p) == {k \in DOMAIN TargetsOf[p] : TargetsOf[p][k] \notin Registered}

BadR6Allows(p) ==
  /\ Cardinality(Registered) <= MaxConcurrent
  /\ \A i \in Targets(p) : active[i] \in {NoPlan, p}

R6Allows(p) ==
  /\ Cardinality(Registered) + Cardinality(NewTargets(p)) <= MaxConcurrent
  /\ \A i \in Targets(p) : active[i] \in {NoPlan, p}

BadRulesAllow(p) == \A i \in Targets(p) : timing[i] <= Headroom

RulesAllow(p) == \A i \in Targets(p) : timing[i] + Added(p, i) <= Headroom

Init ==
  /\ mode = StartMode
  /\ status = [p \in Plan |-> "pending_approval"]
  /\ prev = [p \in Plan |-> NoTiming]
  /\ timing = [i \in Intersection |-> 0]
  /\ active = [i \in Intersection |-> NoPlan]
  /\ watched = {}
  /\ at = [t \in Actor |-> "idle"]
  /\ plan = [t \in Actor |-> NoPlan]
  /\ todo = [t \in Actor |-> <<>>]
  /\ snap = [t \in Actor |-> NoTiming]
  /\ fresh = [t \in Actor |-> 0]

Goto(t, place) == at' = [at EXCEPT ![t] = place]

(* The handler returns; its locals are gone. *)
Return(t) ==
  /\ Goto(t, "idle")
  /\ plan' = [plan EXCEPT ![t] = NoPlan]
  /\ todo' = [todo EXCEPT ![t] = <<>>]
  /\ snap' = [snap EXCEPT ![t] = NoTiming]
  /\ fresh' = [fresh EXCEPT ![t] = 0]

Enter(t, p, place) ==
  /\ at[t] = "idle"
  /\ Goto(t, place)
  /\ plan' = [plan EXCEPT ![t] = p]

(* The handler's thread goes round its loop over the plan's targets again, *)
(* or on to what follows it.                                               *)
Loop(t, body, after) ==
  /\ todo' = [todo EXCEPT ![t] = Tail(@)]
  /\ Goto(t, IF Len(todo[t]) = 1 THEN after ELSE body)

SetStatus(p, s) == status' = [status EXCEPT ![p] = s]

-----------------------------------------------------------------------------
(* approve: the status check, the verification, the status write.          *)

BeginApprove(t, p) ==
  /\ status[p] = "pending_approval"
  /\ Enter(t, p, "verify")
  /\ UNCHANGED <<shared, todo, snap, fresh>>

VerifyAgain(t) ==
  /\ at[t] = "verify"
  /\ Goto(t, IF R6Allows(plan[t]) /\ RulesAllow(plan[t]) THEN "grant" ELSE "block")
  /\ UNCHANGED <<shared, plan, todo, snap, fresh>>

Block(t) ==
  /\ at[t] = "block"
  /\ SetStatus(plan[t], "blocked_constraint")
  /\ Return(t)
  /\ UNCHANGED <<mode, prev, timing, active, watched>>

Grant(t) ==
  /\ at[t] = "grant"
  /\ SetStatus(plan[t], "approved")
  /\ Goto(t, "mode")
  /\ UNCHANGED <<mode, prev, timing, active, watched, plan, todo, snap, fresh>>

(* _execute compares self.mode twice; what is neither Shadow at the first  *)
(* look nor Advisory at the second is treated as Live.                     *)
ExecuteShadow(t) ==
  /\ at[t] = "mode"
  /\ mode = "shadow"
  /\ SetStatus(plan[t], "shadow_logged")
  /\ Return(t)
  /\ UNCHANGED <<mode, prev, timing, active, watched>>

LookAgain(t) ==
  /\ at[t] = "mode"
  /\ mode # "shadow"
  /\ Goto(t, "mode_again")
  /\ UNCHANGED <<shared, plan, todo, snap, fresh>>

ExecuteAdvisory(t) ==
  /\ at[t] = "mode_again"
  /\ mode = "advisory"
  /\ SetStatus(plan[t], "advisory_issued")
  /\ Return(t)
  /\ UNCHANGED <<mode, prev, timing, active, watched>>

ExecuteLive(t) ==
  /\ at[t] = "mode_again"
  /\ mode # "advisory"
  /\ todo' = [todo EXCEPT ![t] = TargetsOf[plan[t]]]
  /\ Goto(t, IF TargetsOf[plan[t]] = <<>> THEN "record" ELSE "capture")
  /\ UNCHANGED <<shared, plan, snap, fresh>>

(* The Live branch, once per target: remember the timing, compute a new    *)
(* timing plan from it, install that plan, register the change.            *)
Capture(t) ==
  /\ at[t] = "capture"
  /\ LET i == Head(todo[t])
     IN  snap' = [snap EXCEPT ![t] = [j \in DOMAIN @ \union {i} |->
                                        IF j = i THEN timing[i] ELSE @[j]]]
  /\ Goto(t, "compute")
  /\ UNCHANGED <<shared, plan, todo, fresh>>

BadProposed(t) ==
  LET i == Head(todo[t]) IN timing[i] - Added(plan[t], i)

(* Every operation that names the signal is applied at every visit.        *)
Proposed(t) ==
  LET i == Head(todo[t]) IN timing[i] + Added(plan[t], i)

Compute(t) ==
  /\ at[t] = "compute"
  /\ fresh' = [fresh EXCEPT ![t] = Proposed(t)]
  /\ Goto(t, "install")
  /\ UNCHANGED <<shared, plan, todo, snap>>

Install(t) ==
  /\ at[t] = "install"
  /\ timing' = [timing EXCEPT ![Head(todo[t])] = fresh[t]]
  /\ Goto(t, "register")
  /\ UNCHANGED <<mode, status, prev, active, watched, plan, todo, snap, fresh>>

Register(t) ==
  /\ at[t] = "register"
  /\ active' = [active EXCEPT ![Head(todo[t])] = plan[t]]
  /\ Loop(t, "capture", "record")
  /\ UNCHANGED <<mode, status, prev, timing, watched, plan, snap, fresh>>

BadRecorded(t) == prev

Recorded(t) == [prev EXCEPT ![plan[t]] = snap[t]]

RecordPrevious(t) ==
  /\ at[t] = "record"
  /\ prev' = Recorded(t)
  /\ Goto(t, "execute")
  /\ UNCHANGED <<mode, status, timing, active, watched, plan, todo, snap, fresh>>

MarkExecuted(t) ==
  /\ at[t] = "execute"
  /\ SetStatus(plan[t], "executed")
  /\ Goto(t, "watch")
  /\ UNCHANGED <<mode, prev, timing, active, watched, plan, todo, snap, fresh>>

Watch(t) ==
  /\ at[t] = "watch"
  /\ watched' = watched \union {plan[t]}
  /\ Return(t)
  /\ UNCHANGED <<mode, status, prev, timing, active>>

-----------------------------------------------------------------------------
(* reject: the status check, then the status write.                        *)

BeginReject(t, p) ==
  /\ status[p] = "pending_approval"
  /\ Enter(t, p, "reject")
  /\ UNCHANGED <<shared, todo, snap, fresh>>

Reject(t) ==
  /\ at[t] = "reject"
  /\ SetStatus(plan[t], "rejected")
  /\ Return(t)
  /\ UNCHANGED <<mode, prev, timing, active, watched>>

(* rollback: the status check and the look at previous_timing, then per    *)
(* target the timing and the registration, then the status, then the       *)
(* monitor.                                                                *)

(* previous_timing is a dictionary: its keys come in the order in which    *)
(* the plan names them first.                                              *)
FirstMentions(s, keys) ==
  {k \in DOMAIN s : s[k] \in keys /\ \A j \in 1..(k - 1) : s[j] # s[k]}

InOrder(s, keys) ==
  LET first == FirstMentions(s, keys)
  IN  [n \in 1..Cardinality(first) |->
         s[CHOOSE k \in first : Cardinality({j \in first : j <= k}) = n]]

BeginRollback(t, p) ==
  /\ status[p] = "executed"
  /\ Enter(t, p, IF prev[p] = NoTiming THEN "revert" ELSE "restore")
  /\ snap' = [snap EXCEPT ![t] = prev[p]]
  /\ todo' = [todo EXCEPT ![t] = InOrder(TargetsOf[p], DOMAIN prev[p])]
  /\ UNCHANGED <<shared, fresh>>

Restore(t) ==
  /\ at[t] = "restore"
  /\ LET i == Head(todo[t]) IN timing' = [timing EXCEPT ![i] = snap[t][i]]
  /\ Goto(t, "clear")
  /\ UNCHANGED <<mode, status, prev, active, watched, plan, todo, snap, fresh>>

ClearRestored(t) ==
  /\ at[t] = "clear"
  /\ active' = [active EXCEPT ![Head(todo[t])] = NoPlan]
  /\ Loop(t, "restore", "revert")
  /\ UNCHANGED <<mode, status, prev, timing, watched, plan, snap, fresh>>

MarkReverted(t) ==
  /\ at[t] = "revert"
  /\ SetStatus(plan[t], "reverted")
  /\ Goto(t, "unwatch")
  /\ UNCHANGED <<mode, prev, timing, active, watched, plan, todo, snap, fresh>>

BadUnwatched(t) == watched

Unwatched(t) == watched \ {plan[t]}

Unwatch(t) ==
  /\ at[t] = "unwatch"
  /\ watched' = Unwatched(t)
  /\ Return(t)
  /\ UNCHANGED <<mode, status, prev, timing, active>>

-----------------------------------------------------------------------------
(* _settle_change: the monitor goes under the lock, then the registrations *)
(* of the plan's targets, whoever holds them by then.                      *)

BadSettleTargets(p) == SelectSeq(TargetsOf[p], LAMBDA i : i = Head(TargetsOf[p]))

SettleTargets(p) == TargetsOf[p]

BeginSettle(t, p) ==
  /\ p \in watched
  /\ at[t] = "idle"
  /\ watched' = watched \ {p}
  /\ IF SettleTargets(p) = <<>>
     THEN UNCHANGED local
     ELSE /\ Enter(t, p, "settle")
          /\ todo' = [todo EXCEPT ![t] = SettleTargets(p)]
          /\ UNCHANGED <<snap, fresh>>
  /\ UNCHANGED <<mode, status, prev, timing, active>>

ClearSettled(t) ==
  /\ at[t] = "settle"
  /\ active' = [active EXCEPT ![Head(todo[t])] = NoPlan]
  /\ IF Len(todo[t]) = 1
     THEN Return(t)
     ELSE Loop(t, "settle", "settle") /\ UNCHANGED <<plan, snap, fresh>>
  /\ UNCHANGED <<mode, status, prev, timing, watched>>

SetMode(m) ==
  /\ m # mode
  /\ mode' = m
  /\ UNCHANGED <<status, prev, timing, active, watched, local>>

-----------------------------------------------------------------------------
Approving(t) ==
  \/ VerifyAgain(t) \/ Block(t) \/ Grant(t)
  \/ ExecuteShadow(t) \/ LookAgain(t) \/ ExecuteAdvisory(t) \/ ExecuteLive(t)
  \/ Capture(t) \/ Compute(t) \/ Install(t) \/ Register(t)
  \/ RecordPrevious(t) \/ MarkExecuted(t) \/ Watch(t)

RollingBack(t) ==
  Restore(t) \/ ClearRestored(t) \/ MarkReverted(t) \/ Unwatch(t)

Continue(t) == Approving(t) \/ Reject(t) \/ RollingBack(t) \/ ClearSettled(t)

Begin(t, p) == BeginApprove(t, p) \/ BeginReject(t, p) \/ BeginRollback(t, p)

Next ==
  \/ \E t \in Thread, p \in Plan : Begin(t, p)
  \/ \E t \in Ticker, p \in Plan : BeginSettle(t, p)
  \/ \E t \in Actor : Continue(t)
  \/ \E m \in NextModes : SetMode(m)

Spec == Init /\ [][Next]_vars
=============================================================================
