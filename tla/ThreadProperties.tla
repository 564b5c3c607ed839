-------------------------- MODULE ThreadProperties ---------------------------
(***************************************************************************)
(* What survives when handlers interleave, and what does not.  With one    *)
(* request at a time next to the tick the promises of PlanProperties hold; *)
(* with two requests in flight only the weaker ones below do.              *)
(***************************************************************************)
EXTENDS ApprovalThreads

BusyWith(p) == \E t \in Actor : plan[t] = p

(* A thread that will still put plan p on the watch list, or clear i. *)
WillAnswerFor(t, p, i) ==
  /\ plan[t] = p
  /\ \/ at[t] \in {"capture", "compute", "install", "register", "record",
                   "execute", "watch"}
     \/ at[t] \in {"restore", "clear", "settle"} /\ i \in ToSet(todo[t])

(* No booking leaks: at every instant a booked signal belongs to a change  *)
(* that is monitored, or some handler in flight is about to monitor that   *)
(* change or to clear the booking.  A booking outside both would be        *)
(* counted by R6 until the process dies (engine.py:48-50).                 *)
NothingLeaks ==
  \A i \in Registered :
    \/ active[i] \in watched
    \/ \E t \in Actor : WillAnswerFor(t, active[i], i)

(* R6 at the granularity of single writes: a plan that books its signals   *)
(* one by one never pushes the table over the limit (safety.py:133-138).   *)
R6Budget == Cardinality(Registered) <= MaxConcurrent

(* A monitored change can be rolled back: once no handler works on it, its *)
(* plan says executed, which is what rollback asks for (engine.py:837-839).*)
WatchedCanBeRolledBack ==
  \A p \in watched : status[p] = "executed" \/ BusyWith(p)

(* However many requests race, an executed plan has recorded the timing of *)
(* every one of its targets: a rollback never skips a signal.              *)
ExecutedIsReversible ==
  \A p \in Plan : status[p] = "executed" => DOMAIN prev[p] = Targets(p)

MostTargets == CHOOSE n \in {Len(TargetsOf[p]) : p \in Plan} :
                 \A p \in Plan : Len(TargetsOf[p]) <= n

(* The damage of verifying before registering is bounded: with k requests  *)
(* in flight the R6 limit is overrun by at most the targets of k - 1 plans.*)
OverrunBounded ==
  Cardinality(Registered)
    <= MaxConcurrent + (Cardinality(Thread) - 1) * MostTargets

-----------------------------------------------------------------------------
(* Statements of the documents that some interleaving, or some plan, breaks *)
(* (besides R6Budget, NothingLeaks and WatchedCanBeRolledBack above, which  *)
(* two requests in flight break).                                           *)

(* "Shadow: log only - never touches timing plans" (engine.py:863), and    *)
(* Advisory only issues an instruction, on every code path (README.md:380): *)
(* while the platform is never in Live mode no signal changes.             *)
NeverLiveNeverTouched ==
  "live" \notin NextModes \union {StartMode} =>
    \A i \in Intersection : timing[i] = 0

(* "one-click revert restores the exact prior timing" (README.md:384): once *)
(* every plan is reverted and no handler runs, each signal is back on its  *)
(* configured timing.                                                      *)
RevertRestoresPrior ==
  (\A p \in Plan : status[p] = "reverted") /\ (\A t \in Actor : at[t] = "idle")
    => \A i \in Intersection : timing[i] = 0
=============================================================================
