---------------------------- MODULE ShiftHandover ---------------------------
(***************************************************************************)
(* The shift-handover report (platform/nexus/server.py, /api/handover): it *)
(* lists the active incidents, then the plans, then the resolved ones on a *)
(* page of the incidents detected in its window (engine.py,                *)
(* active_incidents and query_incidents), while incidents are detected,    *)
(* resolved, reopened by an executed plan and dropped from memory.         *)
(*                                                                         *)
(* Incidents are numbered by detection.  Plans are read under one lock and *)
(* left out; so are acknowledgements, which keep an incident active.       *)
(***************************************************************************)
EXTENDS Integers, FiniteSets

CONSTANTS
  MaxDetected,  \* bound on the incidents
  PageLimit     \* the report's limit of 50

ASSUME HandoverAssumption ==
  /\ MaxDetected \in Nat /\ PageLimit \in Nat \ {0}

Incident == 1..MaxDetected

VARIABLES
  state,     \* of each incident; "none" before detection, "dropped" at last
  step,      \* of the report: "idle", "opened", "written"
  since,     \* the first incident detected in its window
  open,      \* what it lists as open
  resolved,  \* what it lists as resolved
  cut,       \* ghost: what the page had no room for
  known,     \* ghost: incidents in memory when it began
  reopened   \* ghost: reopened since

handoverVars == <<state, step, since, open, resolved, cut, known, reopened>>
report == <<step, since, open, resolved, cut, known>>

HandoverInit ==
  /\ state = [i \in Incident |-> "none"]
  /\ step = "idle" /\ since = 1
  /\ open = {} /\ resolved = {} /\ cut = {} /\ known = {} /\ reopened = {}

InMemory(i) == state[i] \notin {"none", "dropped"}

BadActive(i) == state[i] = "detected"
Active(i) == InMemory(i) /\ state[i] # "resolved"

-----------------------------------------------------------------------------
Detect ==
  \E i \in Incident :
    /\ state[i] = "none" /\ \A j \in 1..(i - 1) : state[j] # "none"
    /\ state' = [state EXCEPT ![i] = "detected"]
    /\ UNCHANGED <<report, reopened>>

Resolve(i) ==
  /\ InMemory(i)
  /\ state' = [state EXCEPT ![i] = "resolved"]
  /\ UNCHANGED <<report, reopened>>

(* A plan is executed: its incident is monitored, resolved or not.         *)
Execute(i) ==
  /\ InMemory(i)
  /\ state' = [state EXCEPT ![i] = "monitoring"]
  /\ reopened' = IF state[i] = "resolved" THEN reopened \cup {i} ELSE reopened
  /\ UNCHANGED report

(* INCIDENT_RETENTION_S after its resolution                               *)
Drop(i) ==
  /\ state[i] = "resolved"
  /\ state' = [state EXCEPT ![i] = "dropped"]
  /\ UNCHANGED <<report, reopened>>

-----------------------------------------------------------------------------
(* active_incidents, under the lock                                        *)
ReadOpen ==
  /\ step = "idle" /\ step' = "opened"
  /\ since' \in 1..(MaxDetected + 1)
  /\ open' = {i \in Incident : Active(i)}
  /\ known' = {i \in Incident : InMemory(i)}
  /\ resolved' = {} /\ cut' = {} /\ reopened' = {}
  /\ UNCHANGED state

Matched == {i \in Incident : InMemory(i) /\ i >= since}

(* order="desc", limit: the newest of them                                 *)
Page == {i \in Matched : Cardinality({j \in Matched : j > i}) < PageLimit}

(* query_incidents, active ones included, of which the resolved are kept   *)
ReadResolved ==
  /\ step = "opened" /\ step' = "written"
  /\ resolved' = {i \in Page : state[i] = "resolved"}
  /\ cut' = Matched \ Page
  /\ UNCHANGED <<state, since, open, known, reopened>>

Deliver ==
  /\ step = "written" /\ step' = "idle"
  /\ UNCHANGED <<state, since, open, resolved, cut, known, reopened>>

HandoverNext ==
  \/ Detect
  \/ \E i \in Incident : Resolve(i) \/ Execute(i) \/ Drop(i)
  \/ ReadOpen \/ ReadResolved \/ Deliver

HandoverSpec == HandoverInit /\ [][HandoverNext]_handoverVars

-----------------------------------------------------------------------------
(* What the report leaves out of "everything the incoming operator needs"  *)
(* (server.py:872), whatever happens between its two looks at the          *)
(* incidents.  Of those there when it began, one still in memory that is   *)
(* in neither list                                                         *)
(*   - was detected before the window and is resolved: the second look     *)
(*     asks for those detected in the window, so one that the shift        *)
(*     resolved is left out with those that earlier shifts did; or         *)
(*   - was reopened between the looks, or is beyond the page.              *)
HandoverOmissions ==
  step = "written" =>
    \A i \in known :
      InMemory(i) /\ i \notin open \cup resolved =>
        \/ i < since /\ state[i] = "resolved"
        \/ i \in reopened \cup cut
=============================================================================
