-------------------------- MODULE IncidentReports ---------------------------
(***************************************************************************)
(* How incidents come about: detections on the telemetry topic and 911     *)
(* dispatches (platform/nexus/engine.py), citizens' reports and their      *)
(* confirmations, and the moderation of what the vision model could not    *)
(* decide (platform/nexus/community.py).  Every one of them first looks    *)
(* for an active incident to join and adds one only when there is none;    *)
(* between the look and the addition lies a camera fetch or a call to the  *)
(* vision model, and nothing is locked.                                    *)
(*                                                                         *)
(* Left out: uploads that fail validation, the throttle per user, texts,   *)
(* comments, the count of all reports of a citizen (only displayed), and   *)
(* executions that reopen an incident (PlanLifecycle has them).            *)
(***************************************************************************)
EXTENDS Integers, FiniteSets, Sequences, SequencesExt

CONSTANTS
  Place,          \* monitored intersections
  Kind,           \* incident types, Collision among them
  Collision,
  Citizen,
  Request,        \* request threads of citizens
  Moderator,      \* request threads of operators deciding reports
  Detector,       \* threads that publish telemetry: the tick, the sweep
  Tick,           \* the detector that also correlates 911 dispatches
  Dispatch,       \* ids of traffic-impacting dispatches
  DedupeBound,    \* size at which the set of correlated ids is halved
  MaxIncidents,   \* bound on the incidents ever added
  MaxReports,     \* bound on the uploads
  MaxRestarts     \* bound on the restarts

ASSUME ReportAssumption ==
  /\ Collision \in Kind /\ Tick \in Detector
  /\ {DedupeBound, MaxIncidents, MaxReports, MaxRestarts} \subseteq Nat

Thread == Request \cup Moderator \cup Detector
Report == 1..MaxReports

VARIABLES
  incidents,   \* added so far, [at, kind, source, state]
  reports,     \* rows of community_reports, by report, [user, about, status]
  shown,       \* incidents each report was attached to or published as
  profile,     \* rows of community_profiles, [verified, reputation]
  correlated,  \* _correlated_911
  call,        \* what each thread is doing
  uploads,     \* uploads so far
  restarts,
  cutOff       \* reports a restart interrupted

vars == <<incidents, reports, shown, profile, correlated, call, uploads,
          restarts, cutOff>>

Idle   == [op |-> "idle"]
NoRow  == [status |-> "none"]

Init ==
  /\ incidents = <<>>
  /\ reports = [r \in Report |-> NoRow]
  /\ shown = [r \in Report |-> <<>>]
  /\ profile = [u \in Citizen |-> [verified |-> 0, reputation |-> 0]]
  /\ correlated = {}
  /\ call = [t \in Thread |-> Idle]
  /\ uploads = 0 /\ restarts = 0 /\ cutOff = {}

ActiveAt(i) == {n \in DOMAIN incidents :
                  incidents[n].at = i /\ incidents[n].state = "active"}
BadActiveOf(i, k) == {n \in ActiveAt(i) :
                        incidents[n].kind = k /\ incidents[n].source # "sfd_911"}
ActiveOf(i, k) == {n \in ActiveAt(i) : incidents[n].kind = k}

(* next(..., None): the first in order of insertion, 0 when there is none. *)
First(S) == IF S = {} THEN 0 ELSE CHOOSE n \in S : \A m \in S : n <= m

Added(i, k, source) ==
  /\ Len(incidents) < MaxIncidents
  /\ incidents' = Append(incidents,
       [at |-> i, kind |-> k, source |-> source, state |-> "active"])

-----------------------------------------------------------------------------
(* _raise_incident: look for an active incident of the kind, ...           *)
LookForActive(t, i, k) ==
  /\ call[t] = Idle
  /\ ActiveOf(i, k) = {}
  /\ call' = [call EXCEPT ![t] = [op |-> "detect", at |-> i, kind |-> k]]
  /\ UNCHANGED <<incidents, reports, shown, profile, correlated, uploads,
                 restarts, cutOff>>

(* ... fetch the frame of the camera, then add one.                        *)
AddDetected(t) ==
  /\ call[t].op = "detect"
  /\ Added(call[t].at, call[t].kind, "edge")
  /\ call' = [call EXCEPT ![t] = Idle]
  /\ UNCHANGED <<reports, shown, profile, correlated, uploads, restarts, cutOff>>

(* The set of ids, once above its bound, is cut to an arbitrary half.      *)
Bounded(S) ==
  IF Cardinality(S) <= DedupeBound THEN {S}
  ELSE {T \in SUBSET S : Cardinality(T) = DedupeBound \div 2}

(* correlate_911, for a feed with one new dispatch, near intersection i.   *)
Correlate(d, i) ==
  /\ call[Tick] = Idle
  /\ d \notin correlated
  /\ correlated' \in Bounded(correlated \cup {d})
  /\ IF ActiveOf(i, Collision) # {} THEN UNCHANGED incidents
                                    ELSE Added(i, Collision, "sfd_911")
  /\ UNCHANGED <<reports, shown, profile, call, uploads, restarts, cutOff>>

(* An operator resolves an incident. *)
Resolve(n) ==
  /\ incidents[n].state # "gone"
  /\ incidents' = [incidents EXCEPT ![n].state = "resolved"]
  /\ UNCHANGED <<reports, shown, profile, correlated, call, uploads, restarts,
                 cutOff>>

(* _prune_incident_memory: one resolved long ago leaves the graph; a call  *)
(* that found it before keeps the record and writes to it all the same.    *)
Prune(n) ==
  /\ incidents[n].state = "resolved"
  /\ incidents' = [incidents EXCEPT ![n].state = "gone"]
  /\ UNCHANGED <<reports, shown, profile, correlated, call, uploads, restarts,
                 cutOff>>

-----------------------------------------------------------------------------
(* report: look for an active incident at the place, ...                   *)
BeginReport(t, u, i, k) ==
  /\ call[t] = Idle /\ uploads < MaxReports
  /\ uploads' = uploads + 1
  /\ call' = [call EXCEPT ![t] =
       [op |-> "report", user |-> u, report |-> uploads', at |-> i, kind |-> k,
        join |-> First(ActiveAt(i))]]
  /\ UNCHANGED <<incidents, reports, shown, profile, correlated, restarts, cutOff>>

(* confirm: the citizen names an incident still in memory, of any state.   *)
BeginConfirm(t, u, n) ==
  /\ call[t] = Idle /\ uploads < MaxReports
  /\ incidents[n].state # "gone"
  /\ uploads' = uploads + 1
  /\ call' = [call EXCEPT ![t] =
       [op |-> "confirm", user |-> u, report |-> uploads',
        at |-> incidents[n].at, kind |-> incidents[n].kind, join |-> n]]
  /\ UNCHANGED <<incidents, reports, shown, profile, correlated, restarts, cutOff>>

(* Attach report r to incident n, or publish it when n is 0.               *)
Show(r, n, i, k) ==
  IF n # 0
    THEN /\ shown' = [shown EXCEPT ![r] = Append(@, n)]
         /\ UNCHANGED incidents
    ELSE /\ Added(i, k, "community")
         /\ shown' = [shown EXCEPT ![r] = Append(@, Len(incidents'))]

(* ... ask the vision model, then show what it verified and store the row  *)
(* (report shows first, confirm stores first; nothing else looks between). *)
BadShows(verdict) == verdict # "rejected"
Shows(verdict) == verdict = "verified"

Answer(t, verdict) ==
  /\ call[t].op \in {"report", "confirm"}
  /\ LET c == call[t] IN
     /\ reports' = [reports EXCEPT ![c.report] =
          [status |-> verdict, user |-> c.user, about |-> c.op, at |-> c.at,
           kind |-> c.kind, join |-> IF c.op = "confirm" THEN c.join ELSE 0]]
     /\ IF Shows(verdict) THEN Show(c.report, c.join, c.at, c.kind)
                          ELSE UNCHANGED <<incidents, shown>>
     /\ call' = [call EXCEPT ![t] =
          [op |-> "bump", user |-> c.user, report |-> c.report,
           good |-> verdict = "verified", then |-> "done"]]
  /\ UNCHANGED <<profile, correlated, uploads, restarts, cutOff>>

-----------------------------------------------------------------------------
(* _bump_reputation reads the profile, ...                                 *)
ReadProfile(t) ==
  /\ call[t].op = "bump"
  /\ call' = [call EXCEPT ![t] =
       [op |-> "write", user |-> call[t].user, report |-> call[t].report,
        good |-> call[t].good, then |-> call[t].then,
        read |-> profile[call[t].user]]]
  /\ UNCHANGED <<incidents, reports, shown, profile, correlated, uploads,
                 restarts, cutOff>>

BadBumped(p, good) ==
  [verified |-> p.verified,
   reputation |-> IF good THEN p.reputation + 5 ELSE p.reputation - 1]

Bumped(p, good) ==
  IF good THEN [verified |-> p.verified + 1, reputation |-> p.reputation + 5]
  ELSE [verified |-> p.verified,
        reputation |-> IF p.reputation = 0 THEN 0 ELSE p.reputation - 1]

(* ... and writes it back; a moderator then stores the decision.           *)
WriteProfile(t) ==
  /\ call[t].op = "write"
  /\ profile' = [profile EXCEPT ![call[t].user] = Bumped(call[t].read, call[t].good)]
  /\ call' = [call EXCEPT ![t] =
       IF call[t].then = "done" THEN Idle
       ELSE [op |-> "store", report |-> call[t].report, status |-> "verified"]]
  /\ UNCHANGED <<incidents, reports, shown, correlated, uploads, restarts, cutOff>>

-----------------------------------------------------------------------------
(* moderate: only a pending report can be decided, ...                     *)
Undecided(r) == reports[r].status = "pending"

BeginModerate(t, r) ==
  /\ call[t] = Idle
  /\ Undecided(r)
  /\ call' = [call EXCEPT ![t] = [op |-> "moderate", report |-> r]]
  /\ UNCHANGED <<incidents, reports, shown, profile, correlated, uploads,
                 restarts, cutOff>>

(* ... an approved one joins the active incident of its place or becomes   *)
(* one; a confirmation whose incident is no longer in memory joins none.   *)
Approve(t) ==
  /\ call[t].op = "moderate"
  /\ LET r == call[t].report IN
     /\ IF reports[r].about = "report"
          THEN Show(r, First(ActiveAt(reports[r].at)), reports[r].at, reports[r].kind)
          ELSE IF incidents[reports[r].join].state # "gone"
            THEN Show(r, reports[r].join, reports[r].at, reports[r].kind)
            ELSE UNCHANGED <<incidents, shown>>
     /\ call' = [call EXCEPT ![t] =
          [op |-> "bump", user |-> reports[r].user, report |-> r,
           good |-> TRUE, then |-> "store"]]
  /\ UNCHANGED <<reports, profile, correlated, uploads, restarts, cutOff>>

Reject(t) ==
  /\ call[t].op = "moderate"
  /\ call' = [call EXCEPT ![t] =
       [op |-> "store", report |-> call[t].report, status |-> "rejected"]]
  /\ UNCHANGED <<incidents, reports, shown, profile, correlated, uploads,
                 restarts, cutOff>>

StoreDecision(t) ==
  /\ call[t].op = "store"
  /\ reports' = [reports EXCEPT ![call[t].report].status = call[t].status]
  /\ call' = [call EXCEPT ![t] = Idle]
  /\ UNCHANGED <<incidents, shown, profile, correlated, uploads, restarts, cutOff>>

-----------------------------------------------------------------------------
(* A restart keeps the store and loses the incidents in memory, the        *)
(* correlated ids and every call under way.                                *)
Restart ==
  /\ restarts < MaxRestarts
  /\ restarts' = restarts + 1
  /\ incidents' = [n \in DOMAIN incidents |-> [incidents[n] EXCEPT !.state = "gone"]]
  /\ correlated' = {}
  /\ call' = [t \in Thread |-> Idle]
  /\ cutOff' = cutOff \cup {call[t].report : t \in
                 {s \in Thread : "report" \in DOMAIN call[s]}}
  /\ UNCHANGED <<reports, shown, profile, uploads>>

Next ==
  \/ \E t \in Detector : \E i \in Place, k \in Kind : LookForActive(t, i, k)
  \/ \E t \in Detector : AddDetected(t)
  \/ \E d \in Dispatch, i \in Place : Correlate(d, i)
  \/ \E n \in DOMAIN incidents : Resolve(n) \/ Prune(n)
  \/ \E t \in Request, u \in Citizen :
       \/ \E i \in Place, k \in Kind : BeginReport(t, u, i, k)
       \/ \E n \in DOMAIN incidents : BeginConfirm(t, u, n)
  \/ \E t \in Request, v \in {"verified", "rejected", "pending"} : Answer(t, v)
  \/ \E t \in Request \cup Moderator : ReadProfile(t) \/ WriteProfile(t)
  \/ \E t \in Moderator, r \in Report : BeginModerate(t, r)
  \/ \E t \in Moderator : Approve(t) \/ Reject(t) \/ StoreDecision(t)
  \/ Restart

Spec == Init /\ [][Next]_vars

-----------------------------------------------------------------------------
(* Reports of u that somebody, model or operator, found to be true.        *)
Upheld(u) == {r \in Report : reports[r].status = "verified" /\ reports[r].user = u}

(* Reports a call is working on. *)
Busy == {call[t].report : t \in {s \in Thread : "report" \in DOMAIN call[s]}}

(* What the city sees of a report is what was decided about it: nothing of *)
(* one that is rejected or waits, and a verified one exactly once, unless  *)
(* the incident it confirms was gone; a restart in mid-call excepted       *)
(* (community.py:22-24, moderate).                                         *)
ShownAsDecided ==
  \A r \in Report \ (Busy \cup cutOff) :
    /\ reports[r].status \in {"none", "rejected", "pending"} => shown[r] = <<>>
    /\ reports[r].status = "verified" =>
         \/ Len(shown[r]) = 1
         \/ reports[r].about = "confirm" /\ shown[r] = <<>>
              /\ incidents[reports[r].join].state = "gone"

(* A citizen's standing is backed by evidence that was upheld, whatever    *)
(* updates of the profile are lost to one another; a moderation repeated   *)
(* after a restart excepted (_bump_reputation).                            *)
StandingIsBacked ==
  \A u \in Citizen :
    /\ profile[u].reputation <= 5 * profile[u].verified
    /\ cutOff = {} =>
         profile[u].verified <= Cardinality(Upheld(u)) +
           Cardinality({t \in Moderator : call[t].op = "store"
                                            /\ call[t].status = "verified"})

(* The detectors and the 911 feed do not raise one incident twice, as long *)
(* as one thread does the looking (engine.py:295-301, 400-409).            *)
DetectorsNeverDuplicate ==
  \A m, n \in DOMAIN incidents :
    /\ incidents[m].source # "community" /\ incidents[n].source # "community"
    /\ incidents[m].state = "active" /\ incidents[n].state = "active"
    /\ incidents[m].at = incidents[n].at /\ incidents[m].kind = incidents[n].kind
    => m = n

(* community.py:14-15: "Reports matching an existing active incident       *)
(* attach as corroboration instead of duplicating it."  The code does not  *)
(* keep it: the look is older than the vision model's answer.              *)
ReportsNeverDuplicate ==
  [][\A i \in Place :
       ActiveAt(i) # {} =>
         \A n \in DOMAIN incidents' \ DOMAIN incidents :
           incidents'[n].at = i => incidents'[n].source # "community"]_vars
=============================================================================
