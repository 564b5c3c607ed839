---------------------------- MODULE ReportProofs ----------------------------
(***************************************************************************)
(* What reports, moderation and detectors keep, for any number of          *)
(* citizens, request threads, places, incidents and uploads.               *)
(*                                                                         *)
(* The theorems about reports are about one moderator at a time: two who   *)
(* decide one report at once publish it twice.  DecisionInv then says, of  *)
(* every report no restart cut off, what its row, the incidents it was     *)
(* shown on and the calls that work on it have to do with one another.     *)
(* CreditInv counts the reports whose credit has been written: a profile,  *)
(* and a copy of it that a call holds, never shows more.                   *)
(***************************************************************************)
EXTENDS IncidentReports, FiniteSetTheorems, SequenceTheorems, TLAPS

Reporting == {"report", "confirm", "bump", "write", "moderate", "store"}

Asking(t) == call[t].op \in {"report", "confirm"}
Crediting(t) == call[t].op \in {"bump", "write"}

(* A citizen's request is still working on its report.                     *)
Requesting(t) == Asking(t) \/ (Crediting(t) /\ call[t].then = "done")

(* A moderator is deciding a report; he has approved it.                   *)
Moderating(t) ==
  call[t].op \in {"moderate", "store"} \/ (Crediting(t) /\ call[t].then = "store")
Approving(t) ==
  \/ Crediting(t) /\ call[t].then = "store"
  \/ call[t].op = "store" /\ call[t].status = "verified"

Incident ==
  [at : Place, kind : Kind, source : {"edge", "sfd_911", "community"},
   state : {"active", "resolved", "gone"}]

Shaped ==
  /\ DOMAIN reports = Report /\ DOMAIN shown = Report
  /\ DOMAIN profile = Citizen /\ DOMAIN call = Thread
  /\ uploads \in 0..MaxReports
  /\ incidents \in Seq(Incident)

Row ==
  [status : {"verified", "rejected", "pending"}, user : Citizen,
   about : {"report", "confirm"}, at : Place, kind : Kind, join : Nat]

CallShape(t) ==
  /\ call[t].op \in Reporting \union {"idle", "detect"}
  /\ "report" \in DOMAIN call[t] <=> call[t].op \in Reporting
  /\ call[t].op \in Reporting => call[t].report \in 1..uploads
  /\ call[t].op \in {"report", "confirm", "bump", "write"} => call[t].user \in Citizen
  /\ call[t].op = "detect" => call[t].at \in Place /\ call[t].kind \in Kind
  /\ Asking(t) => call[t].at \in Place /\ call[t].kind \in Kind
  /\ call[t].op = "confirm" => call[t].join \in DOMAIN incidents
  /\ Crediting(t) => call[t].then \in {"done", "store"} /\ call[t].good \in BOOLEAN
  /\ call[t].op = "store" => call[t].status \in {"verified", "rejected"}
  /\ Moderating(t) => reports[call[t].report] \in Row

RowShape(r) ==
  /\ reports[r] = NoRow \/ reports[r] \in Row
  /\ reports[r].about = "confirm" /\ reports[r] \in Row =>
       reports[r].join \in DOMAIN incidents
  /\ r > uploads =>
       reports[r] = NoRow /\ shown[r] = <<>> /\ r \notin cutOff

ReportShape ==
  /\ Shaped
  /\ \A t \in Thread : CallShape(t)
  /\ \A r \in Report : RowShape(r)

(* What a call knows of the row it works on.                               *)
CallFits(t) ==
  /\ Asking(t) => reports[call[t].report].status = "none"
  /\ Moderating(t) => t \in Moderator /\ reports[call[t].report].status = "pending"
  /\ Crediting(t) =>
       /\ reports[call[t].report].user = call[t].user
       /\ call[t].then = "store" => call[t].good
       /\ call[t].then = "done" /\ call[t].good =>
            reports[call[t].report].status = "verified"

CallInv ==
  /\ ReportShape
  /\ \A t \in Thread : CallFits(t)
  /\ \A s, t \in Thread :
       Requesting(s) /\ Requesting(t) /\ call[s].report = call[t].report => s = t

(* Shown once, or confirming an incident that is no longer there.          *)
ShownOnce(r) ==
  \/ Len(shown[r]) = 1
  \/ reports[r].about = "confirm" /\ shown[r] = <<>>
       /\ incidents[reports[r].join].state = "gone"

Approved(r) == \E t \in Thread : Approving(t) /\ call[t].report = r

DecisionInv ==
  \A r \in Report \ cutOff :
    IF Approved(r) \/ reports[r].status = "verified" THEN ShownOnce(r)
                                                     ELSE shown[r] = <<>>

(* Reports of u whose credit is written. *)
Credited(u) ==
  {r \in Report :
     /\ reports[r].status # "none" /\ reports[r].user = u
     /\ \/ /\ reports[r].status = "verified"
           /\ \A t \in Thread :
                Crediting(t) /\ call[t].report = r => ~call[t].good
        \/ \E t \in Thread : /\ call[t].op = "store" /\ call[t].report = r
                             /\ call[t].status = "verified"}

WithinCredit(p, u) ==
  /\ p.verified \in Nat /\ p.reputation \in Nat
  /\ p.reputation <= 5 * p.verified
  /\ cutOff = {} => p.verified <= Cardinality(Credited(u))

CreditInv ==
  /\ \A u \in Citizen : WithinCredit(profile[u], u)
  /\ \A t \in Thread :
       call[t].op = "write" => WithinCredit(call[t].read, call[t].user)

-----------------------------------------------------------------------------
(* Incidents are only added, and once gone or resolved they stay so.       *)

Follows(new, old) ==
  /\ new \in Seq(Incident)
  /\ DOMAIN old \subseteq DOMAIN new
  /\ \A n \in DOMAIN old :
       /\ new[n].at = old[n].at /\ new[n].kind = old[n].kind
       /\ new[n].source = old[n].source
       /\ old[n].state = "gone" => new[n].state = "gone"
       /\ new[n].state = "active" => old[n].state = "active"

LEMMA AddedFollows ==
  ASSUME Shaped, NEW i \in Place, NEW k \in Kind,
         NEW source \in {"edge", "sfd_911", "community"},
         Added(i, k, source)
  PROVE  /\ Follows(incidents', incidents)
         /\ DOMAIN incidents' = DOMAIN incidents \union {Len(incidents) + 1}
         /\ Len(incidents) + 1 \notin DOMAIN incidents
         /\ incidents'[Len(incidents) + 1]
              = [at |-> i, kind |-> k, source |-> source, state |-> "active"]
         /\ \A n \in DOMAIN incidents : incidents'[n] = incidents[n]
<1> DEFINE e == [at |-> i, kind |-> k, source |-> source, state |-> "active"]
<1>1. e \in Incident
  BY DEF Incident
<1>2. incidents' = Append(incidents, e) /\ incidents \in Seq(Incident)
  BY DEF Added, Shaped
<1> HIDE DEF e
<1>3. /\ incidents' \in Seq(Incident) /\ Len(incidents) \in Nat
      /\ DOMAIN incidents = 1..Len(incidents)
      /\ DOMAIN incidents' = 1..(Len(incidents) + 1)
      /\ incidents'[Len(incidents) + 1] = e
      /\ \A n \in 1..Len(incidents) : incidents'[n] = incidents[n]
  BY <1>1, <1>2
<1>4. DOMAIN incidents' = DOMAIN incidents \union {Len(incidents) + 1}
  BY <1>3
<1> QED BY <1>3, <1>4 DEF Follows, e

LEMMA StateFollows ==
  ASSUME Shaped, NEW n \in DOMAIN incidents, NEW st \in {"resolved", "gone"},
         incidents[n].state # "gone",
         incidents' = [incidents EXCEPT ![n].state = st]
  PROVE  /\ Follows(incidents', incidents)
         /\ DOMAIN incidents' = DOMAIN incidents
<1>1. /\ incidents \in Seq(Incident) /\ incidents[n] \in Incident
      /\ n \in 1..Len(incidents) /\ Len(incidents) \in Nat
  BY DEF Shaped
<1> DEFINE e == [incidents[n] EXCEPT !.state = st]
<1>2. /\ e \in Incident /\ e.state = st /\ e.at = incidents[n].at
      /\ e.kind = incidents[n].kind /\ e.source = incidents[n].source
  BY <1>1 DEF Incident
<1>3. incidents' = [incidents EXCEPT ![n] = e]
  OBVIOUS
<1> HIDE DEF e
<1>4. incidents' \in Seq(Incident) /\ DOMAIN incidents' = DOMAIN incidents
  BY <1>1, <1>2, <1>3
<1>5. \A m \in DOMAIN incidents :
        incidents'[m] = IF m = n THEN e ELSE incidents[m]
  BY <1>3
<1> QED BY <1>2, <1>4, <1>5 DEF Follows

LEMMA AllGoneFollows ==
  ASSUME Shaped,
         incidents' = [n \in DOMAIN incidents |->
                         [incidents[n] EXCEPT !.state = "gone"]]
  PROVE  /\ Follows(incidents', incidents)
         /\ DOMAIN incidents' = DOMAIN incidents
<1>1. /\ incidents \in Seq(Incident) /\ Len(incidents) \in Nat
      /\ DOMAIN incidents = 1..Len(incidents)
  BY DEF Shaped
<1>2. ASSUME NEW n \in DOMAIN incidents
      PROVE  /\ incidents'[n] \in Incident /\ incidents'[n].state = "gone"
             /\ incidents'[n].at = incidents[n].at
             /\ incidents'[n].kind = incidents[n].kind
             /\ incidents'[n].source = incidents[n].source
  <2>1. incidents[n] \in Incident
    BY <1>1
  <2> QED BY <2>1 DEF Incident
<1>3. DOMAIN incidents' = DOMAIN incidents
  OBVIOUS
<1>4. incidents' \in [1..Len(incidents) -> Incident]
  BY <1>1, <1>2
<1>5. incidents' \in Seq(Incident)
  BY <1>1, <1>4, SeqDef
<1> QED BY <1>2, <1>3, <1>5 DEF Follows

LEMMA UnchangedFollows ==
  ASSUME Shaped, incidents' = incidents
  PROVE  Follows(incidents', incidents)
BY DEF Follows, Shaped

LEMMA ShowFollows ==
  ASSUME Shaped, NEW r, NEW n, NEW i \in Place, NEW k \in Kind, Show(r, n, i, k)
  PROVE  Follows(incidents', incidents)
BY AddedFollows, UnchangedFollows DEF Show

(* A report that is being decided has a row.                               *)
LEMMA ModeratedRow ==
  ASSUME ReportShape, NEW t \in Thread, Moderating(t)
  PROVE  LET r == call[t].report IN
         /\ r \in Report /\ reports[r] \in Row
         /\ reports[r].user \in Citizen /\ reports[r].about \in {"report", "confirm"}
         /\ reports[r].at \in Place /\ reports[r].kind \in Kind
         /\ reports[r].about = "confirm" => reports[r].join \in DOMAIN incidents
<1> DEFINE r == call[t].report
<1>1. CallShape(t) /\ Shaped
  BY DEF ReportShape
<1>2. r \in 1..uploads /\ reports[r] \in Row
  BY <1>1 DEF CallShape, Moderating, Crediting, Reporting
<1>3. r \in Report
  BY <1>1, <1>2, ReportAssumption DEF Shaped, Report
<1>4. RowShape(r)
  BY <1>3 DEF ReportShape
<1> QED BY <1>2, <1>3, <1>4 DEF RowShape, Row

LEMMA IncidentsFollow ==
  ASSUME ReportShape, [Next]_vars
  PROVE  Follows(incidents', incidents)
<1>0. ReportShape /\ Shaped
  BY DEF ReportShape
<1>1. CASE incidents' = incidents
  BY <1>0, <1>1, UnchangedFollows
<1>2. ASSUME NEW t \in Detector, AddDetected(t)
      PROVE  Follows(incidents', incidents)
  <2>1. call[t].at \in Place /\ call[t].kind \in Kind
    BY <1>0, <1>2 DEF AddDetected, ReportShape, CallShape, Thread
  <2> QED BY <1>0, <1>2, <2>1, AddedFollows DEF AddDetected
<1>3. ASSUME NEW d \in Dispatch, NEW i \in Place, Correlate(d, i)
      PROVE  Follows(incidents', incidents)
  <2>1. CASE Added(i, Collision, "sfd_911")
    BY <1>0, <2>1, ReportAssumption, AddedFollows
  <2> QED BY <1>1, <1>3, <2>1 DEF Correlate
<1>4. ASSUME NEW n \in DOMAIN incidents, Resolve(n) \/ Prune(n)
      PROVE  Follows(incidents', incidents)
  BY <1>0, <1>4, StateFollows DEF Resolve, Prune
<1>5. ASSUME NEW t \in Request, NEW v, Answer(t, v)
      PROVE  Follows(incidents', incidents)
  <2>1. call[t].at \in Place /\ call[t].kind \in Kind
    BY <1>0, <1>5 DEF Answer, ReportShape, CallShape, Asking, Thread
  <2>2. CASE Shows(v)
    BY <1>0, <1>5, <2>1, <2>2, ShowFollows DEF Answer
  <2>3. CASE ~Shows(v)
    BY <1>1, <1>5, <2>3 DEF Answer
  <2> QED BY <2>2, <2>3
<1>6. ASSUME NEW t \in Moderator, Approve(t)
      PROVE  Follows(incidents', incidents)
  <2> DEFINE r == call[t].report
  <2>1. /\ r \in Report /\ reports[r].at \in Place /\ reports[r].kind \in Kind
        /\ reports[r].about \in {"report", "confirm"}
    BY <1>6, ModeratedRow DEF Approve, Moderating, Thread
  <2>2. CASE incidents' = incidents
    BY <1>1, <2>2
  <2>3. CASE ~(incidents' = incidents)
    <3>1. \E n : Show(r, n, reports[r].at, reports[r].kind)
      BY <1>6, <2>1, <2>3 DEF Approve
    <3> QED BY <1>0, <2>1, <3>1, ShowFollows
  <2> QED BY <2>2, <2>3
<1>7. CASE Restart
  BY <1>0, <1>7, AllGoneFollows DEF Restart
<1> QED
  BY <1>1, <1>2, <1>3, <1>4, <1>5, <1>6, <1>7
     DEF Next, LookForActive, BeginReport, BeginConfirm, ReadProfile, WriteProfile,
         BeginModerate, Reject, StoreDecision, vars

(* Showing a report lengthens what is shown of it and of no other.         *)
LEMMA ShowLengthens ==
  ASSUME Shaped, NEW r \in Report, NEW n, NEW i, NEW k, Show(r, n, i, k)
  PROVE  /\ DOMAIN shown' = Report
         /\ \E m : shown'[r] = Append(shown[r], m)
         /\ \A q \in Report : q # r => shown'[q] = shown[q]
<1>1. PICK m : shown' = [shown EXCEPT ![r] = Append(@, m)]
  BY DEF Show
<1> QED BY <1>1 DEF Shaped

-----------------------------------------------------------------------------
(* The shape of the state, and what the calls know, at every step.         *)

LEMMA ShapeInit ==
  ASSUME Init
  PROVE  CallInv
<1>1. /\ \A t \in Thread : call[t] = [op |-> "idle"]
      /\ \A r \in Report : reports[r] = [status |-> "none"] /\ shown[r] = <<>>
      /\ uploads = 0 /\ cutOff = {}
  BY DEF Init, Idle, NoRow
<1>2. Shaped
  BY ReportAssumption DEF Init, Shaped
<1>3. \A t \in Thread : CallShape(t) /\ CallFits(t) /\ ~Requesting(t)
  BY <1>1 DEF CallShape, CallFits, Reporting, Asking, Crediting, Moderating,
              Requesting
<1>4. \A r \in Report : RowShape(r)
  BY <1>1 DEF RowShape, NoRow, Row
<1> QED BY <1>2, <1>3, <1>4 DEF CallInv, ReportShape

(* A call nobody touched keeps its shape, and so does a row.               *)
LEMMA CallStays ==
  ASSUME NEW t \in Thread, CallShape(t), call'[t] = call[t],
         uploads \in Nat, uploads' \in Nat, uploads <= uploads',
         \A r \in 1..uploads : reports[r] \in Row => reports'[r] \in Row,
         DOMAIN incidents \subseteq DOMAIN incidents'
  PROVE  CallShape(t)'
BY DEF CallShape, Asking, Crediting, Moderating, Reporting

LEMMA RowStays ==
  ASSUME NEW r \in Report, RowShape(r), reports'[r] = reports[r],
         uploads \in Nat, uploads' \in Nat, uploads <= uploads',
         r > uploads' => shown'[r] = shown[r] /\ (r \in cutOff' => r \in cutOff),
         DOMAIN incidents \subseteq DOMAIN incidents'
  PROVE  RowShape(r)'
BY DEF RowShape, Report

LEMMA ShapeStep ==
  ASSUME ReportShape, [Next]_vars
  PROVE  ReportShape'
<1>0. ReportShape /\ Shaped /\ (\A t \in Thread : CallShape(t))
        /\ (\A r \in Report : RowShape(r))
  BY DEF ReportShape
<1>1. /\ incidents' \in Seq(Incident)
      /\ DOMAIN incidents \subseteq DOMAIN incidents'
  BY IncidentsFollow DEF Follows
<1>2. /\ uploads \in Nat /\ uploads \in 0..MaxReports /\ MaxReports \in Nat
      /\ 1..uploads \subseteq Report
  BY <1>0, ReportAssumption DEF Shaped, Report
<1>3. ASSUME NEW t \in Thread, CallShape(t)',
             \A s \in Thread : s # t => call'[s] = call[s],
             uploads' \in uploads..MaxReports,
             \A r \in 1..uploads : reports[r] \in Row => reports'[r] \in Row
      PROVE  \A s \in Thread : CallShape(s)'
  <2>1. uploads' \in Nat /\ uploads <= uploads'
    BY <1>2, <1>3
  <2> QED BY <1>0, <1>1, <1>2, <1>3, <2>1, CallStays DEF Shaped
<1>4. CASE /\ reports' = reports /\ shown' = shown /\ profile' = profile
           /\ cutOff' = cutOff /\ DOMAIN call' = Thread
           /\ uploads' \in uploads..MaxReports
           /\ \A t \in Thread : CallShape(t)'
  <2>1. \A r \in Report : RowShape(r)'
    BY <1>0, <1>1, <1>2, <1>4, RowStays
  <2> QED BY <1>0, <1>1, <1>2, <1>4, <2>1 DEF ReportShape, Shaped
<1>5. CASE call' = call /\ UNCHANGED <<reports, shown, profile, cutOff, uploads>>
  <2>1. \A t \in Thread : CallShape(t)'
    BY <1>0, <1>1, <1>2, <1>5, CallStays
  <2> QED BY <1>0, <1>2, <1>4, <1>5, <2>1 DEF Shaped
<1>6. ASSUME NEW t \in Detector, NEW i \in Place, NEW k \in Kind, LookForActive(t, i, k)
      PROVE  ReportShape'
  <2>1. t \in Thread /\ call'[t] = [op |-> "detect", at |-> i, kind |-> k]
    BY <1>0, <1>6 DEF LookForActive, Thread, Shaped
  <2>2. CallShape(t)'
    BY <2>1 DEF CallShape, Asking, Crediting, Moderating, Reporting
  <2>3. \A s \in Thread : CallShape(s)'
    BY <1>0, <1>2, <1>3, <1>6, <2>1, <2>2 DEF LookForActive, Shaped
  <2> QED BY <1>0, <1>2, <1>4, <1>6, <2>3 DEF LookForActive, Shaped
<1>7. ASSUME NEW t \in Detector, AddDetected(t)
      PROVE  ReportShape'
  <2>1. t \in Thread /\ call'[t] = [op |-> "idle"]
    BY <1>0, <1>7 DEF AddDetected, Thread, Shaped, Idle
  <2>2. CallShape(t)'
    BY <2>1 DEF CallShape, Asking, Crediting, Moderating, Reporting
  <2>3. \A s \in Thread : CallShape(s)'
    BY <1>0, <1>2, <1>3, <1>7, <2>1, <2>2 DEF AddDetected, Shaped
  <2> QED BY <1>0, <1>2, <1>4, <1>7, <2>3 DEF AddDetected, Shaped
<1>8. ASSUME NEW t \in Request, NEW u \in Citizen,
             \/ \E i \in Place, k \in Kind : BeginReport(t, u, i, k)
             \/ \E n \in DOMAIN incidents : BeginConfirm(t, u, n)
      PROVE  ReportShape'
  <2>1. \A n \in DOMAIN incidents : incidents[n].at \in Place /\ incidents[n].kind \in Kind
    <3>1. \A n \in DOMAIN incidents : incidents[n] \in Incident
      BY <1>0 DEF Shaped
    <3> QED BY <3>1 DEF Incident
  <2>2. t \in Thread /\ uploads' = uploads + 1 /\ uploads < MaxReports
    BY <1>8 DEF BeginReport, BeginConfirm, Thread
  <2>3. uploads' \in uploads..MaxReports /\ uploads' \in 1..uploads'
    BY <1>2, <2>2
  <2>4. CASE \E i \in Place, k \in Kind : BeginReport(t, u, i, k)
    <3>1. PICK i \in Place, k \in Kind : BeginReport(t, u, i, k)
      BY <2>4
    <3>2. call'[t] = [op |-> "report", user |-> u, report |-> uploads', at |-> i,
                      kind |-> k, join |-> First(ActiveAt(i))]
      BY <1>0, <2>2, <3>1 DEF BeginReport, Shaped
    <3>3. CallShape(t)'
      BY <2>3, <3>2 DEF CallShape, Asking, Crediting, Moderating, Reporting
    <3> QED BY <1>0, <1>3, <1>4, <2>2, <2>3, <3>1, <3>3 DEF BeginReport, Shaped
  <2>5. CASE \E n \in DOMAIN incidents : BeginConfirm(t, u, n)
    <3>1. PICK n \in DOMAIN incidents : BeginConfirm(t, u, n)
      BY <2>5
    <3>2. call'[t] = [op |-> "confirm", user |-> u, report |-> uploads',
                      at |-> incidents[n].at, kind |-> incidents[n].kind, join |-> n]
      BY <1>0, <2>2, <3>1 DEF BeginConfirm, Shaped
    <3>3. CallShape(t)'
      BY <1>1, <2>1, <2>3, <3>2 DEF CallShape, Asking, Crediting, Moderating, Reporting
    <3> QED BY <1>0, <1>3, <1>4, <2>2, <2>3, <3>1, <3>3 DEF BeginConfirm, Shaped
  <2> QED BY <1>8, <2>4, <2>5
<1>9. ASSUME NEW t \in Request, NEW v \in {"verified", "rejected", "pending"},
             Answer(t, v)
      PROVE  ReportShape'
  <2> DEFINE r == call[t].report
             row == [status |-> v, user |-> call[t].user, about |-> call[t].op,
                     at |-> call[t].at, kind |-> call[t].kind,
                     join |-> IF call[t].op = "confirm" THEN call[t].join ELSE 0]
  <2>1. /\ t \in Thread /\ CallShape(t) /\ call[t].op \in {"report", "confirm"}
    BY <1>0, <1>9 DEF Answer, Thread
  <2>2. r \in 1..uploads /\ r \in Report
    BY <1>2, <2>1 DEF CallShape, Reporting
  <2>3. /\ call[t].user \in Citizen /\ call[t].at \in Place /\ call[t].kind \in Kind
        /\ call[t].op = "confirm" => call[t].join \in DOMAIN incidents'
    BY <1>1, <2>1 DEF CallShape, Asking
  <2>4. /\ row \in Row
        /\ row.about = "confirm" => row.join \in DOMAIN incidents'
    <3>1. DOMAIN incidents' \subseteq Nat
      BY <1>1
    <3>2. row.join \in Nat /\ (row.about = "confirm" => row.join \in DOMAIN incidents')
      BY <2>3, <3>1
    <3> QED BY <1>9, <2>1, <2>3, <3>2 DEF Row
  <2>5. reports' = [reports EXCEPT ![r] = row]
    BY <1>9 DEF Answer
  <2> HIDE DEF row
  <2>6. reports'[r] = row /\ \A q : q # r => reports'[q] = reports[q]
    BY <1>0, <2>2, <2>5 DEF Shaped
  <2>7. call'[t] = [op |-> "bump", user |-> call[t].user, report |-> r,
                    good |-> v = "verified", then |-> "done"]
    BY <1>0, <1>9, <2>1 DEF Answer, Shaped
  <2>8. CallShape(t)'
    BY <1>9, <2>1, <2>2, <2>7
       DEF Answer, CallShape, Asking, Crediting, Moderating, Reporting
  <2>9. \A s \in Thread : CallShape(s)'
    <3>1. \A q \in 1..uploads : reports[q] \in Row => reports'[q] \in Row
      BY <2>4, <2>6
    <3>2. uploads' \in uploads..MaxReports /\ \A s \in Thread : s # t => call'[s] = call[s]
      BY <1>2, <1>9 DEF Answer
    <3> QED BY <1>3, <2>1, <2>8, <3>1, <3>2
  <2>10. /\ DOMAIN shown' = Report
         /\ \A q \in Report : q # r => shown'[q] = shown[q]
    BY <1>0, <1>9, <2>2, ShowLengthens DEF Answer, Shaped
  <2>11. \A q \in Report : q # r => RowShape(q)'
    BY <1>0, <1>1, <1>2, <1>9, <2>6, <2>10, RowStays DEF Answer
  <2>12. \A q \in Report : q = r => RowShape(q)'
    <3>1. ~(r > uploads')
      BY <1>2, <1>9, <2>2 DEF Answer
    <3> QED BY <2>4, <2>6, <3>1 DEF RowShape
  <2> QED
    BY <1>0, <1>1, <1>9, <2>9, <2>10, <2>11, <2>12 DEF Answer, ReportShape, Shaped
<1>10. ASSUME NEW t \in Request \union Moderator, ReadProfile(t) \/ WriteProfile(t)
       PROVE  ReportShape'
  <2>1. t \in Thread /\ CallShape(t) /\ Crediting(t)
    BY <1>0, <1>10 DEF ReadProfile, WriteProfile, Thread, Crediting
  <2>2. CallShape(t)'
    <3>1. CASE ReadProfile(t)
      <4>1. call'[t] = [op |-> "write", user |-> call[t].user,
                        report |-> call[t].report, good |-> call[t].good,
                        then |-> call[t].then, read |-> profile[call[t].user]]
        BY <1>0, <2>1, <3>1 DEF ReadProfile, Shaped
      <4> QED
        BY <2>1, <3>1, <4>1 DEF ReadProfile, CallShape, Asking, Crediting, Moderating, Reporting
    <3>2. CASE WriteProfile(t)
      <4>1. \/ call'[t] = [op |-> "idle"]
            \/ /\ call'[t] = [op |-> "store", report |-> call[t].report,
                              status |-> "verified"]
               /\ call[t].then = "store"
        BY <1>0, <2>1, <3>2 DEF WriteProfile, Shaped, Idle, CallShape
      <4> QED
        BY <2>1, <3>2, <4>1 DEF WriteProfile, CallShape, Asking, Crediting, Moderating, Reporting
    <3> QED BY <1>10, <3>1, <3>2
  <2>3. \A s \in Thread : CallShape(s)'
    BY <1>0, <1>2, <1>3, <1>10, <2>1, <2>2 DEF ReadProfile, WriteProfile, Shaped
  <2>4. \A r \in Report : RowShape(r)'
    BY <1>0, <1>1, <1>2, <1>10, RowStays DEF ReadProfile, WriteProfile
  <2> QED
    BY <1>0, <1>1, <1>2, <1>10, <2>3, <2>4
       DEF ReadProfile, WriteProfile, ReportShape, Shaped
<1>11. ASSUME NEW t \in Moderator, NEW r \in Report, BeginModerate(t, r)
       PROVE  ReportShape'
  <2>1. t \in Thread /\ call'[t] = [op |-> "moderate", report |-> r]
    BY <1>0, <1>11 DEF BeginModerate, Thread, Shaped
  <2>2. r \in 1..uploads /\ reports[r] \in Row
    BY <1>0, <1>2, <1>11 DEF BeginModerate, Undecided, RowShape, Row, NoRow, Report
  <2>3. CallShape(t)'
    BY <1>11, <2>1, <2>2 DEF BeginModerate, CallShape, Asking, Crediting, Moderating, Reporting
  <2>4. \A s \in Thread : CallShape(s)'
    BY <1>0, <1>2, <1>3, <1>11, <2>1, <2>3 DEF BeginModerate, Shaped
  <2> QED BY <1>0, <1>2, <1>4, <1>11, <2>4 DEF BeginModerate, Shaped
<1>12. ASSUME NEW t \in Moderator, Approve(t)
       PROVE  ReportShape'
  <2> DEFINE r == call[t].report
  <2>1. t \in Thread /\ Moderating(t) /\ CallShape(t) /\ call[t].op = "moderate"
    BY <1>0, <1>12 DEF Approve, Thread, Moderating
  <2>2. /\ r \in Report /\ r \in 1..uploads /\ reports[r] \in Row
        /\ reports[r].user \in Citizen
    BY <2>1, ModeratedRow DEF CallShape, Reporting
  <2>3. call'[t] = [op |-> "bump", user |-> reports[r].user, report |-> r,
                    good |-> TRUE, then |-> "store"]
    BY <1>0, <1>12, <2>1 DEF Approve, Shaped
  <2>4. CallShape(t)'
    BY <1>12, <2>2, <2>3 DEF Approve, CallShape, Asking, Crediting, Moderating, Reporting
  <2>5. \A s \in Thread : CallShape(s)'
    BY <1>0, <1>2, <1>3, <1>12, <2>1, <2>4 DEF Approve, Shaped
  <2>6. /\ DOMAIN shown' = Report
        /\ \A q \in Report : q # r => shown'[q] = shown[q]
    BY <1>0, <1>12, <2>2, ShowLengthens DEF Approve, Shaped
  <2>7. \A q \in Report : RowShape(q)'
    BY <1>0, <1>1, <1>2, <1>12, <2>2, <2>6, RowStays DEF Approve
  <2> QED BY <1>0, <1>1, <1>12, <2>5, <2>6, <2>7 DEF Approve, ReportShape, Shaped
<1>13. ASSUME NEW t \in Moderator, Reject(t)
       PROVE  ReportShape'
  <2>1. t \in Thread /\ CallShape(t) /\ call[t].op = "moderate"
    BY <1>0, <1>13 DEF Reject, Thread
  <2>2. call'[t] = [op |-> "store", report |-> call[t].report, status |-> "rejected"]
    BY <1>0, <1>13, <2>1 DEF Reject, Shaped
  <2>3. CallShape(t)'
    BY <1>13, <2>1, <2>2 DEF Reject, CallShape, Asking, Crediting, Moderating, Reporting
  <2>4. \A s \in Thread : CallShape(s)'
    BY <1>0, <1>2, <1>3, <1>13, <2>1, <2>3 DEF Reject, Shaped
  <2> QED BY <1>0, <1>2, <1>4, <1>13, <2>4 DEF Reject, Shaped
<1>14. ASSUME NEW t \in Moderator, StoreDecision(t)
       PROVE  ReportShape'
  <2> DEFINE r == call[t].report
  <2>1. t \in Thread /\ CallShape(t) /\ Moderating(t) /\ call[t].op = "store"
    BY <1>0, <1>14 DEF StoreDecision, Thread, Moderating
  <2>2. /\ r \in Report /\ r \in 1..uploads /\ reports[r] \in Row
        /\ reports[r].about = "confirm" => reports[r].join \in DOMAIN incidents
        /\ call[t].status \in {"verified", "rejected"}
    BY <2>1, ModeratedRow DEF CallShape, Reporting
  <2>3. /\ reports'[r] = [reports[r] EXCEPT !.status = call[t].status]
        /\ \A q : q # r => reports'[q] = reports[q]
    BY <1>0, <1>14, <2>2 DEF StoreDecision, Shaped
  <2>4. /\ reports'[r] \in Row /\ reports'[r].about = reports[r].about
        /\ reports'[r].join = reports[r].join
    BY <2>2, <2>3 DEF Row
  <2>5. call'[t] = [op |-> "idle"]
    BY <1>0, <1>14, <2>1 DEF StoreDecision, Shaped, Idle
  <2>6. CallShape(t)'
    BY <2>5 DEF CallShape, Asking, Crediting, Moderating, Reporting
  <2>7. \A s \in Thread : CallShape(s)'
    <3>1. \A q \in 1..uploads : reports[q] \in Row => reports'[q] \in Row
      BY <2>3, <2>4
    <3>2. uploads' \in uploads..MaxReports /\ \A s \in Thread : s # t => call'[s] = call[s]
      BY <1>2, <1>14 DEF StoreDecision
    <3> QED BY <1>3, <2>1, <2>6, <3>1, <3>2
  <2>8. \A q \in Report : q # r => RowShape(q)'
    BY <1>0, <1>1, <1>2, <1>14, <2>3, RowStays DEF StoreDecision
  <2>9. \A q \in Report : q = r => RowShape(q)'
    <3>1. ~(r > uploads')
      BY <1>2, <1>14, <2>2 DEF StoreDecision
    <3> QED BY <1>1, <2>2, <2>4, <3>1 DEF RowShape
  <2>10. DOMAIN reports' = Report /\ DOMAIN call' = Thread
    BY <1>0, <1>14 DEF StoreDecision, Shaped
  <2>11. \A q \in Report : RowShape(q)'
    BY <2>8, <2>9
  <2> QED BY <1>0, <1>14, <2>7, <2>10, <2>11 DEF StoreDecision, ReportShape, Shaped
<1>15. CASE Restart
  <2>1. \A t \in Thread : call'[t] = [op |-> "idle"]
    BY <1>15 DEF Restart, Idle
  <2>2. \A t \in Thread : CallShape(t)'
    BY <2>1 DEF CallShape, Asking, Crediting, Moderating, Reporting
  <2>3. \A r \in cutOff' : r \in cutOff \/ r \in 1..uploads
    BY <1>0, <1>15 DEF Restart, CallShape
  <2>4. \A r \in Report : RowShape(r)'
    BY <1>0, <1>1, <1>2, <1>15, <2>3, RowStays DEF Restart
  <2> QED BY <1>0, <1>1, <1>15, <2>2, <2>4 DEF Restart, ReportShape, Shaped
<1> QED
  BY <1>2, <1>5, <1>6, <1>7, <1>8, <1>9, <1>10, <1>11, <1>12, <1>13, <1>14, <1>15
     DEF Next, Correlate, Resolve, Prune, vars

(* One operator decides reports. *)
OneModerator == \A s, t \in Moderator : s = t

(* A report that is being decided is pending. *)
LEMMA OnePendingRow ==
  ASSUME CallInv, NEW t \in Thread, Moderating(t)
  PROVE  LET r == call[t].report IN
         /\ r \in Report /\ reports[r].status = "pending" /\ reports[r] \in Row
         /\ reports[r].user \in Citizen /\ reports[r].about \in {"report", "confirm"}
         /\ reports[r].at \in Place /\ reports[r].kind \in Kind
         /\ reports[r].about = "confirm" => reports[r].join \in DOMAIN incidents
BY ModeratedRow DEF CallInv, CallFits

(* A call and its row both untouched still fit.                            *)
LEMMA FitsStays ==
  ASSUME NEW s \in Thread, CallFits(s), call'[s] = call[s],
         call[s].op \in Reporting =>
           reports'[call[s].report] = reports[call[s].report]
  PROVE  CallFits(s)'
BY DEF CallFits, Asking, Moderating, Crediting, Reporting

(* The calls of two threads are on one report only if one of them decides  *)
(* it and the other still writes its citizen's profile.                    *)
LEMMA TwoOnOneReport ==
  ASSUME CallInv, OneModerator, NEW s \in Thread, NEW t \in Thread, s # t,
         call[s].op \in Reporting, call[t].op \in Reporting,
         call[s].report = call[t].report
  PROVE  \/ Moderating(s) /\ Crediting(t) /\ call[t].then = "done" /\ ~call[t].good
         \/ Moderating(t) /\ Crediting(s) /\ call[s].then = "done" /\ ~call[s].good
<1>1. /\ CallShape(s) /\ CallFits(s) /\ CallShape(t) /\ CallFits(t)
      /\ ~(Requesting(s) /\ Requesting(t))
  BY DEF CallInv, ReportShape
<1>2. /\ Requesting(s) \/ Moderating(s)
      /\ Requesting(t) \/ Moderating(t)
  BY <1>1 DEF Requesting, Moderating, Asking, Crediting, CallShape, Reporting
<1>3. ~(Moderating(s) /\ Moderating(t))
  BY <1>1 DEF CallFits, OneModerator
<1>4. /\ Moderating(s) => reports[call[s].report].status = "pending"
      /\ Moderating(t) => reports[call[t].report].status = "pending"
  BY <1>1 DEF CallFits
<1>5. CASE Moderating(s) /\ Requesting(t)
  BY <1>1, <1>4, <1>5 DEF CallFits, Requesting, CallShape
<1>6. CASE Moderating(t) /\ Requesting(s)
  BY <1>1, <1>4, <1>6 DEF CallFits, Requesting, CallShape
<1> QED BY <1>1, <1>2, <1>3, <1>5, <1>6

LEMMA CallStep ==
  ASSUME CallInv, [Next]_vars, OneModerator
  PROVE  CallInv'
<1> DEFINE Unique == \A s, t \in Thread :
             Requesting(s) /\ Requesting(t) /\ call[s].report = call[t].report => s = t
<1>0. /\ ReportShape /\ Shaped /\ Unique
      /\ \A t \in Thread : CallShape(t) /\ CallFits(t)
      /\ \A r \in Report : RowShape(r)
  BY DEF CallInv, ReportShape
<1>1. ReportShape'
  BY <1>0, ShapeStep
<1>2. SUFFICES (\A t \in Thread : CallFits(t)') /\ Unique'
  BY <1>1 DEF CallInv
<1>3. ASSUME NEW t \in Thread, CallFits(t)', reports' = reports,
             \A s \in Thread : s # t => call'[s] = call[s]
      PROVE  \A s \in Thread : CallFits(s)'
  BY <1>0, <1>3, FitsStays
<1>4. ASSUME NEW t \in Thread, \A s \in Thread : s # t => call'[s] = call[s],
             Requesting(t)' => /\ Requesting(t)
                               /\ call'[t].report = call[t].report
      PROVE  Unique'
  <2>1. \A s \in Thread : Requesting(s)' =>
          Requesting(s) /\ call'[s].report = call[s].report
    BY <1>4 DEF Requesting, Asking, Crediting
  <2> QED BY <1>0, <2>1
<1>5. CASE call' = call /\ reports' = reports
  BY <1>0, <1>5 DEF CallFits, Requesting, Asking, Moderating, Crediting
<1>6. ASSUME NEW t \in Detector,
             AddDetected(t) \/ \E i \in Place, k \in Kind : LookForActive(t, i, k)
      PROVE  (\A s \in Thread : CallFits(s)') /\ Unique'
  <2>1. /\ t \in Thread /\ call'[t].op \in {"idle", "detect"} /\ reports' = reports
        /\ \A s \in Thread : s # t => call'[s] = call[s]
    BY <1>0, <1>6 DEF AddDetected, LookForActive, Thread, Shaped, Idle
  <2>2. CallFits(t)' /\ ~Requesting(t)'
    BY <2>1 DEF CallFits, Requesting, Asking, Moderating, Crediting
  <2>3. \A s \in Thread : CallFits(s)'
    BY <1>3, <2>1, <2>2
  <2>4. Unique'
    <3> HIDE DEF Unique
    <3> QED BY <1>4, <2>1, <2>2
  <2> QED BY <2>3, <2>4
<1>7. ASSUME NEW t \in Request, NEW u \in Citizen,
             \/ \E i \in Place, k \in Kind : BeginReport(t, u, i, k)
             \/ \E n \in DOMAIN incidents : BeginConfirm(t, u, n)
      PROVE  (\A s \in Thread : CallFits(s)') /\ Unique'
  <2>1. /\ t \in Thread /\ call'[t].op \in {"report", "confirm"} /\ reports' = reports
        /\ \A s \in Thread : s # t => call'[s] = call[s]
        /\ call'[t].report = uploads + 1 /\ uploads < MaxReports
    BY <1>0, <1>7 DEF BeginReport, BeginConfirm, Thread, Shaped
  <2>2. uploads \in Nat /\ uploads + 1 \in Report /\ uploads + 1 > uploads
    BY <1>0, <2>1, ReportAssumption DEF Shaped, Report
  <2>3. reports[uploads + 1] = NoRow
    BY <1>0, <2>2 DEF RowShape
  <2>4. CallFits(t)'
    BY <2>1, <2>3 DEF CallFits, Asking, Moderating, Crediting, NoRow
  <2>5. \A s \in Thread : Requesting(s) => call[s].report # uploads + 1
    <3>1. ASSUME NEW s \in Thread, Requesting(s)
          PROVE  call[s].report \in 1..uploads
      BY <1>0, <3>1 DEF Requesting, Asking, Crediting, CallShape, Reporting
    <3> QED BY <2>2, <3>1
  <2>6. \A s \in Thread : s # t /\ Requesting(s)' =>
          Requesting(s) /\ call'[s].report = call[s].report
    BY <2>1 DEF Requesting, Asking, Crediting
  <2> QED BY <1>0, <1>3, <2>1, <2>4, <2>5, <2>6
<1>8. ASSUME NEW t \in Request, NEW v \in {"verified", "rejected", "pending"},
             Answer(t, v)
      PROVE  (\A s \in Thread : CallFits(s)') /\ Unique'
  <2> DEFINE r == call[t].report
  <2>1. /\ t \in Thread /\ Asking(t) /\ Requesting(t) /\ call[t].op \in Reporting
        /\ call'[t] = [op |-> "bump", user |-> call[t].user, report |-> r,
                       good |-> v = "verified", then |-> "done"]
        /\ \A s \in Thread : s # t => call'[s] = call[s]
    BY <1>0, <1>8 DEF Answer, Thread, Shaped, Asking, Requesting, Reporting
  <2>2. r \in Report
    BY <1>0, <2>1, ReportAssumption DEF CallShape, Report, Shaped
  <2>3. /\ reports'[r].status = v /\ reports'[r].user = call[t].user
        /\ \A q : q # r => reports'[q] = reports[q]
    BY <1>0, <1>8, <2>2 DEF Answer, Shaped
  <2>4. CallFits(t)'
    <3> DEFINE good == v = "verified"
    <3>0. call'[t] = [op |-> "bump", user |-> call[t].user, report |-> r,
                      good |-> good, then |-> "done"]
      BY <2>1
    <3>1. call'[t].good = good
      <4> HIDE DEF good
      <4> QED BY <3>0
    <3>2. call'[t].good => v = "verified"
      BY <3>1
    <3> QED BY <2>1, <2>3, <3>2 DEF CallFits, Asking, Moderating, Crediting
  <2>5. ASSUME NEW s \in Thread, s # t
        PROVE  CallFits(s)'
    <3>1. ~Moderating(t) /\ ~Crediting(t)
      BY <2>1 DEF Asking, Moderating, Crediting
    <3>2. call[s].op \in Reporting => call[s].report # r
      BY <2>1, <2>5, <3>1, TwoOnOneReport
    <3> QED BY <1>0, <2>1, <2>3, <2>5, <3>2, FitsStays
  <2>6. \A s \in Thread : CallFits(s)'
    BY <2>4, <2>5
  <2>7. Unique'
    <3> HIDE DEF Unique
    <3>1. call'[t].report = call[t].report
      BY <2>1
    <3> QED BY <1>4, <2>1, <3>1
  <2> QED BY <2>6, <2>7
<1>9. ASSUME NEW t \in Request \union Moderator, ReadProfile(t) \/ WriteProfile(t)
      PROVE  (\A s \in Thread : CallFits(s)') /\ Unique'
  <2>1. /\ t \in Thread /\ Crediting(t) /\ reports' = reports
        /\ \A s \in Thread : s # t => call'[s] = call[s]
    BY <1>0, <1>9 DEF ReadProfile, WriteProfile, Thread, Shaped, Crediting
  <2>2. CASE ReadProfile(t)
    <3>1. call'[t] = [op |-> "write", user |-> call[t].user,
                      report |-> call[t].report, good |-> call[t].good,
                      then |-> call[t].then, read |-> profile[call[t].user]]
      BY <1>0, <2>1, <2>2 DEF ReadProfile, Shaped
    <3>2. CallFits(t)'
      BY <1>0, <2>1, <3>1 DEF CallFits, Asking, Moderating, Crediting
    <3>3. Requesting(t)' => Requesting(t) /\ call'[t].report = call[t].report
      BY <2>1, <3>1 DEF Requesting, Asking, Crediting
    <3>4. \A s \in Thread : CallFits(s)'
      BY <1>3, <2>1, <3>2
    <3>5. Unique'
      <4> HIDE DEF Unique
      <4> QED BY <1>4, <2>1, <3>3
    <3> QED BY <3>4, <3>5
  <2>3. CASE WriteProfile(t)
    <3>1. CASE call[t].then = "done"
      <4>1. call'[t] = [op |-> "idle"]
        BY <1>0, <2>1, <2>3, <3>1 DEF WriteProfile, Shaped, Idle
      <4>2. CallFits(t)' /\ ~Requesting(t)'
        BY <4>1 DEF CallFits, Requesting, Asking, Moderating, Crediting
      <4>3. \A s \in Thread : CallFits(s)'
        BY <1>3, <2>1, <4>2
      <4>4. Unique'
        <5> HIDE DEF Unique
        <5> QED BY <1>4, <2>1, <4>2
      <4> QED BY <4>3, <4>4
    <3>2. CASE call[t].then # "done"
      <4>1. /\ call'[t] = [op |-> "store", report |-> call[t].report,
                           status |-> "verified"]
            /\ call[t].then = "store"
        BY <1>0, <2>1, <2>3, <3>2 DEF WriteProfile, Shaped, CallShape
      <4>2. CallFits(t)' /\ ~Requesting(t)'
        BY <1>0, <2>1, <4>1 DEF CallFits, Requesting, Asking, Moderating, Crediting
      <4>3. \A s \in Thread : CallFits(s)'
        BY <1>3, <2>1, <4>2
      <4>4. Unique'
        <5> HIDE DEF Unique
        <5> QED BY <1>4, <2>1, <4>2
      <4> QED BY <4>3, <4>4
    <3> QED BY <3>1, <3>2
  <2> QED BY <1>9, <2>2, <2>3
<1>10. ASSUME NEW t \in Moderator,
              \/ Approve(t) \/ Reject(t)
              \/ \E r \in Report : BeginModerate(t, r)
       PROVE  (\A s \in Thread : CallFits(s)') /\ Unique'
  <2>1. /\ t \in Thread /\ reports' = reports
        /\ \A s \in Thread : s # t => call'[s] = call[s]
    BY <1>0, <1>10 DEF Approve, Reject, BeginModerate, Thread, Shaped
  <2>2. CASE Approve(t)
    <3>1. /\ call'[t] = [op |-> "bump", user |-> reports[call[t].report].user,
                         report |-> call[t].report, good |-> TRUE, then |-> "store"]
          /\ call[t].op = "moderate"
      BY <1>0, <2>1, <2>2 DEF Approve, Shaped
    <3> QED
      BY <1>0, <1>10, <2>1, <3>1 DEF CallFits, Requesting, Asking, Moderating, Crediting
  <2>3. CASE Reject(t)
    <3>1. /\ call'[t] = [op |-> "store", report |-> call[t].report,
                         status |-> "rejected"]
          /\ call[t].op = "moderate"
      BY <1>0, <2>1, <2>3 DEF Reject, Shaped
    <3> QED
      BY <1>0, <1>10, <2>1, <3>1 DEF CallFits, Requesting, Asking, Moderating, Crediting
  <2>4. CASE \E r \in Report : BeginModerate(t, r)
    <3>1. PICK r \in Report : call'[t] = [op |-> "moderate", report |-> r]
                                /\ reports[r].status = "pending"
      BY <1>0, <2>1, <2>4 DEF BeginModerate, Shaped, Undecided
    <3> QED
      BY <1>0, <1>10, <2>1, <3>1 DEF CallFits, Requesting, Asking, Moderating, Crediting
  <2> QED BY <1>10, <2>2, <2>3, <2>4
<1>11. ASSUME NEW t \in Moderator, StoreDecision(t)
       PROVE  (\A s \in Thread : CallFits(s)') /\ Unique'
  <2> DEFINE r == call[t].report
  <2>1. /\ t \in Thread /\ call[t].op = "store" /\ call[t].op \in Reporting
        /\ Moderating(t) /\ call'[t] = [op |-> "idle"]
        /\ \A s \in Thread : s # t => call'[s] = call[s]
    BY <1>0, <1>11 DEF StoreDecision, Thread, Shaped, Moderating, Reporting, Idle
  <2>2. r \in Report
    BY <2>1, OnePendingRow
  <2>3. /\ reports'[r] = [reports[r] EXCEPT !.status = call[t].status]
        /\ reports[r] \in Row
        /\ \A q : q # r => reports'[q] = reports[q]
    BY <1>0, <1>11, <2>1, <2>2, OnePendingRow DEF StoreDecision, Shaped, RowShape, NoRow
  <2>4. reports'[r].user = reports[r].user
    BY <2>3 DEF Row
  <2>5. CallFits(t)' /\ ~Requesting(t)'
    BY <2>1 DEF CallFits, Asking, Moderating, Crediting, Requesting
  <2>6. ASSUME NEW s \in Thread, s # t, call[s].op \in Reporting, call[s].report = r
        PROVE  CallFits(s)'
    <3>1. ~Crediting(t)
      BY <2>1 DEF Crediting
    <3>2. Crediting(s) /\ call[s].then = "done" /\ ~call[s].good
      BY <2>1, <2>6, <3>1, TwoOnOneReport
    <3> QED
      BY <1>0, <2>1, <2>4, <2>6, <3>2 DEF CallFits, Asking, Moderating, Crediting
  <2>7. \A s \in Thread : CallFits(s)'
    BY <1>0, <2>1, <2>3, <2>5, <2>6, FitsStays
  <2>8. Unique'
    <3> HIDE DEF Unique
    <3> QED BY <1>4, <2>1, <2>5
  <2> QED BY <2>7, <2>8
<1>12. CASE Restart
  <2>1. \A t \in Thread : call'[t] = [op |-> "idle"]
    BY <1>12 DEF Restart, Idle
  <2> QED
    BY <2>1 DEF CallFits, Requesting, Asking, Moderating, Crediting
<1> HIDE DEF Unique
<1> QED
  BY <1>5, <1>6, <1>7, <1>8, <1>9, <1>10, <1>11, <1>12
     DEF Next, Correlate, Resolve, Prune, vars

-----------------------------------------------------------------------------
(* What is shown of a report is what was decided about it.                 *)

LEMMA OneShown == \A m : Len(Append(<<>>, m)) = 1
<1> TAKE m
<1>1. <<>> \in Seq({m}) /\ m \in {m}
  OBVIOUS
<1> QED BY <1>1

(* A report that is approved or verified has a row.                        *)
LEMMA DecidedRow ==
  ASSUME CallInv, NEW r \in Report, Approved(r) \/ reports[r].status = "verified"
  PROVE  /\ reports[r] \in Row
         /\ reports[r].about = "confirm" => reports[r].join \in DOMAIN incidents
<1>1. RowShape(r)
  BY DEF CallInv, ReportShape
<1>2. CASE reports[r].status = "verified"
  BY <1>1, <1>2 DEF RowShape, NoRow
<1>3. CASE Approved(r)
  <2>1. PICK t \in Thread : Approving(t) /\ call[t].report = r
    BY <1>3 DEF Approved
  <2>2. reports[r].status = "pending"
    BY <2>1, OnePendingRow DEF Approving, Moderating
  <2> QED BY <1>1, <2>2 DEF RowShape, NoRow
<1> QED BY <1>2, <1>3

Decided(r) ==
  IF Approved(r) \/ reports[r].status = "verified" THEN ShownOnce(r)
                                                   ELSE shown[r] = <<>>

LEMMA DecidedStays ==
  ASSUME CallInv, NEW r \in Report, Decided(r), Follows(incidents', incidents),
         shown'[r] = shown[r], reports'[r] = reports[r], Approved(r)' <=> Approved(r)
  PROVE  Decided(r)'
<1>1. CASE Approved(r) \/ reports[r].status = "verified"
  <2>1. reports[r].about = "confirm" => reports[r].join \in DOMAIN incidents
    BY <1>1, DecidedRow
  <2> QED BY <1>1, <2>1 DEF Decided, ShownOnce, Follows
<1>2. CASE ~(Approved(r) \/ reports[r].status = "verified")
  BY <1>2 DEF Decided
<1> QED BY <1>1, <1>2

LEMMA DecisionStep ==
  ASSUME CallInv, DecisionInv, [Next]_vars, OneModerator
  PROVE  DecisionInv'
<1>0. /\ Shaped /\ Follows(incidents', incidents) /\ cutOff \subseteq cutOff'
      /\ \A t \in Thread : CallShape(t) /\ CallFits(t)
      /\ \A r \in Report : RowShape(r)
      /\ \A r \in Report \ cutOff : Decided(r)
  BY IncidentsFollow
     DEF CallInv, ReportShape, DecisionInv, Decided, Next, vars, LookForActive,
         AddDetected, Correlate, Resolve, Prune, BeginReport, BeginConfirm, Answer,
         ReadProfile, WriteProfile, BeginModerate, Approve, Reject, StoreDecision,
         Restart
<1>1. SUFFICES ASSUME NEW r \in Report, r \notin cutOff'
               PROVE  Decided(r)'
  BY DEF DecisionInv, Decided
<1>2. Decided(r)
  BY <1>0, <1>1
<1>3. ASSUME NEW t \in Thread, \A s \in Thread : s # t => call'[s] = call[s],
             (Approving(t) /\ call[t].report = r)'
               <=> Approving(t) /\ call[t].report = r
      PROVE  Approved(r)' <=> Approved(r)
  BY <1>3 DEF Approved, Approving, Crediting
<1>4. CASE call' = call /\ reports' = reports /\ shown' = shown
  <2>1. Approved(r)' <=> Approved(r)
    BY <1>4 DEF Approved, Approving, Crediting
  <2> QED BY <1>0, <1>2, <1>4, <2>1, DecidedStays
<1>5. ASSUME NEW t \in Thread,
             \/ \E i \in Place, k \in Kind : LookForActive(t, i, k)
             \/ AddDetected(t)
             \/ \E u \in Citizen, i \in Place, k \in Kind : BeginReport(t, u, i, k)
             \/ \E u \in Citizen, n \in DOMAIN incidents : BeginConfirm(t, u, n)
             \/ \E q \in Report : BeginModerate(t, q)
             \/ Reject(t)
      PROVE  Decided(r)'
  <2>1. /\ call[t].op \in {"idle", "detect", "moderate"}
        /\ \/ call'[t].op \in {"detect", "idle", "report", "confirm", "moderate"}
           \/ call'[t].op = "store" /\ call'[t].status = "rejected"
        /\ \A s \in Thread : s # t => call'[s] = call[s]
    BY <1>0, <1>5
       DEF LookForActive, AddDetected, BeginReport, BeginConfirm, BeginModerate,
           Reject, Shaped, Idle
  <2>2. ~Approving(t) /\ ~Approving(t)'
    BY <2>1 DEF Approving, Crediting
  <2>3. Approved(r)' <=> Approved(r)
    BY <1>3, <2>1, <2>2
  <2>4. reports' = reports /\ shown' = shown
    BY <1>5
       DEF LookForActive, AddDetected, BeginReport, BeginConfirm, BeginModerate, Reject
  <2> QED BY <1>0, <1>2, <2>3, <2>4, DecidedStays
<1>6. ASSUME NEW t \in Request, NEW v \in {"verified", "rejected", "pending"},
             Answer(t, v)
      PROVE  Decided(r)'
  <2> DEFINE q == call[t].report
  <2>1. /\ t \in Thread /\ Asking(t) /\ call[t].op \in Reporting
        /\ ~Approving(t) /\ ~Approving(t)'
        /\ \A s \in Thread : s # t => call'[s] = call[s]
    <3>1. /\ t \in Thread /\ call[t].op \in {"report", "confirm"}
          /\ call'[t] = [op |-> "bump", user |-> call[t].user, report |-> q,
                         good |-> v = "verified", then |-> "done"]
          /\ \A s \in Thread : s # t => call'[s] = call[s]
      BY <1>0, <1>6 DEF Answer, Thread, Shaped
    <3>2. call'[t].op = "bump" /\ call'[t].then = "done"
      BY <3>1
    <3> QED BY <3>1, <3>2 DEF Asking, Approving, Crediting, Reporting
  <2>2. Approved(r)' <=> Approved(r)
    BY <1>3, <2>1
  <2>3. q \in Report /\ reports[q].status = "none"
    BY <1>0, <2>1, ReportAssumption DEF CallShape, CallFits, Report, Shaped
  <2>4. CASE r # q
    <3>1. shown'[r] = shown[r] /\ reports'[r] = reports[r]
      BY <1>0, <1>6, <2>3, <2>4, ShowLengthens DEF Answer, Shaped
    <3> QED BY <1>0, <1>2, <2>2, <3>1, DecidedStays
  <2>5. CASE r = q
    <3>1. ~Approved(r) /\ shown[r] = <<>>
      <4>1. ~Approved(r)
        BY <2>3, <2>5, OnePendingRow DEF Approved, Approving, Moderating
      <4> QED BY <1>2, <2>3, <2>5, <4>1 DEF Decided
    <3>2. reports'[r].status = v
      BY <1>0, <1>6, <2>3, <2>5 DEF Answer, Shaped
    <3>3. CASE v = "verified"
      <4>1. \E n, i, k : Show(r, n, i, k)
        BY <1>6, <2>5, <3>3 DEF Answer, Shows
      <4>2. \E m : shown'[r] = Append(<<>>, m)
        BY <1>0, <3>1, <4>1, ShowLengthens
      <4> QED BY <3>2, <3>3, <4>2, OneShown DEF Decided, ShownOnce
    <3>4. CASE v # "verified"
      <4>1. shown' = shown
        BY <1>6, <3>4 DEF Answer, Shows
      <4> QED BY <2>2, <3>1, <3>2, <3>4, <4>1 DEF Decided
    <3> QED BY <3>3, <3>4
  <2> QED BY <2>4, <2>5
<1>7. ASSUME NEW t \in Request \union Moderator, ReadProfile(t) \/ WriteProfile(t)
      PROVE  Decided(r)'
  <2>1. /\ t \in Thread /\ Crediting(t) /\ reports' = reports /\ shown' = shown
        /\ \A s \in Thread : s # t => call'[s] = call[s]
    BY <1>0, <1>7 DEF ReadProfile, WriteProfile, Thread, Shaped, Crediting
  <2>2. Approved(r)' <=> Approved(r)
    <3>1. CASE ReadProfile(t)
      <4>1. call'[t] = [op |-> "write", user |-> call[t].user,
                        report |-> call[t].report, good |-> call[t].good,
                        then |-> call[t].then, read |-> profile[call[t].user]]
        BY <1>0, <2>1, <3>1 DEF ReadProfile, Shaped
      <4> QED BY <1>3, <2>1, <4>1 DEF Approving, Crediting
    <3>2. CASE WriteProfile(t)
      <4>1. CASE call[t].then = "done"
        <5>1. call'[t] = [op |-> "idle"]
          BY <1>0, <2>1, <3>2, <4>1 DEF WriteProfile, Shaped, Idle
        <5> QED BY <1>3, <2>1, <4>1, <5>1 DEF Approving, Crediting
      <4>2. CASE call[t].then # "done"
        <5>1. /\ call'[t] = [op |-> "store", report |-> call[t].report,
                             status |-> "verified"]
              /\ call[t].then = "store"
          BY <1>0, <2>1, <3>2, <4>2 DEF WriteProfile, Shaped, CallShape
        <5> QED BY <1>3, <2>1, <5>1 DEF Approving, Crediting
      <4> QED BY <4>1, <4>2
    <3> QED BY <1>7, <3>1, <3>2
  <2> QED BY <1>0, <1>2, <2>1, <2>2, DecidedStays
<1>8. ASSUME NEW t \in Moderator, Approve(t)
      PROVE  Decided(r)'
  <2> DEFINE q == call[t].report
  <2>1. /\ t \in Thread /\ Moderating(t) /\ ~Approving(t)
        /\ call'[t] = [op |-> "bump", user |-> reports[q].user, report |-> q,
                       good |-> TRUE, then |-> "store"]
        /\ \A s \in Thread : s # t => call'[s] = call[s]
        /\ reports' = reports
    BY <1>0, <1>8 DEF Approve, Thread, Shaped, Moderating, Approving, Crediting
  <2>2. /\ q \in Report /\ reports[q].status = "pending"
        /\ reports[q].about \in {"report", "confirm"}
    BY <2>1, OnePendingRow
  <2>3. Approving(t)' /\ call'[t].report = q
    BY <2>1 DEF Approving, Crediting
  <2>4. CASE r # q
    <3>1. shown'[r] = shown[r]
      BY <1>0, <1>8, <2>2, <2>4, ShowLengthens DEF Approve, Shaped
    <3>2. Approved(r)' <=> Approved(r)
      BY <1>3, <2>1, <2>3, <2>4
    <3> QED BY <1>0, <1>2, <2>1, <3>1, <3>2, DecidedStays
  <2>5. CASE r = q
    <3>1. ~Approved(r) /\ shown[r] = <<>>
      <4>1. ASSUME NEW s \in Thread, Approving(s)
            PROVE  s = t
        BY <1>0, <1>8, <4>1 DEF CallFits, Approving, Moderating, OneModerator
      <4>2. ~Approved(r)
        BY <2>1, <4>1 DEF Approved
      <4> QED BY <1>2, <2>2, <2>5, <4>2 DEF Decided
    <3>2. Approved(r)'
      BY <2>1, <2>3, <2>5 DEF Approved
    <3>3. CASE \E n, i, k : Show(r, n, i, k)
      <4>1. \E m : shown'[r] = Append(<<>>, m)
        BY <1>0, <3>1, <3>3, ShowLengthens
      <4> QED BY <3>2, <4>1, OneShown DEF Decided, ShownOnce
    <3>4. CASE ~\E n, i, k : Show(r, n, i, k)
      <4>1. /\ shown' = shown /\ incidents' = incidents
            /\ reports[r].about = "confirm"
            /\ incidents[reports[r].join].state = "gone"
        BY <1>8, <2>2, <2>5, <3>4 DEF Approve
      <4> QED BY <2>1, <3>1, <3>2, <4>1 DEF Decided, ShownOnce
    <3> QED BY <3>3, <3>4
  <2> QED BY <2>4, <2>5
<1>9. ASSUME NEW t \in Moderator, StoreDecision(t)
      PROVE  Decided(r)'
  <2> DEFINE q == call[t].report
  <2>1. /\ t \in Thread /\ Moderating(t) /\ call[t].op = "store"
        /\ call'[t] = [op |-> "idle"] /\ shown' = shown
        /\ \A s \in Thread : s # t => call'[s] = call[s]
    BY <1>0, <1>9 DEF StoreDecision, Thread, Shaped, Moderating, Idle
  <2>2. /\ q \in Report /\ reports[q].status = "pending" /\ reports[q] \in Row
        /\ call[t].status \in {"verified", "rejected"}
    BY <1>0, <2>1, OnePendingRow DEF RowShape, NoRow, CallShape
  <2>3. ASSUME NEW s \in Thread, Approving(s)
        PROVE  s = t
    BY <1>0, <1>9, <2>3 DEF CallFits, Approving, Moderating, OneModerator
  <2>4. CASE r # q
    <3>1. reports'[r] = reports[r]
      BY <1>9, <2>4 DEF StoreDecision
    <3>2. Approved(r)' <=> Approved(r)
      BY <1>3, <2>1, <2>4 DEF Approving, Crediting
    <3> QED BY <1>0, <1>2, <2>1, <3>1, <3>2, DecidedStays
  <2>5. CASE r = q
    <3>1. reports'[r] = [reports[r] EXCEPT !.status = call[t].status]
      BY <1>0, <1>9, <2>2, <2>5 DEF StoreDecision, Shaped
    <3>2. /\ reports'[r].status = call[t].status
          /\ reports'[r].about = reports[r].about
          /\ reports'[r].join = reports[r].join
      BY <2>2, <2>5, <3>1 DEF Row
    <3>3. CASE call[t].status = "verified"
      <4>1. Approved(r)
        BY <2>1, <2>5, <3>3 DEF Approved, Approving
      <4>2. reports[r].about = "confirm" => reports[r].join \in DOMAIN incidents
        BY <4>1, DecidedRow
      <4>3. incidents' = incidents
        BY <1>9 DEF StoreDecision
      <4> QED BY <1>2, <2>1, <3>2, <3>3, <4>1, <4>3 DEF Decided, ShownOnce
    <3>4. CASE call[t].status = "rejected"
      <4>1. ~Approving(t) /\ ~Approving(t)'
        BY <2>1, <3>4 DEF Approving, Crediting
      <4>2. ~Approved(r) /\ (Approved(r)' <=> Approved(r))
        BY <1>3, <2>1, <2>3, <4>1 DEF Approved
      <4> QED BY <1>2, <2>1, <2>2, <2>5, <3>2, <3>4, <4>2 DEF Decided
    <3> QED BY <2>2, <3>3, <3>4
  <2> QED BY <2>4, <2>5
<1>10. CASE Restart
  <2>1. \A t \in Thread : call'[t] = [op |-> "idle"]
    BY <1>10 DEF Restart, Idle
  <2>2. \A t \in Thread : ~Approving(t)'
    BY <2>1 DEF Approving, Crediting
  <2>3. ASSUME NEW t \in Thread, Approving(t)
        PROVE  call[t].report \in cutOff'
    BY <1>0, <1>10, <2>3 DEF Restart, Approving, Crediting, CallShape, Reporting
  <2>4. ~Approved(r) /\ ~Approved(r)'
    BY <1>1, <2>2, <2>3 DEF Approved
  <2> QED BY <1>0, <1>2, <1>10, <2>4, DecidedStays DEF Restart
<1>11. Request \subseteq Thread /\ Moderator \subseteq Thread /\ Detector \subseteq Thread
  BY DEF Thread
<1> QED
  BY <1>4, <1>5, <1>6, <1>7, <1>8, <1>9, <1>10, <1>11
     DEF Next, Correlate, Resolve, Prune, vars

(* What the city sees of a report is what was decided about it, with one   *)
(* operator deciding: nothing of one that is rejected or waits, and a      *)
(* verified one exactly once, unless the incident it confirms was gone.    *)
THEOREM ReportsShownAsDecided ==
  ASSUME OneModerator
  PROVE  Spec => []ShownAsDecided
<1>1. Init => CallInv /\ DecisionInv
  <2> SUFFICES ASSUME Init PROVE CallInv /\ DecisionInv
    OBVIOUS
  <2>1. /\ \A t \in Thread : call[t] = [op |-> "idle"]
        /\ \A r \in Report : reports[r] = [status |-> "none"] /\ shown[r] = <<>>
    BY DEF Init, Idle, NoRow
  <2>2. \A r \in Report : ~Approved(r)
    BY <2>1 DEF Approved, Approving, Crediting
  <2> QED BY <2>1, <2>2, ShapeInit DEF DecisionInv
<1>2. CallInv /\ DecisionInv /\ [Next]_vars => (CallInv /\ DecisionInv)'
  BY CallStep, DecisionStep
<1>3. CallInv /\ DecisionInv => ShownAsDecided
  <2> SUFFICES ASSUME CallInv, DecisionInv, NEW r \in Report \ (Busy \cup cutOff)
               PROVE  /\ reports[r].status \in {"none", "rejected", "pending"} =>
                           shown[r] = <<>>
                      /\ reports[r].status = "verified" => ShownOnce(r)
    BY DEF ShownAsDecided, ShownOnce
  <2>1. ~Approved(r)
    <3> SUFFICES ASSUME NEW t \in Thread, Approving(t), call[t].report = r
                 PROVE  r \in Busy
      BY DEF Approved
    <3>1. "report" \in DOMAIN call[t]
      BY DEF CallInv, ReportShape, CallShape, Approving, Crediting, Reporting
    <3> QED BY <3>1 DEF Busy
  <2> QED BY <2>1 DEF DecisionInv
<1> QED BY <1>1, <1>2, <1>3, PTL DEF Spec

-----------------------------------------------------------------------------
(* A citizen's standing.  While no call was cut off, a report whose credit *)
(* was written stays so, and each credit is for one report more.           *)

(* Call t leaves the credit of every report as it was.                     *)
CreditsAlike(t) ==
  /\ Crediting(t)' <=> Crediting(t)
  /\ Crediting(t) => call'[t].report = call[t].report /\ call'[t].good = call[t].good
  /\ (call[t].op = "store" /\ call[t].status = "verified")'
       <=> (call[t].op = "store" /\ call[t].status = "verified")
  /\ call[t].op = "store" => call'[t].report = call[t].report

LEMMA AlikeGrows ==
  ASSUME NEW t \in Thread, CreditsAlike(t), reports' = reports,
         \A s \in Thread : s # t => call'[s] = call[s]
  PROVE  \A u \in Citizen : Credited(u) \subseteq Credited(u)'
<1>1. \A s \in Thread : CreditsAlike(s)
  BY DEF CreditsAlike, Crediting
<1> SUFFICES ASSUME NEW u \in Citizen, NEW r \in Credited(u)
             PROVE  r \in Credited(u)'
  OBVIOUS
<1>2. CASE /\ reports[r].status = "verified"
           /\ \A s \in Thread : Crediting(s) /\ call[s].report = r => ~call[s].good
  BY <1>1, <1>2 DEF CreditsAlike, Credited
<1>3. CASE \E s \in Thread : /\ call[s].op = "store" /\ call[s].report = r
                             /\ call[s].status = "verified"
  BY <1>1, <1>3 DEF CreditsAlike, Credited
<1> QED BY <1>2, <1>3 DEF Credited

(* A thread that writes a credit is the only one on its report but for a   *)
(* call that owes none.                                                    *)
LEMMA OneCredit ==
  ASSUME CallInv, OneModerator, NEW t \in Thread, Crediting(t), call[t].good,
         NEW s \in Thread, s # t, call[s].op \in Reporting
  PROVE  call[s].report = call[t].report => Crediting(s) /\ ~call[s].good
<1> SUFFICES ASSUME call[s].report = call[t].report
             PROVE  Crediting(s) /\ ~call[s].good
  OBVIOUS
<1> QED BY TwoOnOneReport DEF Crediting, Reporting

(* A decision being stored is the only work on its report but for a call   *)
(* that owes no credit.                                                    *)
LEMMA OneStore ==
  ASSUME CallInv, OneModerator, NEW t \in Thread, call[t].op = "store",
         NEW s \in Thread, s # t, call[s].op \in Reporting
  PROVE  call[s].report = call[t].report => Crediting(s) /\ ~call[s].good
<1> SUFFICES ASSUME call[s].report = call[t].report
             PROVE  Crediting(s) /\ ~call[s].good
  OBVIOUS
<1> QED BY TwoOnOneReport DEF Crediting, Reporting

(* Writing a good profile credits the report, which was not credited yet.  *)
LEMMA WriteCredits ==
  ASSUME CallInv, OneModerator, NEW t \in Thread, WriteProfile(t)
  PROVE  /\ \A u \in Citizen : Credited(u) \subseteq Credited(u)'
         /\ call[t].good =>
              \A u \in Citizen : u = call[t].user =>
                call[t].report \in Credited(u)' \ Credited(u)
<1> DEFINE r == call[t].report
<1>0. /\ Shaped /\ CallShape(t) /\ CallFits(t) /\ Crediting(t)
      /\ call[t].op \in Reporting
  BY DEF CallInv, ReportShape, WriteProfile, Crediting, Reporting
<1>1. /\ reports' = reports /\ call[t].op = "write"
      /\ \A s \in Thread : s # t => call'[s] = call[s]
      /\ call[t].then = "done" => call'[t] = [op |-> "idle"]
      /\ call[t].then = "store" =>
           call'[t] = [op |-> "store", report |-> r, status |-> "verified"]
  BY <1>0 DEF WriteProfile, Shaped, Idle
<1>2. call[t].then \in {"done", "store"} /\ ~Crediting(t)'
  BY <1>0, <1>1 DEF CallShape, Crediting
<1>3. r \in Report
  BY <1>0, ReportAssumption DEF CallShape, Shaped, Report
<1>4. \A u \in Citizen : Credited(u) \subseteq Credited(u)'
  <2> SUFFICES ASSUME NEW u \in Citizen, NEW q \in Credited(u)
               PROVE  q \in Credited(u)'
    OBVIOUS
  <2>1. \A s \in Thread : Crediting(s)' => Crediting(s) /\ call'[s] = call[s]
    BY <1>1, <1>2 DEF Crediting
  <2> QED BY <1>1, <2>1 DEF Credited
<1>5. ASSUME call[t].good, NEW u \in Citizen, u = call[t].user
      PROVE  r \in Credited(u)' /\ r \notin Credited(u)
  <2>1. \A s \in Thread : s # t /\ call[s].op \in Reporting /\ call[s].report = r =>
          Crediting(s) /\ ~call[s].good
    BY <1>0, <1>5, OneCredit
  <2>2. r \notin Credited(u)
    BY <1>0, <1>1, <1>5, <2>1 DEF Credited, Crediting, Reporting
  <2>3. reports[r].user = u /\ reports[r].status # "none"
    BY <1>0, <1>2, <1>5 DEF CallFits, Moderating
  <2>4. CASE call[t].then = "done"
    <3>1. reports[r].status = "verified"
      BY <1>0, <1>5, <2>4 DEF CallFits
    <3>2. ASSUME NEW s \in Thread, Crediting(s)', call'[s].report = r
          PROVE  ~call'[s].good
      <4>1. s # t /\ call'[s] = call[s] /\ Crediting(s)
        BY <1>1, <1>2, <3>2 DEF Crediting
      <4> QED BY <2>1, <3>2, <4>1 DEF Crediting, Reporting
    <3> QED BY <1>1, <1>3, <2>2, <2>3, <3>1, <3>2 DEF Credited
  <2>5. CASE call[t].then = "store"
    <3>1. call'[t].op = "store" /\ call'[t].report = r /\ call'[t].status = "verified"
      BY <1>1, <2>5
    <3> QED BY <1>1, <1>3, <2>2, <2>3, <3>1 DEF Credited
  <2> QED BY <1>2, <2>4, <2>5
<1> QED BY <1>4, <1>5

LEMMA CreditGrows ==
  ASSUME CallInv, [Next]_vars, OneModerator, cutOff' = {}
  PROVE  \A u \in Citizen : Credited(u) \subseteq Credited(u)'
<1>0. /\ Shaped /\ \A t \in Thread : CallShape(t) /\ CallFits(t)
      /\ Request \subseteq Thread /\ Moderator \subseteq Thread
      /\ Detector \subseteq Thread
  BY DEF CallInv, ReportShape, Thread
<1>1. CASE call' = call /\ reports' = reports
  BY <1>1 DEF Credited, Crediting
<1>2. ASSUME NEW t \in Thread,
             \/ \E i \in Place, k \in Kind : LookForActive(t, i, k)
             \/ AddDetected(t)
             \/ \E u \in Citizen, i \in Place, k \in Kind : BeginReport(t, u, i, k)
             \/ \E u \in Citizen, n \in DOMAIN incidents : BeginConfirm(t, u, n)
             \/ \E q \in Report : BeginModerate(t, q)
             \/ Reject(t)
      PROVE  \A u \in Citizen : Credited(u) \subseteq Credited(u)'
  <2>1. /\ call[t].op \in {"idle", "detect", "moderate"}
        /\ \/ call'[t].op \in {"detect", "idle", "report", "confirm", "moderate"}
           \/ call'[t].op = "store" /\ call'[t].status = "rejected"
        /\ \A s \in Thread : s # t => call'[s] = call[s]
        /\ reports' = reports
    BY <1>0, <1>2
       DEF LookForActive, AddDetected, BeginReport, BeginConfirm, BeginModerate,
           Reject, Shaped, Idle
  <2>2. CreditsAlike(t)
    BY <2>1 DEF CreditsAlike, Crediting
  <2> QED BY <2>1, <2>2, AlikeGrows
<1>3. ASSUME NEW t \in Request, NEW v \in {"verified", "rejected", "pending"},
             Answer(t, v)
      PROVE  \A u \in Citizen : Credited(u) \subseteq Credited(u)'
  <2> DEFINE q == call[t].report
  <2>1. /\ t \in Thread /\ Asking(t) /\ call[t].op \in Reporting
        /\ \A s \in Thread : s # t => call'[s] = call[s]
        /\ reports[q].status = "none" /\ call'[t].op = "bump"
        /\ \A r : r # q => reports'[r] = reports[r]
        /\ call'[t].report = q
    BY <1>0, <1>3 DEF Answer, Shaped, Asking, Reporting, CallFits
  <2> SUFFICES ASSUME NEW u \in Citizen, NEW r \in Credited(u)
               PROVE  r \in Credited(u)'
    OBVIOUS
  <2>2. r # q /\ reports'[r] = reports[r]
    BY <2>1 DEF Credited
  <2>3. \A s \in Thread : Crediting(s)' /\ call'[s].report = r =>
          Crediting(s) /\ call'[s] = call[s]
    BY <2>1, <2>2 DEF Crediting
  <2>4. \A s \in Thread : call[s].op = "store" => call'[s] = call[s]
    BY <2>1 DEF Asking
  <2> QED BY <2>2, <2>3, <2>4 DEF Credited
<1>4. ASSUME NEW t \in Request \union Moderator, ReadProfile(t)
      PROVE  \A u \in Citizen : Credited(u) \subseteq Credited(u)'
  <2>1. /\ t \in Thread /\ Crediting(t) /\ reports' = reports /\ call[t].op = "bump"
        /\ \A s \in Thread : s # t => call'[s] = call[s]
        /\ call'[t] = [op |-> "write", user |-> call[t].user,
                       report |-> call[t].report, good |-> call[t].good,
                       then |-> call[t].then, read |-> profile[call[t].user]]
    BY <1>0, <1>4 DEF ReadProfile, Shaped, Crediting
  <2>2. CreditsAlike(t)
    BY <2>1 DEF CreditsAlike, Crediting
  <2> QED BY <2>1, <2>2, AlikeGrows
<1>5. ASSUME NEW t \in Moderator, Approve(t)
      PROVE  \A u \in Citizen : Credited(u) \subseteq Credited(u)'
  <2> DEFINE q == call[t].report
  <2>1. /\ t \in Thread /\ Moderating(t) /\ reports' = reports
        /\ call[t].op = "moderate" /\ call'[t].op = "bump" /\ call'[t].report = q
        /\ \A s \in Thread : s # t => call'[s] = call[s]
    BY <1>0, <1>5 DEF Approve, Shaped, Moderating
  <2>2. reports[q].status = "pending"
    BY <1>0, <2>1 DEF CallFits
  <2> SUFFICES ASSUME NEW u \in Citizen, NEW r \in Credited(u)
               PROVE  r \in Credited(u)'
    OBVIOUS
  <2>3. \A s \in Thread : Crediting(s)' =>
          (call'[s] = call[s] /\ Crediting(s)) \/ call'[s].report = q
    BY <2>1 DEF Crediting
  <2>4. \A s \in Thread : call[s].op = "store" => call'[s] = call[s]
    BY <2>1
  <2> QED BY <2>1, <2>2, <2>3, <2>4 DEF Credited
<1>6. ASSUME NEW t \in Moderator, StoreDecision(t)
      PROVE  \A u \in Citizen : Credited(u) \subseteq Credited(u)'
  <2> DEFINE q == call[t].report
  <2>1. /\ t \in Thread /\ Moderating(t) /\ call[t].op = "store"
        /\ call'[t] = [op |-> "idle"]
        /\ \A s \in Thread : s # t => call'[s] = call[s]
        /\ \A r : r # q => reports'[r] = reports[r]
    BY <1>0, <1>6 DEF StoreDecision, Shaped, Moderating, Idle
  <2>2. /\ q \in Report /\ reports[q].status = "pending" /\ reports[q] \in Row
    BY <2>1, OnePendingRow DEF CallInv, ReportShape, RowShape, NoRow
  <2>3. reports'[q] = [reports[q] EXCEPT !.status = call[t].status]
    BY <1>0, <1>6, <2>2 DEF StoreDecision, Shaped
  <2>4. reports'[q].status = call[t].status /\ reports'[q].user = reports[q].user
    BY <2>2, <2>3 DEF Row
  <2>5. \A s \in Thread : Crediting(s)' => s # t /\ call'[s] = call[s] /\ Crediting(s)
    BY <2>1 DEF Crediting
  <2> SUFFICES ASSUME NEW u \in Citizen, NEW r \in Credited(u)
               PROVE  r \in Credited(u)'
    OBVIOUS
  <2>6. CASE r # q
    <3>1. \A s \in Thread : call[s].op = "store" /\ call[s].report = r =>
            call'[s] = call[s]
      BY <2>1, <2>6
    <3> QED BY <2>1, <2>5, <2>6, <3>1 DEF Credited
  <2>7. CASE r = q
    <3>1. \A s \in Thread : s # t /\ call[s].op \in Reporting /\ call[s].report = q =>
            Crediting(s) /\ ~call[s].good
      BY <2>1, OneStore
    <3>2. call[t].status = "verified"
      <4>1. PICK s \in Thread : /\ call[s].op = "store" /\ call[s].report = r
                                /\ call[s].status = "verified"
        BY <2>2, <2>7 DEF Credited
      <4> QED BY <2>7, <3>1, <4>1 DEF Reporting, Crediting
    <3>3. ASSUME NEW s \in Thread, Crediting(s)', call'[s].report = r
          PROVE  ~call'[s].good
      BY <2>5, <2>7, <3>1, <3>3 DEF Crediting, Reporting
    <3>4. r \in Report /\ reports[r].user = u
      BY DEF Credited
    <3>5. reports'[r].status = "verified" /\ reports'[r].user = u
      BY <2>4, <2>7, <3>2, <3>4
    <3> QED BY <3>3, <3>4, <3>5 DEF Credited
  <2> QED BY <2>6, <2>7
<1>7. CASE Restart
  <2>1. \A t \in Thread : call'[t] = [op |-> "idle"]
    BY <1>7 DEF Restart, Idle
  <2>2. \A t \in Thread : call[t].op \notin Reporting
    <3>1. \A t \in Thread : "report" \in DOMAIN call[t] <=> call[t].op \in Reporting
      BY <1>0 DEF CallShape
    <3> QED BY <1>7, <3>1 DEF Restart
  <2>3. reports' = reports
    BY <1>7 DEF Restart
  <2>4. \A t \in Thread : ~Crediting(t)'
    BY <2>1 DEF Crediting
  <2> QED BY <2>2, <2>3, <2>4 DEF Credited, Reporting
<1> QED
  BY <1>0, <1>1, <1>2, <1>3, <1>4, <1>5, <1>6, <1>7, WriteCredits
     DEF Next, Correlate, Resolve, Prune, vars

LEMMA CreditStep ==
  ASSUME CallInv, CreditInv, [Next]_vars, OneModerator
  PROVE  CreditInv'
<1>0. /\ Shaped /\ \A t \in Thread : CallShape(t)
      /\ Request \union Moderator \subseteq Thread
  BY DEF CallInv, ReportShape, Thread
<1>1. \A u \in Citizen :
        IsFiniteSet(Credited(u)) /\ Cardinality(Credited(u)) \in Nat
          /\ IsFiniteSet(Credited(u)') /\ Cardinality(Credited(u)') \in Nat
  <2>1. IsFiniteSet(Report)
    BY ReportAssumption, FS_Interval DEF Report
  <2> QED BY <2>1, FS_Subset, FS_CardinalityType DEF Credited
<1>2. cutOff \subseteq cutOff'
  BY DEF Next, vars, LookForActive, AddDetected, Correlate, Resolve, Prune, BeginReport,
         BeginConfirm, Answer, ReadProfile, WriteProfile, BeginModerate, Approve,
         Reject, StoreDecision, Restart
<1>3. ASSUME NEW p, NEW u \in Citizen, WithinCredit(p, u)
      PROVE  WithinCredit(p, u)'
  <2>1. CASE cutOff' = {}
    <3>1. Cardinality(Credited(u)) <= Cardinality(Credited(u)')
      BY <1>1, <2>1, CreditGrows, FS_Subset
    <3> QED BY <1>1, <1>2, <1>3, <2>1, <3>1 DEF WithinCredit
  <2>2. CASE cutOff' # {}
    BY <1>3, <2>2 DEF WithinCredit
  <2> QED BY <2>1, <2>2
<1>4. CASE call' = call /\ profile' = profile
  BY <1>0, <1>3, <1>4 DEF CreditInv, CallShape
<1>5. ASSUME NEW t \in Thread, profile' = profile, call'[t].op # "write",
             \A s \in Thread : s # t => call'[s] = call[s]
      PROVE  CreditInv'
  BY <1>0, <1>3, <1>5 DEF CreditInv, CallShape
<1>6. ASSUME NEW t \in Thread,
             \/ \E i \in Place, k \in Kind : LookForActive(t, i, k)
             \/ AddDetected(t)
             \/ \E u \in Citizen, i \in Place, k \in Kind : BeginReport(t, u, i, k)
             \/ \E u \in Citizen, n \in DOMAIN incidents : BeginConfirm(t, u, n)
             \/ \E v : Answer(t, v)
             \/ \E q \in Report : BeginModerate(t, q)
             \/ Approve(t) \/ Reject(t) \/ StoreDecision(t)
      PROVE  CreditInv'
  <2>1. CASE \/ AddDetected(t)
             \/ \E i \in Place, k \in Kind : LookForActive(t, i, k)
             \/ \E u \in Citizen, i \in Place, k \in Kind : BeginReport(t, u, i, k)
             \/ \E u \in Citizen, n \in DOMAIN incidents : BeginConfirm(t, u, n)
    BY <1>0, <1>5, <2>1
       DEF LookForActive, AddDetected, BeginReport, BeginConfirm, Shaped, Idle
  <2>2. CASE (\E v : Answer(t, v)) \/ Approve(t)
    <3>1. /\ call'[t].op = "bump" /\ profile' = profile
          /\ \A s \in Thread : s # t => call'[s] = call[s]
      <4>1. CASE \E v : Answer(t, v)
        BY <1>0, <4>1 DEF Answer, Shaped
      <4>2. CASE Approve(t)
        BY <1>0, <4>2 DEF Approve, Shaped
      <4> QED BY <2>2, <4>1, <4>2
    <3> QED BY <1>5, <3>1
  <2>3. CASE (\E q \in Report : BeginModerate(t, q)) \/ Reject(t)
    BY <1>0, <1>5, <2>3 DEF BeginModerate, Reject, Shaped
  <2>4. CASE StoreDecision(t)
    <3>1. call'[t] = [op |-> "idle"] /\ profile' = profile
          /\ \A s \in Thread : s # t => call'[s] = call[s]
      BY <1>0, <2>4 DEF StoreDecision, Shaped, Idle
    <3> QED BY <1>5, <3>1
  <2> QED BY <1>6, <2>1, <2>2, <2>3, <2>4
<1>7. ASSUME NEW t \in Request \union Moderator, ReadProfile(t)
      PROVE  CreditInv'
  <2>1. /\ t \in Thread /\ profile' = profile /\ call[t].op = "bump"
        /\ call'[t] = [op |-> "write", user |-> call[t].user,
                       report |-> call[t].report, good |-> call[t].good,
                       then |-> call[t].then, read |-> profile[call[t].user]]
        /\ \A s \in Thread : s # t => call'[s] = call[s]
    BY <1>0, <1>7 DEF ReadProfile, Shaped
  <2>2. call[t].user \in Citizen
    BY <1>0, <2>1 DEF CallShape
  <2>3. WithinCredit(call[t].read, call[t].user)'
    <3>1. ASSUME NEW p, NEW u, p = profile[call[t].user], u = call[t].user
          PROVE  WithinCredit(p, u)'
      BY <1>3, <2>2, <3>1 DEF CreditInv
    <3>2. call'[t].read = profile[call[t].user] /\ call'[t].user = call[t].user
      BY <2>1
    <3> QED BY <3>1, <3>2 DEF WithinCredit
  <2> QED BY <1>0, <1>3, <2>1, <2>3 DEF CreditInv, CallShape
<1>8. ASSUME NEW t \in Request \union Moderator, WriteProfile(t)
      PROVE  CreditInv'
  <2> DEFINE p == call[t].read
             new == Bumped(p, call[t].good)
  <2> SUFFICES ASSUME NEW u \in Citizen, u = call[t].user
               PROVE  CreditInv'
    BY <1>0, <1>8 DEF WriteProfile, CallShape
  <2>1. /\ t \in Thread /\ call[t].op = "write" /\ call'[t].op # "write"
        /\ \A s \in Thread : s # t => call'[s] = call[s]
        /\ call[t].good \in BOOLEAN
    BY <1>0, <1>8 DEF WriteProfile, Shaped, Idle, CallShape, Crediting
  <2>2. /\ profile'[u] = new /\ \A w \in Citizen : w # u => profile'[w] = profile[w]
    BY <1>0, <1>8, <2>1 DEF WriteProfile, Shaped
  <2>3. WithinCredit(p, u)
    BY <2>1 DEF CreditInv
  <2>4. new.verified \in Nat /\ new.reputation \in Nat
          /\ new.reputation <= 5 * new.verified
    BY <2>1, <2>3 DEF WithinCredit, Bumped
  <2>5. cutOff' = {} => new.verified <= Cardinality(Credited(u)')
    <3> SUFFICES ASSUME cutOff' = {}
                 PROVE  new.verified <= Cardinality(Credited(u)')
      OBVIOUS
    <3>1. p.verified <= Cardinality(Credited(u)) /\ p.verified \in Nat
      BY <1>2, <2>3 DEF WithinCredit
    <3>2. /\ Credited(u) \subseteq Credited(u)'
          /\ call[t].good => Credited(u)' # Credited(u)
      BY <1>8, <2>1, WriteCredits
    <3>3. CASE call[t].good
      <4>1. Cardinality(Credited(u)) < Cardinality(Credited(u)')
        BY <1>1, <2>1, <3>2, <3>3, FS_Subset
      <4>2. new.verified = p.verified + 1
        BY <3>3 DEF Bumped
      <4> QED BY <1>1, <2>1, <3>1, <4>1, <4>2
    <3>4. CASE ~call[t].good
      <4>1. Cardinality(Credited(u)) <= Cardinality(Credited(u)')
        BY <1>1, <2>1, <3>2, FS_Subset
      <4>2. new.verified = p.verified
        BY <3>4 DEF Bumped
      <4> QED BY <1>1, <2>1, <3>1, <4>1, <4>2
    <3> QED BY <3>3, <3>4
  <2>6. \A w \in Citizen : WithinCredit(profile[w], w)'
    <3>1. WithinCredit(profile[u], u)'
      BY <2>2, <2>4, <2>5 DEF WithinCredit
    <3>2. \A w \in Citizen : w # u => WithinCredit(profile[w], w)'
      BY <1>3, <2>2 DEF WithinCredit, CreditInv
    <3> QED BY <3>1, <3>2
  <2> QED BY <1>0, <1>3, <2>1, <2>6 DEF CreditInv, CallShape
<1>9. CASE Restart
  <2>1. \A t \in Thread : call'[t] = [op |-> "idle"]
    BY <1>9 DEF Restart, Idle
  <2>2. profile' = profile
    BY <1>9 DEF Restart
  <2> QED BY <1>3, <2>1, <2>2 DEF CreditInv
<1>10. Request \subseteq Thread /\ Moderator \subseteq Thread /\ Detector \subseteq Thread
  BY DEF Thread
<1> QED
  BY <1>4, <1>6, <1>7, <1>8, <1>9, <1>10 DEF Next, Correlate, Resolve, Prune, vars

(* A citizen's standing is backed by evidence that was upheld, whatever    *)
(* updates of the profile are lost to one another, with one operator       *)
(* deciding.                                                               *)
THEOREM StandingBacked ==
  ASSUME OneModerator
  PROVE  Spec => []StandingIsBacked
<1>1. Init => CallInv /\ CreditInv
  <2> SUFFICES ASSUME Init PROVE CallInv /\ CreditInv
    OBVIOUS
  <2>1. /\ \A t \in Thread : call[t] = [op |-> "idle"]
        /\ \A u \in Citizen : profile[u] = [verified |-> 0, reputation |-> 0]
    BY DEF Init, Idle
  <2>2. IsFiniteSet(Report)
    BY ReportAssumption, FS_Interval DEF Report
  <2>3. \A u : Cardinality(Credited(u)) \in Nat
    BY <2>2, FS_Subset, FS_CardinalityType DEF Credited
  <2> QED BY <2>1, <2>3, ShapeInit DEF CreditInv, WithinCredit
<1>2. CallInv /\ CreditInv /\ [Next]_vars => (CallInv /\ CreditInv)'
  BY CallStep, CreditStep
<1>3. CallInv /\ CreditInv => StandingIsBacked
  <2> SUFFICES ASSUME CallInv, CreditInv, NEW u \in Citizen
               PROVE  LET S == {t \in Moderator : call[t].op = "store"
                                                   /\ call[t].status = "verified"} IN
                      /\ profile[u].reputation <= 5 * profile[u].verified
                      /\ cutOff = {} => profile[u].verified <=
                                          Cardinality(Upheld(u)) + Cardinality(S)
    BY DEF StandingIsBacked
  <2> DEFINE S == {t \in Moderator : call[t].op = "store"
                                       /\ call[t].status = "verified"}
  <2>1. WithinCredit(profile[u], u)
    BY DEF CreditInv
  <2>2. IsFiniteSet(Upheld(u)) /\ Cardinality(Upheld(u)) \in Nat
    <3>1. IsFiniteSet(Report)
      BY ReportAssumption, FS_Interval DEF Report
    <3> QED BY <3>1, FS_Subset, FS_CardinalityType DEF Upheld
  <2>3. \A r \in Credited(u) :
          r \in Upheld(u) \/ \E t \in S : call[t].report = r
    BY DEF Credited, Upheld, CallInv, CallFits, Moderating
  <2>4. Cardinality(Credited(u)) \in Nat /\
          Cardinality(Credited(u)) <= Cardinality(Upheld(u)) + Cardinality(S)
    <3>1. CASE S = {}
      <4>1. Credited(u) \subseteq Upheld(u)
        BY <2>3, <3>1
      <4>2. Cardinality(S) = 0
        BY <3>1, FS_EmptySet
      <4> HIDE DEF S
      <4> QED BY <2>2, <4>1, <4>2, FS_Subset, FS_CardinalityType
    <3>2. CASE S # {}
      <4>1. PICK t \in S : TRUE
        BY <3>2
      <4>2. S = {t}
        BY <4>1 DEF OneModerator
      <4>3. Cardinality(S) = 1
        BY <4>2, FS_Singleton
      <4> DEFINE both == Upheld(u) \union {call[t].report}
      <4>4. Credited(u) \subseteq both
        BY <2>3, <4>2
      <4>5. /\ IsFiniteSet(both) /\ Cardinality(both) \in Nat
            /\ Cardinality(both) <= Cardinality(Upheld(u)) + 1
        <5>1. CASE call[t].report \in Upheld(u)
          <6>1. both = Upheld(u)
            BY <5>1
          <6> HIDE DEF both
          <6> QED BY <2>2, <6>1
        <5>2. CASE call[t].report \notin Upheld(u)
          <6>1. IsFiniteSet(both) /\ Cardinality(both) = Cardinality(Upheld(u)) + 1
            BY <2>2, <5>2, FS_AddElement
          <6> HIDE DEF both
          <6> QED BY <2>2, <6>1
        <5> QED BY <5>1, <5>2
      <4> HIDE DEF both, S
      <4> QED BY <2>2, <4>3, <4>4, <4>5, FS_Subset, FS_CardinalityType
    <3> QED BY <3>1, <3>2
  <2> HIDE DEF S
  <2>5. Cardinality(S) \in Nat
    <3>1. \A s, t \in S : s = t
      BY DEF S, OneModerator
    <3>2. S = {} \/ \E t : S = {t}
      BY <3>1
    <3> QED BY <3>2, FS_EmptySet, FS_Singleton
  <2> QED BY <2>1, <2>2, <2>4, <2>5 DEF WithinCredit, S
<1> QED BY <1>1, <1>2, <1>3, PTL DEF Spec

-----------------------------------------------------------------------------
(* The detectors.  When one thread does the looking, nothing but a report  *)
(* or itself adds an incident between its look and its addition, and an    *)
(* incident no longer active never is again.                               *)

NoneActive(i, k) ==
  \A n \in DOMAIN incidents :
    ~ /\ incidents[n].source # "community" /\ incidents[n].state = "active"
      /\ incidents[n].at = i /\ incidents[n].kind = k

DetectInv ==
  /\ DetectorsNeverDuplicate
  /\ call[Tick].op = "detect" => NoneActive(call[Tick].at, call[Tick].kind)

(* Steps that add nothing, or only what a citizen reported.                *)
LEMMA NothingDetected ==
  ASSUME DetectInv, Follows(incidents', incidents), call'[Tick] = call[Tick],
         \A n \in DOMAIN incidents' \ DOMAIN incidents :
           incidents'[n].source = "community"
  PROVE  DetectInv'
BY DEF DetectInv, DetectorsNeverDuplicate, NoneActive, Follows

(* An incident added where none was active is no duplicate.                *)
LEMMA OneDetected ==
  ASSUME Shaped, DetectorsNeverDuplicate, NEW i \in Place, NEW k \in Kind,
         NEW source \in {"edge", "sfd_911", "community"},
         NoneActive(i, k), Added(i, k, source)
  PROVE  DetectorsNeverDuplicate'
<1>1. /\ Follows(incidents', incidents)
      /\ DOMAIN incidents' = DOMAIN incidents \union {Len(incidents) + 1}
      /\ incidents'[Len(incidents) + 1]
           = [at |-> i, kind |-> k, source |-> source, state |-> "active"]
      /\ \A n \in DOMAIN incidents : incidents'[n] = incidents[n]
  BY AddedFollows
<1>2. /\ incidents'[Len(incidents) + 1].at = i
      /\ incidents'[Len(incidents) + 1].kind = k
  BY <1>1
<1> QED BY <1>1, <1>2 DEF DetectorsNeverDuplicate, NoneActive

LEMMA DetectStep ==
  ASSUME ReportShape, DetectInv, [Next]_vars, Detector = {Tick}
  PROVE  DetectInv'
<1>0. /\ Shaped /\ Follows(incidents', incidents) /\ Tick \in Thread
      /\ \A t \in Thread : CallShape(t)
      /\ Request \subseteq Thread /\ Moderator \subseteq Thread
  BY IncidentsFollow DEF ReportShape, Thread
<1>1. CASE incidents' = incidents /\ call'[Tick] = call[Tick]
  BY <1>0, <1>1, NothingDetected
<1>2. ASSUME NEW t \in Thread, incidents' = incidents, call'[t].op # "detect",
             \A s \in Thread : s # t => call'[s] = call[s]
      PROVE  DetectInv'
  BY <1>0, <1>2 DEF DetectInv, DetectorsNeverDuplicate, NoneActive
<1>3. ASSUME NEW i \in Place, NEW k \in Kind, LookForActive(Tick, i, k)
      PROVE  DetectInv'
  <2>1. call'[Tick] = [op |-> "detect", at |-> i, kind |-> k] /\ incidents' = incidents
    BY <1>0, <1>3 DEF LookForActive, Shaped
  <2>2. NoneActive(i, k)
    BY <1>3 DEF LookForActive, ActiveOf, ActiveAt, NoneActive
  <2>3. call'[Tick].at = i /\ call'[Tick].kind = k
    BY <2>1
  <2> QED BY <2>1, <2>2, <2>3 DEF DetectInv, DetectorsNeverDuplicate, NoneActive
<1>4. CASE AddDetected(Tick)
  <2>1. call[Tick].at \in Place /\ call[Tick].kind \in Kind /\ call[Tick].op = "detect"
    BY <1>0, <1>4 DEF AddDetected, CallShape
  <2>2. call'[Tick].op # "detect"
    BY <1>0, <1>4 DEF AddDetected, Shaped, Idle
  <2>3. DetectorsNeverDuplicate'
    BY <1>0, <1>4, <2>1, OneDetected DEF AddDetected, DetectInv
  <2> QED BY <2>2, <2>3 DEF DetectInv
<1>5. ASSUME NEW d \in Dispatch, NEW i \in Place, Correlate(d, i)
      PROVE  DetectInv'
  <2>1. call'[Tick].op # "detect" /\ call'[Tick] = call[Tick]
    BY <1>5 DEF Correlate, Idle
  <2>2. CASE ActiveOf(i, Collision) # {}
    BY <1>1, <1>5, <2>1, <2>2 DEF Correlate
  <2>3. CASE ActiveOf(i, Collision) = {}
    <3>1. NoneActive(i, Collision)
      BY <2>3 DEF ActiveOf, ActiveAt, NoneActive
    <3>2. DetectorsNeverDuplicate'
      BY <1>0, <1>5, <2>3, <3>1, OneDetected, ReportAssumption DEF Correlate, DetectInv
    <3> QED BY <2>1, <3>2 DEF DetectInv
  <2> QED BY <2>2, <2>3
<1>6. ASSUME NEW t \in Thread, call[t].op # "detect", call'[t].op # "detect",
             \A s \in Thread : s # t => call'[s] = call[s],
             \/ incidents' = incidents
             \/ \E i \in Place, k \in Kind : \E r, n : Show(r, n, i, k)
      PROVE  DetectInv'
  <2>1. \A n \in DOMAIN incidents' \ DOMAIN incidents :
          incidents'[n].source = "community"
    <3>1. CASE incidents' = incidents
      BY <3>1
    <3>2. CASE ~(incidents' = incidents)
      <4>1. PICK i \in Place, k \in Kind : Added(i, k, "community")
        BY <1>6, <3>2 DEF Show
      <4>2. /\ DOMAIN incidents' = DOMAIN incidents \union {Len(incidents) + 1}
            /\ incidents'[Len(incidents) + 1]
                 = [at |-> i, kind |-> k, source |-> "community", state |-> "active"]
        BY <1>0, <4>1, AddedFollows
      <4>3. incidents'[Len(incidents) + 1].source = "community"
        BY <4>2
      <4> QED BY <4>2, <4>3
    <3> QED BY <3>1, <3>2
  <2>2. CASE t # Tick
    BY <1>0, <1>6, <2>1, <2>2, NothingDetected
  <2>3. CASE t = Tick
    BY <1>0, <1>6, <2>1, <2>3 DEF DetectInv, DetectorsNeverDuplicate, Follows
  <2> QED BY <2>2, <2>3
<1>7. ASSUME NEW t \in Request, NEW v, Answer(t, v)
      PROVE  DetectInv'
  <2>1. /\ call[t].at \in Place /\ call[t].kind \in Kind
        /\ call[t].op # "detect" /\ call'[t].op # "detect"
        /\ \A s \in Thread : s # t => call'[s] = call[s]
    BY <1>0, <1>7 DEF Answer, Shaped, CallShape, Asking
  <2>2. \/ incidents' = incidents
        \/ \E i \in Place, k \in Kind : \E r, n : Show(r, n, i, k)
    BY <1>7, <2>1 DEF Answer
  <2> QED BY <1>0, <1>6, <2>1, <2>2
<1>8. ASSUME NEW t \in Moderator, Approve(t)
      PROVE  DetectInv'
  <2> DEFINE r == call[t].report
  <2>1. /\ reports[r].at \in Place /\ reports[r].kind \in Kind
        /\ call[t].op # "detect" /\ call'[t].op # "detect"
        /\ \A s \in Thread : s # t => call'[s] = call[s]
    BY <1>0, <1>8, ModeratedRow DEF Approve, Shaped, Moderating
  <2>2. \/ incidents' = incidents
        \/ \E i \in Place, k \in Kind : \E q, n : Show(q, n, i, k)
    BY <1>8, <2>1 DEF Approve
  <2> QED BY <1>0, <1>6, <2>1, <2>2
<1>9. ASSUME NEW t \in Thread,
             \/ \E u \in Citizen, i \in Place, k \in Kind : BeginReport(t, u, i, k)
             \/ \E u \in Citizen, n \in DOMAIN incidents : BeginConfirm(t, u, n)
             \/ ReadProfile(t) \/ WriteProfile(t)
             \/ \E r \in Report : BeginModerate(t, r)
             \/ Reject(t) \/ StoreDecision(t)
      PROVE  DetectInv'
  <2>1. /\ incidents' = incidents /\ call'[t].op # "detect"
        /\ \A s \in Thread : s # t => call'[s] = call[s]
    BY <1>0, <1>9
       DEF BeginReport, BeginConfirm, ReadProfile, WriteProfile, BeginModerate, Reject,
           StoreDecision, Shaped, Idle
  <2> QED BY <1>2, <2>1
<1>10. CASE Restart
  <2>1. call'[Tick].op # "detect" /\ DOMAIN incidents' = DOMAIN incidents
    BY <1>0, <1>10 DEF Restart, Idle
  <2> QED BY <1>0, <2>1 DEF DetectInv, DetectorsNeverDuplicate, Follows
<1>11. ASSUME NEW n \in DOMAIN incidents, Resolve(n) \/ Prune(n)
       PROVE  DetectInv'
  <2>1. DOMAIN incidents' = DOMAIN incidents /\ call' = call
    BY <1>11 DEF Resolve, Prune
  <2> QED BY <1>0, <2>1, NothingDetected
<1> QED
  BY <1>0, <1>1, <1>3, <1>4, <1>5, <1>7, <1>8, <1>9, <1>10, <1>11 DEF Next, vars

(* The detectors and the 911 feed do not raise one incident twice, as long *)
(* as one thread does the looking.                                         *)
THEOREM OneDetectorNeverDuplicates ==
  ASSUME Detector = {Tick}
  PROVE  Spec => []DetectorsNeverDuplicate
<1>1. Init => ReportShape /\ DetectInv
  <2> SUFFICES ASSUME Init PROVE ReportShape /\ DetectInv
    OBVIOUS
  <2>1. Tick \in Thread /\ DOMAIN incidents = {}
    BY ReportAssumption DEF Init, Thread
  <2> QED BY <2>1, ShapeInit
          DEF CallInv, DetectInv, DetectorsNeverDuplicate, Init, Idle
<1>2. ReportShape /\ DetectInv /\ [Next]_vars => (ReportShape /\ DetectInv)'
  BY ShapeStep, DetectStep
<1>3. DetectInv => DetectorsNeverDuplicate
  BY DEF DetectInv
<1> QED BY <1>1, <1>2, <1>3, PTL DEF Spec
=============================================================================
