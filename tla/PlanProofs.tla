----------------------------- MODULE PlanProofs ------------------------------
(***************************************************************************)
(* Safety of the decision loop, for any number of signals, plans and       *)
(* incidents, any limit and any windows: the invariants the runs check on  *)
(* small instances, proved of PlanLifecycle.                               *)
(*                                                                         *)
(* None of them is inductive alone.  RegistrationOwned needs to know that  *)
(* a monitored plan is executed, or a rejection could leave a booking      *)
(* behind; R6Budget and BookedChangeOnTop need the bookings to be owned;   *)
(* RulesBrokenOnlyByRepeats keeps every timing and every record explained, *)
(* for a rollback writes a record back without verifying it;               *)
(* all of them need plans beyond the counter to be absent, or a            *)
(* recommendation could overwrite a live plan.  IInv is their conjunction. *)
(* The last part shows that PlanLifecycle implements GovernedSignals: each *)
(* handler is one abstract step, or invisible from the street.  IInv tells *)
(* the step what it needs: a recommendation's plan is new, and the plan an *)
(* operator decides about names a known set of signals.                    *)
(***************************************************************************)
EXTENDS PlanProperties, FiniteSetTheorems, SequenceTheorems, TLAPS

(* A plan is absent exactly when it has not been generated yet. *)
Numbered == \A p \in Plan : status[p] = "absent" <=> p > issued

(* Only executed plans are monitored. *)
WatchedIsExecuted == \A p \in Monitored : status[p] = "executed"

IInv ==
  /\ TypeOK
  /\ Numbered
  /\ WatchedIsExecuted
  /\ RegistrationOwned
  /\ R6Budget
  /\ RulesBrokenOnlyByRepeats
  /\ BookedChangeOnTop

-----------------------------------------------------------------------------
(* Pruning changes finished plans only. *)
LEMMA PrunedKeeps ==
  ASSUME NEW st \in [Plan -> Status]
  PROVE  /\ Pruned(st) \in [Plan -> Status]
         /\ \A p \in Plan :
              \/ Pruned(st)[p] = st[p]
              \/ st[p] \in Terminal /\ Pruned(st)[p] = "forgotten"
BY DEF Pruned, Status

LEMMA RegisteredFinite ==
  ASSUME TypeOK
  PROVE  IsFiniteSet(Registered) /\ Cardinality(Registered) \in Nat
<1>1. Registered \in SUBSET Intersection
  BY DEF Registered
<1>2. QED
  BY <1>1, IntersectionAssumption, FS_Subset, FS_CardinalityType

(* The targets of a proposal are finitely many signals. *)
LEMMA ListedTargets ==
  ASSUME NEW c, c.targets \in Seq(Intersection)
  PROVE  /\ IsFiniteSet(DOMAIN c.targets)
         /\ Range(c.targets) \in SUBSET Intersection
<1>1. /\ Len(c.targets) \in Nat
      /\ DOMAIN c.targets = 1 .. Len(c.targets)
      /\ \A k \in 1 .. Len(c.targets) : c.targets[k] \in Intersection
  BY LenProperties, ElementOfSeq
<1>2. IsFiniteSet(1 .. Len(c.targets))
  BY <1>1, FS_Interval
<1>3. IsFiniteSet(DOMAIN c.targets)
  BY <1>1, <1>2, Zenon
<1>4. Range(c.targets) \in SUBSET Intersection
  BY <1>1 DEF Range
<1>5. QED
  BY <1>3, <1>4

LEMMA Products ==
  /\ \A a, b \in Nat : a * b \in Nat
  /\ \A a \in Nat : 0 * a = 0
OBVIOUS

(* What goes unverified is a natural number, and nothing on a signal that  *)
(* the list names once.                                                    *)
LEMMA UnverifiedNat ==
  ASSUME NEW c, c.targets \in Seq(Intersection), c.gain \in [Intersection -> Nat],
         NEW i \in Intersection
  PROVE  /\ Unverified(c, i) \in Nat
         /\ ListedOnce(c) => Unverified(c, i) = 0
<1>1. CASE i \notin Range(c.targets)
  BY <1>1 DEF Unverified
<1>2. CASE i \in Range(c.targets)
  <2> DEFINE places == {k \in DOMAIN c.targets : c.targets[k] = i}
  <2>1. IsFiniteSet(places) /\ places # {}
    <3>1. IsFiniteSet(DOMAIN c.targets)
      BY ListedTargets
    <3>2. IsFiniteSet(places)
      BY <3>1, FS_Subset
    <3>3. QED
      BY <1>2, <3>2 DEF Range
  <2>2. Cardinality(places) \in Nat /\ Cardinality(places) # 0
    <3> HIDE DEF places
    <3>1. QED
      BY <2>1, FS_CardinalityType, FS_EmptySet
  <2>3. Mentions(c, i) - 1 \in Nat
    BY <2>2 DEF Mentions
  <2>4. Unverified(c, i) = (Mentions(c, i) - 1) * c.gain[i]
    BY <1>2 DEF Unverified
  <2>5. c.gain[i] \in Nat
    OBVIOUS
  <2>6. Unverified(c, i) \in Nat
    BY <2>3, <2>4, <2>5, Products
  <2>7. ASSUME ListedOnce(c) PROVE Unverified(c, i) = 0
    <3>1. Mentions(c, i) - 1 = 0
      BY <1>2, <2>7 DEF ListedOnce
    <3>2. QED
      BY <2>4, <2>5, <3>1, Products
  <2>8. QED
    BY <2>6, <2>7
<1>3. QED
  BY <1>1, <1>2

(* Booking the signals of a list costs at most its places not booked yet.  *)
LEMMA BookingCost ==
  ASSUME TypeOK, NEW c, c.targets \in Seq(Intersection)
  PROVE  /\ Cardinality(Registered \union Range(c.targets))
               <= Cardinality(Registered) + Cardinality(NewPlaces(c))
         /\ Cardinality(NewPlaces(c)) \in Nat
         /\ Cardinality(Registered \union Range(c.targets)) \in Nat
<1> DEFINE T    == Range(c.targets)
           new  == T \ Registered
           book == [k \in NewPlaces(c) |-> c.targets[k]]
<1>1. IsFiniteSet(Registered) /\ Cardinality(Registered) \in Nat
  BY RegisteredFinite
<1>2. IsFiniteSet(NewPlaces(c)) /\ Cardinality(NewPlaces(c)) \in Nat
  BY ListedTargets, FS_Subset, FS_CardinalityType DEF NewPlaces
<1>3. book \in Surjection(NewPlaces(c), new)
  BY DEF Surjection, NewPlaces, Range
<1>4. IsFiniteSet(new) /\ Cardinality(new) <= Cardinality(NewPlaces(c))
  BY <1>2, <1>3, FS_Surjection
<1>5. Cardinality(new) \in Nat
  BY <1>4, FS_CardinalityType
<1>6. Registered \cap new = {} /\ Registered \union new = Registered \union T
  OBVIOUS
<1>7. Cardinality(Registered \union new) = Cardinality(Registered) + Cardinality(new)
  <2>1. Cardinality(Registered \cap new) = 0
    BY <1>6, FS_EmptySet
  <2>2. Cardinality(Registered \union new)
          = Cardinality(Registered) + Cardinality(new) - Cardinality(Registered \cap new)
    BY <1>1, <1>4, FS_Union
  <2>3. QED
    <3> HIDE DEF new
    <3>1. QED
      BY <1>1, <1>5, <2>1, <2>2
<1>8. Cardinality(Registered \union T) = Cardinality(Registered) + Cardinality(new)
  BY <1>6, <1>7, Zenon
<1> HIDE DEF new, T
<1>9. /\ Cardinality(Registered \union T)
             <= Cardinality(Registered) + Cardinality(NewPlaces(c))
      /\ Cardinality(Registered \union T) \in Nat
  BY <1>1, <1>2, <1>4, <1>5, <1>8
<1>10. QED
  BY <1>2, <1>9 DEF T

(* A table of bookings that books no new signal stays inside the budget.   *)
LEMMA FewerBookings ==
  ASSUME TypeOK, R6Budget, Registered' \subseteq Registered
  PROVE  R6Budget'
<1>1. IsFiniteSet(Registered) /\ Cardinality(Registered) \in Nat
  BY RegisteredFinite
<1>2. /\ IsFiniteSet(Registered')
      /\ Cardinality(Registered') <= Cardinality(Registered)
  BY <1>1, FS_Subset
<1>3. Cardinality(Registered') \in Nat
  BY <1>2, FS_CardinalityType
<1>4. QED
  BY <1>1, <1>2, <1>3, R6Assumption DEF R6Budget

-----------------------------------------------------------------------------
LEMMA InitIInv == Init => IInv
<1> SUFFICES ASSUME Init PROVE IInv
  OBVIOUS
<1>1. TypeOK
  BY BoundAssumption DEF Init, TypeOK, Plan, NoPlan, Mode, Status, IncidentState
<1>2. Numbered
  BY BoundAssumption DEF Init, Numbered, Plan
<1>3. WatchedIsExecuted
  BY DEF Init, WatchedIsExecuted, Monitored
<1>4. Registered = {}
  BY DEF Init, Registered
<1>5. RegistrationOwned /\ BookedChangeOnTop
  BY <1>4 DEF RegistrationOwned, BookedChangeOnTop
<1>6. R6Budget
  BY <1>4, FS_EmptySet, R6Assumption DEF R6Budget
<1>7. RulesBrokenOnlyByRepeats
  BY PlannerAssumption DEF Init, RulesBrokenOnlyByRepeats, Explained
<1>8. QED
  BY <1>1, <1>2, <1>3, <1>5, <1>6, <1>7 DEF IInv

-----------------------------------------------------------------------------
(* What explains a timing does so ever after: no plan that went live does   *)
(* anything but stay, be reverted or be forgotten.                         *)
LEMMA RulesStay ==
  ASSUME RulesBrokenOnlyByRepeats,
         \A p \in DOMAIN body : /\ p \in DOMAIN body'
                                /\ body'[p] = body[p]
                                /\ status[p] \in WentLive => status'[p] \in WentLive,
         \A i \in Intersection : \/ timing'[i] = timing[i]
                                 \/ timing'[i] <= Headroom
                                 \/ \E q \in Plan : timing'[i] = prev[q][i],
         UNCHANGED prev
  PROVE  RulesBrokenOnlyByRepeats'
<1>1. ASSUME NEW i \in Intersection, NEW v, Explained(i, v)
      PROVE  \/ v <= Headroom
             \/ \E p \in DOMAIN body' : /\ status'[p] \in WentLive
                                        /\ v <= Headroom + Unverified(body'[p], i)
  BY <1>1 DEF Explained
<1>2. ASSUME NEW i \in Intersection
      PROVE  Explained(i, timing[i])'
  <2>1. \/ timing'[i] <= Headroom
        \/ Explained(i, timing'[i])
    BY DEF RulesBrokenOnlyByRepeats
  <2>2. QED
    BY <1>1, <2>1 DEF Explained
<1>3. ASSUME NEW i \in Intersection, NEW p \in Plan
      PROVE  Explained(i, prev[p][i])'
  <2>1. Explained(i, prev[p][i]) /\ prev'[p][i] = prev[p][i]
    BY DEF RulesBrokenOnlyByRepeats
  <2>2. QED
    BY <1>1, <2>1 DEF Explained
<1>4. QED
  BY <1>2, <1>3 DEF RulesBrokenOnlyByRepeats

(* A step that leaves the streets, the bookings, the monitors and the      *)
(* plans that went live alone, and gives every plan it changes a legal     *)
(* status.                                                                 *)
LEMMA StreetsUntouched ==
  ASSUME IInv,
         UNCHANGED <<issued, body, prev, monitor, active, timing>>,
         status' \in [Plan -> Status],
         \A p \in Plan : status'[p] = "absent" <=> status[p] = "absent",
         \A p \in Plan : status[p] \in WentLive => status'[p] = status[p],
         mode' \in Mode, age' \in [Plan -> Nat],
         incident' \in [Incident -> IncidentState]
  PROVE  IInv'
<1>0. \A p \in Monitored : status'[p] = status[p]
  BY DEF IInv, WatchedIsExecuted, Monitored, WentLive
<1>1. TypeOK'
  BY DEF IInv, TypeOK
<1>2. Numbered'
  BY DEF IInv, Numbered
<1>3. /\ Monitored' = Monitored
      /\ Registered' = Registered
      /\ \A p \in Plan : Targets(p)' = Targets(p)
  BY DEF Monitored, Registered, Targets
<1>4. WatchedIsExecuted'
  BY <1>0, <1>3 DEF IInv, WatchedIsExecuted
<1>5. RegistrationOwned'
  <2> SUFFICES ASSUME NEW i \in Registered
               PROVE  /\ status'[active[i]] = "executed"
                      /\ active[i] \in Monitored
                      /\ i \in Targets(active[i])
    BY <1>3 DEF RegistrationOwned, Targets
  <2>1. /\ status[active[i]] = "executed"
        /\ active[i] \in Monitored
        /\ i \in Targets(active[i])
    BY DEF IInv, RegistrationOwned
  <2>2. QED
    BY <1>0, <2>1
<1>6. R6Budget'
  BY <1>3 DEF IInv, R6Budget
<1>7. RulesBrokenOnlyByRepeats'
  <2>1. \A p \in DOMAIN body : p \in Plan
    BY BoundAssumption DEF IInv, TypeOK, Plan
  <2>2. QED
    BY <2>1, RulesStay DEF IInv
<1>8. BookedChangeOnTop'
  BY <1>3 DEF IInv, BookedChangeOnTop
<1>9. QED
  BY <1>1, <1>2, <1>4, <1>5, <1>6, <1>7, <1>8 DEF IInv

LEMMA RecommendStep ==
  ASSUME IInv, NEW n \in Incident, NEW c \in Proposals, Recommend(n, c)
  PROVE  IInv'
<1> DEFINE p == issued + 1
<1>1. /\ p \in Plan
      /\ p > issued
      /\ issued \in Nat
      /\ c.targets \in Seq(Intersection)
      /\ c.gain \in [Intersection -> Nat]
  BY BoundAssumption, PlannerAssumption DEF IInv, TypeOK, Recommend, Plan
<1>2. PICK answer \in GateAnswers(p, c) :
        /\ status' = Pruned([status EXCEPT ![p] = answer])
        /\ issued' = p
        /\ body' = [q \in 1 .. p |->
                      IF q = p THEN [incident |-> n, targets |-> c.targets,
                                     gain |-> c.gain]
                               ELSE body[q]]
        /\ incident' = IF /\ answer = "pending_approval"
                          /\ incident[n] \in {"detected", "acknowledged"}
                       THEN [incident EXCEPT ![n] = "mitigating"]
                       ELSE incident
  BY DEF Recommend
<1>3. answer \in {"refused", "pending_approval", "blocked_constraint"}
  BY DEF GateAnswers
<1> DEFINE st == [status EXCEPT ![p] = answer]
<1>4. st \in [Plan -> Status]
  BY <1>3 DEF IInv, TypeOK, Status
<1>5. /\ status' \in [Plan -> Status]
      /\ \A q \in Plan : \/ status'[q] = st[q]
                         \/ st[q] \in Terminal /\ status'[q] = "forgotten"
  BY <1>2, <1>4, PrunedKeeps
<1>6. \A q \in Plan : st[q] = IF q = p THEN answer ELSE status[q]
  BY <1>1 DEF IInv, TypeOK
<1>7. TypeOK'
  <2>1. issued' \in 0 .. PlanBound
    BY <1>1, <1>2, BoundAssumption DEF Plan
  <2>2. body' \in [1 .. issued' -> Body]
    <3>1. [incident |-> n, targets |-> c.targets, gain |-> c.gain] \in Body
      BY <1>1 DEF Body
    <3>2. \A q \in 1 .. p : q # p => q \in 1 .. issued
      BY <1>1
    <3>3. \A q \in 1 .. issued : body[q] \in Body
      BY DEF IInv, TypeOK
    <3>4. QED
      BY <1>2, <3>1, <3>2, <3>3
  <2>3. incident' \in [Incident -> IncidentState]
    BY <1>2 DEF IInv, TypeOK, IncidentState
  <2>4. QED
    BY <1>5, <2>1, <2>2, <2>3 DEF IInv, TypeOK, Recommend
<1>8. Numbered'
  <2> SUFFICES ASSUME NEW q \in Plan
               PROVE  status'[q] = "absent" <=> q > issued'
    BY DEF Numbered
  <2>1. status[q] = "absent" <=> q > issued
    BY DEF IInv, Numbered
  <2>2. status'[q] = "absent" <=> st[q] = "absent"
    BY <1>5 DEF Terminal
  <2>3. CASE q = p
    BY <1>1, <1>2, <1>3, <1>6, <2>2, <2>3
  <2>4. CASE q # p
    <3>1. q > issued <=> q > p
      BY <1>1, <2>4, BoundAssumption DEF Plan
    <3>2. QED
      BY <1>2, <1>6, <2>1, <2>2, <2>4, <3>1
  <2>5. QED
    BY <2>3, <2>4
<1>9. \A q \in Plan : status[q] = "executed" =>
        /\ status'[q] = "executed"
        /\ q \in 1 .. issued
        /\ body'[q] = body[q]
        /\ Targets(q)' = Targets(q)
  <2> SUFFICES ASSUME NEW q \in Plan, status[q] = "executed"
               PROVE  /\ status'[q] = "executed"
                      /\ q \in 1 .. issued
                      /\ body'[q] = body[q]
                      /\ Targets(q)' = Targets(q)
    OBVIOUS
  <2>1. ~ (q > issued)
    BY DEF IInv, Numbered
  <2>2. q \in 1 .. issued
    BY <1>1, <2>1, BoundAssumption DEF Plan
  <2>3. q # p /\ q \in 1 .. p
    BY <1>1, <2>2
  <2>4. status'[q] = "executed"
    BY <1>5, <1>6, <2>3 DEF Terminal
  <2>5. body'[q] = body[q]
    BY <1>2, <2>3
  <2>6. DOMAIN body' = 1 .. p /\ DOMAIN body = 1 .. issued
    BY <1>2 DEF IInv, TypeOK
  <2>7. QED
    BY <2>2, <2>3, <2>4, <2>5, <2>6 DEF Targets
<1>10. UNCHANGED <<prev, monitor, active, timing>>
  BY DEF Recommend
<1>11. Monitored' = Monitored /\ Registered' = Registered
  BY <1>10 DEF Monitored, Registered
<1>12. WatchedIsExecuted'
  BY <1>9, <1>11 DEF IInv, WatchedIsExecuted, Monitored
<1>13. \A i \in Registered : /\ active[i] \in Plan
                             /\ status[active[i]] = "executed"
  BY DEF IInv, TypeOK, RegistrationOwned, Registered
<1>14. RegistrationOwned'
  BY <1>9, <1>10, <1>11, <1>13 DEF IInv, RegistrationOwned, Targets
<1>15. R6Budget' /\ RulesBrokenOnlyByRepeats'
  <2>1. R6Budget'
    BY <1>10, <1>11 DEF IInv, R6Budget
  <2>2. DOMAIN body = 1 .. issued /\ DOMAIN body' = 1 .. p
    BY <1>2 DEF IInv, TypeOK
  <2>3. ASSUME NEW q \in DOMAIN body
        PROVE  /\ q \in DOMAIN body'
               /\ body'[q] = body[q]
               /\ status[q] \in WentLive => status'[q] \in WentLive
    <3>1. q \in Plan /\ q # p /\ q \in 1 .. p
      BY <1>1, <2>2, BoundAssumption DEF Plan
    <3>2. body'[q] = body[q]
      BY <1>2, <3>1
    <3>3. status'[q] = status[q] \/ status'[q] = "forgotten"
      BY <1>5, <1>6, <3>1
    <3>4. QED
      BY <2>2, <3>1, <3>2, <3>3 DEF WentLive
  <2>4. RulesBrokenOnlyByRepeats'
    BY <1>10, <2>3, RulesStay DEF IInv
  <2>5. QED
    BY <2>1, <2>4
<1>16. BookedChangeOnTop'
  BY <1>9, <1>10, <1>11, <1>13 DEF IInv, BookedChangeOnTop
<1>17. QED
  BY <1>7, <1>8, <1>12, <1>14, <1>15, <1>16 DEF IInv

(* A plan that waits for a decision is not monitored, so deciding about it *)
(* cannot disturb a live change.                                           *)
LEMMA PendingStep ==
  ASSUME IInv, NEW p \in Plan,
         \/ ApproveBlocked(p) \/ ApproveShadow(p) \/ ApproveAdvisory(p)
         \/ Reject(p)
  PROVE  IInv'
<1>1. status[p] = "pending_approval"
  BY DEF ApproveBlocked, ApproveShadow, ApproveAdvisory, Reject
<1>3. /\ UNCHANGED <<mode, issued, body, prev, monitor, active, timing>>
      /\ \E s \in {"blocked_constraint", "shadow_logged", "advisory_issued",
                  "rejected"} : status' = [status EXCEPT ![p] = s]
      /\ age' = age \/ age' = [age EXCEPT ![p] = 0]
      /\ \/ incident' = incident
         \/ incident' = [incident EXCEPT ![body[p].incident] = "monitoring"]
  BY DEF ApproveBlocked, ApproveShadow, ApproveAdvisory, Reject,
         IncidentAfterExecution
<1>4. /\ status' \in [Plan -> Status]
      /\ \A q \in Plan : status'[q] = "absent" <=> status[q] = "absent"
      /\ \A q \in Plan : status[q] \in WentLive => status'[q] = status[q]
  BY <1>1, <1>3 DEF IInv, TypeOK, Status, WentLive
<1>5. age' \in [Plan -> Nat] /\ mode' \in Mode
  <2>1. age \in [Plan -> Nat] /\ mode \in Mode
    BY DEF IInv, TypeOK
  <2>2. mode' \in Mode
    BY <1>3, <2>1
  <2>3. age' \in [Plan -> Nat]
    BY <1>3, <2>1
  <2>4. QED
    BY <2>2, <2>3
<1>6. incident' \in [Incident -> IncidentState]
  BY <1>3 DEF IInv, TypeOK, IncidentState
<1>7. QED
  BY <1>3, <1>4, <1>5, <1>6, StreetsUntouched

LEMMA QuietStep ==
  ASSUME IInv,
         \/ ExpireAdvisories
         \/ Pass
         \/ \E n \in Incident : Detect(n) \/ Acknowledge(n) \/ Resolve(n)
         \/ \E m \in Mode : SetMode(m)
         \/ UNCHANGED vars
  PROVE  IInv'
<1>1. /\ mode \in Mode
      /\ status \in [Plan -> Status]
      /\ age \in [Plan -> Nat]
      /\ incident \in [Incident -> IncidentState]
  BY DEF IInv, TypeOK
<1>2. CASE ExpireAdvisories
  <2>1. /\ status' = [p \in Plan |-> IF p \in Overdue THEN "expired"
                                    ELSE status[p]]
        /\ UNCHANGED <<mode, issued, body, prev, age, monitor, active, timing,
                       incident>>
    BY <1>2 DEF ExpireAdvisories
  <2>2. \A p \in Overdue : status[p] = "advisory_issued"
    BY DEF Overdue, InStatus
  <2>3. \A p \in Plan : status[p] \in WentLive => p \notin Overdue
    BY <2>2 DEF WentLive
  <2>4. QED
    BY <1>1, <2>1, <2>2, <2>3, StreetsUntouched DEF Status
<1>3. CASE Pass
  <2>1. age' \in [Plan -> Nat]
    BY <1>1, <1>3 DEF Pass
  <2>2. QED
    BY <1>1, <1>3, <2>1, StreetsUntouched DEF Pass
<1>4. ASSUME NEW n \in Incident, Detect(n) \/ Acknowledge(n) \/ Resolve(n)
      PROVE  IInv'
  <2>1. incident' \in [Incident -> IncidentState]
    BY <1>1, <1>4 DEF Detect, Acknowledge, Resolve, IncidentState
  <2>2. UNCHANGED <<mode, issued, status, body, prev, age, monitor, active,
                    timing>>
    BY <1>4 DEF Detect, Acknowledge, Resolve
  <2>3. QED
    BY <1>1, <2>1, <2>2, StreetsUntouched
<1>5. ASSUME NEW m \in Mode, SetMode(m)
      PROVE  IInv'
  BY <1>1, <1>5, StreetsUntouched DEF SetMode
<1>6. CASE UNCHANGED vars
  BY <1>1, <1>6, StreetsUntouched DEF vars
<1>7. QED
  BY <1>2, <1>3, <1>4, <1>5, <1>6

LEMMA ApproveLiveStep ==
  ASSUME IInv, NEW p \in Plan, ApproveLive(p)
  PROVE  IInv'
<1> DEFINE c == body[p]
           T == Range(c.targets)
           d == c.gain
           u == [i \in Intersection |-> Unverified(c, i)]
<1>1. /\ status[p] = "pending_approval"
      /\ R6Allows(p, c)
      /\ RulesAllow(c)
  BY DEF ApproveLive, Recheck, Verify
<1>2. p \in 1 .. issued
  BY <1>1, BoundAssumption DEF IInv, TypeOK, Numbered, Plan
<1>3. /\ T \in SUBSET Intersection
      /\ c.targets \in Seq(Intersection)
      /\ d \in [Intersection -> Nat]
      /\ u \in [Intersection -> Nat]
      /\ body[p].incident \in Incident
      /\ Targets(p) = T
      /\ p \in DOMAIN body
  <2>1. /\ p \in DOMAIN body
        /\ c.targets \in Seq(Intersection)
        /\ d \in [Intersection -> Nat]
        /\ body[p].incident \in Incident
    BY <1>2 DEF IInv, TypeOK, Body
  <2>2. T \in SUBSET Intersection
    BY <2>1, ListedTargets
  <2>3. Targets(p) = T
    BY <2>1 DEF Targets
  <2>4. u \in [Intersection -> Nat]
    <3> HIDE DEF c
    <3>1. QED
      BY <2>1, UnverifiedNat
  <2>5. QED
    BY <2>1, <2>2, <2>3, <2>4
<1>4. /\ prev' = [prev EXCEPT ![p] = [i \in Intersection |->
                    IF i \in T THEN timing[i] + u[i] ELSE 0]]
      /\ timing' = [i \in Intersection |->
                      IF i \in T THEN timing[i] + u[i] + d[i] ELSE timing[i]]
      /\ active' = [i \in Intersection |-> IF i \in T THEN p ELSE active[i]]
      /\ status' = [status EXCEPT ![p] = "executed"]
      /\ age' = [age EXCEPT ![p] = 0]
      /\ monitor' = [monitor EXCEPT ![p] = "watching"]
      /\ incident' = [incident EXCEPT ![body[p].incident] = "monitoring"]
      /\ UNCHANGED <<mode, issued, body>>
  BY <1>3 DEF ApproveLive, Extended, Captured, Booked, IncidentAfterExecution
<1>41. \A i \in T : timing[i] + d[i] <= Headroom
  BY <1>1 DEF RulesAllow
<1>42. \A i \in Intersection : u[i] = Unverified(body[p], i)
  OBVIOUS
<1> HIDE DEF u, d
<1>5. TypeOK'
  BY <1>3, <1>4 DEF IInv, TypeOK, Status, IncidentState
<1>6. Numbered'
  BY <1>1, <1>4 DEF IInv, TypeOK, Numbered
<1>7. /\ Monitored' = Monitored \union {p}
      /\ Registered' = Registered \union T
      /\ \A q \in Plan : Targets(q)' = Targets(q)
  <2>1. Monitored' = Monitored \union {p}
    BY <1>4 DEF IInv, TypeOK, Monitored
  <2>2. p # NoPlan
    BY DEF Plan, NoPlan
  <2>3. Registered' = Registered \union T
    BY <1>3, <1>4, <2>2 DEF Registered
  <2>4. \A q \in Plan : Targets(q)' = Targets(q)
    BY <1>4 DEF Targets
  <2>5. QED
    BY <2>1, <2>3, <2>4
<1>8. WatchedIsExecuted'
  BY <1>4, <1>7 DEF IInv, TypeOK, WatchedIsExecuted, Monitored
(* A signal the plan does not name is booked to some other plan. *)
<1>9. \A i \in Registered \ T : /\ active'[i] = active[i]
                               /\ active[i] \in Monitored
                               /\ active[i] # p
  <2>1. p \notin Monitored
    BY <1>1 DEF IInv, WatchedIsExecuted
  <2>2. QED
    BY <1>4, <2>1 DEF IInv, RegistrationOwned, Registered
<1>10. RegistrationOwned'
  <2> SUFFICES ASSUME NEW i \in Intersection, active'[i] # NoPlan
               PROVE  /\ status'[active'[i]] = "executed"
                      /\ monitor'[active'[i]] # "off"
                      /\ active'[i] \in Plan
                      /\ i \in Targets(active'[i])
    BY <1>4 DEF RegistrationOwned, Registered, Monitored, Targets
  <2>1. /\ status \in [Plan -> Status]
        /\ monitor \in [Plan -> {"off", "watching", "alerted"}]
    BY DEF IInv, TypeOK
  <2>2. CASE i \in T
    <3>1. active'[i] = p
      BY <1>4, <2>2
    <3>2. status'[p] = "executed" /\ monitor'[p] # "off"
      BY <1>4, <2>1
    <3>3. QED
      BY <1>3, <2>2, <3>1, <3>2
  <2>3. CASE i \notin T
    <3>1. active'[i] = active[i]
      BY <1>4, <2>3
    <3>2. i \in Registered
      BY <3>1 DEF Registered
    <3>3. /\ status[active[i]] = "executed"
          /\ monitor[active[i]] # "off"
          /\ active[i] \in Plan
          /\ i \in Targets(active[i])
      BY <3>2 DEF IInv, RegistrationOwned, Monitored
    <3>4. active[i] # p
      BY <1>9, <2>3, <3>2
    <3>5. /\ status'[active[i]] = "executed"
          /\ monitor'[active[i]] # "off"
      BY <1>4, <2>1, <3>3, <3>4
    <3>6. QED
      BY <3>1, <3>3, <3>5
  <2>4. QED
    BY <2>2, <2>3
<1>11. R6Budget'
  <2>1. /\ Cardinality(Registered \union T)
              <= Cardinality(Registered) + Cardinality(NewPlaces(c))
        /\ Cardinality(NewPlaces(c)) \in Nat
        /\ Cardinality(Registered \union T) \in Nat
    BY <1>3, BookingCost DEF IInv
  <2>2. Cardinality(Registered) + Cardinality(NewPlaces(c)) <= MaxConcurrent
    BY <1>1 DEF R6Allows
  <2>4. Cardinality(Registered) \in Nat
    BY RegisteredFinite DEF IInv
  <2>5. Cardinality(Registered \union T) <= MaxConcurrent
    BY <2>1, <2>2, <2>4, R6Assumption
  <2>6. QED
    BY <1>7, <2>5 DEF R6Budget
<1>12. RulesBrokenOnlyByRepeats'
  <2>1. ASSUME NEW i \in Intersection, NEW v, Explained(i, v)
        PROVE  \/ v <= Headroom
               \/ \E q \in DOMAIN body' : /\ status'[q] \in WentLive
                                          /\ v <= Headroom + Unverified(body'[q], i)
    <3>1. \A q \in DOMAIN body : status[q] \in WentLive => status'[q] \in WentLive
      <4>1. \A q \in DOMAIN body : q \in Plan
        BY BoundAssumption DEF IInv, TypeOK, Plan
      <4>2. QED
        BY <1>4, <4>1 DEF IInv, TypeOK, WentLive
    <3>2. QED
      BY <1>4, <2>1, <3>1 DEF Explained
  <2>2. /\ p \in DOMAIN body' /\ status'[p] \in WentLive
        /\ \A i \in Intersection : u[i] = Unverified(body'[p], i)
    BY <1>3, <1>4, <1>42 DEF IInv, TypeOK, WentLive
  <2>3. /\ timing \in [Intersection -> Nat]
        /\ prev \in [Plan -> [Intersection -> Nat]]
        /\ Headroom \in Nat
    BY PlannerAssumption DEF IInv, TypeOK
  <2>4. ASSUME NEW i \in Intersection
        PROVE  Explained(i, timing[i])'
    <3>1. CASE i \in T
      <4>1. timing'[i] = timing[i] + u[i] + d[i] /\ timing[i] + d[i] <= Headroom
        BY <1>4, <1>41, <3>1
      <4>2. /\ timing[i] \in Nat /\ u[i] \in Nat /\ d[i] \in Nat
        BY <1>3, <2>3
      <4>3. timing'[i] <= Headroom + u[i]
        BY <2>3, <4>1, <4>2
      <4>4. timing'[i] <= Headroom + Unverified(body'[p], i)
        BY <2>2, <4>3
      <4>5. QED
        BY <2>2, <4>4 DEF Explained
    <3>2. CASE i \notin T
      <4>1. timing'[i] = timing[i] /\ Explained(i, timing[i])
        BY <1>4, <3>2 DEF IInv, RulesBrokenOnlyByRepeats
      <4>2. QED
        BY <2>1, <4>1 DEF Explained
    <3>3. QED
      BY <3>1, <3>2
  <2>5. ASSUME NEW q \in Plan, NEW i \in Intersection
        PROVE  Explained(i, prev[q][i])'
    <3>1. CASE q = p /\ i \in T
      <4>1. prev'[q][i] = timing[i] + u[i]
        BY <1>4, <2>3, <3>1
      <4>2. /\ timing[i] \in Nat /\ u[i] \in Nat /\ d[i] \in Nat
            /\ timing[i] + d[i] <= Headroom
        BY <1>3, <1>41, <2>3, <3>1
      <4>3. prev'[q][i] <= Headroom + u[i]
        BY <2>3, <4>1, <4>2
      <4>4. prev'[q][i] <= Headroom + Unverified(body'[p], i)
        BY <2>2, <4>3
      <4>5. QED
        BY <2>2, <4>4 DEF Explained
    <3>2. CASE q = p /\ i \notin T
      <4>1. prev'[q][i] <= Headroom
        BY <1>4, <2>3, <3>2
      <4>2. QED
        BY <4>1 DEF Explained
    <3>3. CASE q # p
      <4>1. prev'[q][i] = prev[q][i] /\ Explained(i, prev[q][i])
        BY <1>4, <2>3, <3>3 DEF IInv, RulesBrokenOnlyByRepeats
      <4>2. QED
        BY <2>1, <4>1 DEF Explained
    <3>4. QED
      BY <3>1, <3>2, <3>3
  <2>6. QED
    BY <2>4, <2>5 DEF RulesBrokenOnlyByRepeats
<1>13. BookedChangeOnTop'
  <2> SUFFICES ASSUME NEW i \in Registered'
               PROVE  timing'[i] = prev'[active'[i]][i]
                                     + body'[active'[i]].gain[i]
    BY DEF BookedChangeOnTop
  <2>1. i \in Intersection
    BY DEF Registered
  <2>2. CASE i \in T
    <3>1. /\ active'[i] = p /\ body' = body /\ prev'[p][i] = timing[i] + u[i]
          /\ timing'[i] = timing[i] + u[i] + d[i]
      BY <1>4, <2>1, <2>2 DEF IInv, TypeOK
    <3>2. QED
      BY <3>1 DEF d
  <2>3. CASE i \notin T
    <3>1. i \in Registered \ T
      BY <1>7, <2>3
    <3>2. timing[i] = prev[active[i]][i] + body[active[i]].gain[i]
      BY <3>1 DEF IInv, BookedChangeOnTop
    <3>3. QED
      BY <1>4, <1>9, <2>1, <2>3, <3>1, <3>2 DEF IInv, TypeOK, Monitored
  <2>4. QED
    BY <2>2, <2>3
<1>14. QED
  BY <1>5, <1>6, <1>8, <1>10, <1>11, <1>12, <1>13 DEF IInv

(* A step that only removes bookings, and removes with every plan it stops *)
(* watching the bookings of that plan's signals.                           *)
LEMMA ReleaseStep ==
  ASSUME IInv, NEW S \in SUBSET Plan, NEW D \in SUBSET Intersection,
         UNCHANGED <<mode, issued, body, prev, age, incident>>,
         status' \in [Plan -> Status],
         \A p \in Plan : status'[p] = "absent" <=> status[p] = "absent",
         \A p \in Plan \ S : status'[p] = status[p],
         monitor' \in [Plan -> {"off", "watching", "alerted"}],
         \A p \in S : monitor'[p] = "off",
         \A p \in Plan \ S : monitor'[p] = "off" <=> monitor[p] = "off",
         \A p \in S : Targets(p) \subseteq D,
         active' = [i \in Intersection |-> IF i \in D THEN NoPlan ELSE active[i]],
         timing' \in [Intersection -> Nat],
         \A p \in Plan : status[p] \in WentLive => status'[p] \in WentLive,
         \A i \in Intersection : \/ timing'[i] = timing[i]
                                 \/ \E q \in Plan : timing'[i] = prev[q][i],
         \A i \in Intersection \ D : timing'[i] = timing[i]
  PROVE  IInv'
<1>1. TypeOK'
  BY DEF IInv, TypeOK
<1>2. Numbered'
  BY DEF IInv, Numbered
<1>3. WatchedIsExecuted'
  BY DEF IInv, WatchedIsExecuted, Monitored
(* What stays booked is booked as before, to a plan still watched. *)
<1>4. \A i \in Intersection : active'[i] # NoPlan =>
        /\ i \in Registered
        /\ i \notin D
        /\ active'[i] = active[i]
        /\ active[i] \in Plan \ S
  <2> SUFFICES ASSUME NEW i \in Intersection, active'[i] # NoPlan
               PROVE  /\ i \in Registered
                      /\ i \notin D
                      /\ active'[i] = active[i]
                      /\ active[i] \in Plan \ S
    OBVIOUS
  <2>1. i \notin D /\ active'[i] = active[i]
    OBVIOUS
  <2>2. i \in Registered
    BY <2>1 DEF Registered
  <2>3. active[i] \in Plan /\ i \in Targets(active[i])
    BY <2>2 DEF IInv, RegistrationOwned, Monitored
  <2>4. QED
    BY <2>1, <2>2, <2>3
<1>5. RegistrationOwned'
  <2> SUFFICES ASSUME NEW i \in Intersection, active'[i] # NoPlan
               PROVE  /\ status'[active'[i]] = "executed"
                      /\ monitor'[active'[i]] # "off"
                      /\ active'[i] \in Plan
                      /\ i \in Targets(active'[i])
    BY DEF RegistrationOwned, Registered, Monitored, Targets
  <2>1. /\ status[active[i]] = "executed"
        /\ monitor[active[i]] # "off"
        /\ i \in Targets(active[i])
    BY <1>4 DEF IInv, RegistrationOwned, Monitored
  <2>2. QED
    BY <1>4, <2>1
<1>6. R6Budget'
  <2>1. Registered' \subseteq Registered
    BY <1>4 DEF Registered
  <2>2. QED
    BY <2>1, FewerBookings DEF IInv
<1>7. RulesBrokenOnlyByRepeats'
  <2>1. \A p \in DOMAIN body : p \in Plan
    BY BoundAssumption DEF IInv, TypeOK, Plan
  <2>2. QED
    BY <2>1, RulesStay DEF IInv
<1>8. BookedChangeOnTop'
  <2> SUFFICES ASSUME NEW i \in Intersection, active'[i] # NoPlan
               PROVE  timing'[i] = prev'[active'[i]][i]
                                     + body'[active'[i]].gain[i]
    BY DEF BookedChangeOnTop, Registered
  <2>1. timing[i] = prev[active[i]][i] + body[active[i]].gain[i]
    BY <1>4 DEF IInv, BookedChangeOnTop
  <2>2. QED
    BY <1>4, <2>1
<1>9. QED
  BY <1>1, <1>2, <1>3, <1>5, <1>6, <1>7, <1>8 DEF IInv

LEMMA RollbackStep ==
  ASSUME IInv, NEW p \in Plan, Rollback(p)
  PROVE  IInv'
<1> DEFINE T == Range(body[p].targets)
<1>1. status[p] = "executed"
  BY DEF Rollback
<1>2. p \in 1 .. issued
  BY <1>1, BoundAssumption DEF IInv, TypeOK, Numbered, Plan
<1>3. T \in SUBSET Intersection /\ Targets(p) = T
  BY <1>2, ListedTargets DEF IInv, TypeOK, Body, Targets
<1>4. /\ status \in [Plan -> Status]
      /\ monitor \in [Plan -> {"off", "watching", "alerted"}]
      /\ timing \in [Intersection -> Nat]
      /\ prev \in [Plan -> [Intersection -> Nat]]
  BY DEF IInv, TypeOK
<1>5. /\ timing' = [i \in Intersection |-> IF i \in T THEN prev[p][i]
                                          ELSE timing[i]]
      /\ active' = [i \in Intersection |-> IF i \in T THEN NoPlan ELSE active[i]]
      /\ status' = [status EXCEPT ![p] = "reverted"]
      /\ monitor' = [monitor EXCEPT ![p] = "off"]
      /\ UNCHANGED <<mode, issued, body, prev, age, incident>>
  BY <1>3 DEF Rollback, Restored, Cleared
<1>6. /\ status' \in [Plan -> Status]
      /\ \A q \in Plan : status'[q] = "absent" <=> status[q] = "absent"
      /\ \A q \in Plan \ {p} : status'[q] = status[q]
      /\ \A q \in Plan : status[q] \in WentLive => status'[q] \in WentLive
  BY <1>1, <1>4, <1>5 DEF Status, WentLive
<1>7. /\ monitor' \in [Plan -> {"off", "watching", "alerted"}]
      /\ \A q \in {p} : monitor'[q] = "off"
      /\ \A q \in Plan \ {p} : monitor'[q] = "off" <=> monitor[q] = "off"
  BY <1>4, <1>5
<1>8. /\ timing' \in [Intersection -> Nat]
      /\ \A i \in Intersection : \/ timing'[i] = timing[i]
                                 \/ \E q \in Plan : timing'[i] = prev[q][i]
      /\ \A i \in Intersection \ T : timing'[i] = timing[i]
  BY <1>4, <1>5
<1>9. {p} \in SUBSET Plan /\ \A q \in {p} : Targets(q) \subseteq T
  BY <1>3
<1> DEFINE S == {p}
<1>10. /\ S \in SUBSET Plan
       /\ \A q \in Plan \ S : status'[q] = status[q]
       /\ \A q \in S : monitor'[q] = "off"
       /\ \A q \in Plan \ S : monitor'[q] = "off" <=> monitor[q] = "off"
       /\ \A q \in S : Targets(q) \subseteq T
  BY <1>6, <1>7, <1>9
<1> HIDE DEF S, T
<1>11. QED
  BY <1>3, <1>5, <1>6, <1>7, <1>8, <1>10, ReleaseStep

LEMMA CheckMonitorsStep ==
  ASSUME IInv, CheckMonitors
  PROVE  IInv'
<1> DEFINE D == UNION {Targets(p) : p \in Settling}
<1>1. PICK worse \in SUBSET Watching :
        monitor' = [p \in Plan |-> IF p \in Settling THEN "off"
                                   ELSE IF p \in worse THEN "alerted"
                                   ELSE monitor[p]]
  BY DEF CheckMonitors
<1>2. \A p \in Watching : monitor[p] = "watching"
  BY DEF Watching
<1>3. /\ status \in [Plan -> Status]
      /\ monitor \in [Plan -> {"off", "watching", "alerted"}]
      /\ timing \in [Intersection -> Nat]
      /\ body \in [1 .. issued -> Body]
  BY DEF IInv, TypeOK
<1>4. /\ monitor' \in [Plan -> {"off", "watching", "alerted"}]
      /\ \A p \in Settling : monitor'[p] = "off"
      /\ \A p \in Plan \ Settling : monitor'[p] = "off" <=> monitor[p] = "off"
  BY <1>1, <1>2, <1>3 DEF Settling, Monitored
<1>5. Settling \in SUBSET Plan
  BY DEF Settling, Monitored
<1>6. \A p \in Plan : Targets(p) \in SUBSET Intersection
  <2>1. ASSUME NEW p \in DOMAIN body
        PROVE  Range(body[p].targets) \in SUBSET Intersection
    BY <1>3, ListedTargets DEF Body
  <2>2. QED
    BY <2>1 DEF Targets
<1>7. D \in SUBSET Intersection /\ \A p \in Settling : Targets(p) \subseteq D
  BY <1>5, <1>6
<1>8. /\ active' = [i \in Intersection |-> IF i \in D THEN NoPlan ELSE active[i]]
      /\ UNCHANGED <<mode, issued, status, body, prev, age, timing, incident>>
  BY DEF CheckMonitors, Cleared
<1>9. QED
  <2> HIDE DEF D
  <2>1. QED
    BY <1>3, <1>4, <1>5, <1>7, <1>8, ReleaseStep

LEMMA RestartStep ==
  ASSUME IInv, Restart
  PROVE  IInv'
<1>1. TypeOK'
  BY DEF IInv, TypeOK, Restart, Status, IncidentState, NoPlan
<1>2. Numbered'
  BY DEF IInv, Numbered, Restart
<1>3. Monitored' = {} /\ Registered' = {}
  BY DEF Monitored, Registered, Restart
<1>4. WatchedIsExecuted' /\ RegistrationOwned' /\ BookedChangeOnTop'
  BY <1>3 DEF WatchedIsExecuted, RegistrationOwned, BookedChangeOnTop
<1>5. R6Budget'
  BY <1>3, FS_EmptySet, R6Assumption DEF R6Budget
<1>6. RulesBrokenOnlyByRepeats'
  BY PlannerAssumption DEF RulesBrokenOnlyByRepeats, Explained, Restart
<1>7. QED
  BY <1>1, <1>2, <1>4, <1>5, <1>6 DEF IInv

LEMMA NextIInv == IInv /\ [Next]_vars => IInv'
<1> SUFFICES ASSUME IInv, [Next]_vars PROVE IInv'
  OBVIOUS
<1>1. ASSUME NEW n \in Incident, NEW c \in Proposals, Recommend(n, c)
      PROVE  IInv'
  BY <1>1, RecommendStep
<1>2. ASSUME NEW p \in Plan, Approve(p) \/ Reject(p) \/ Rollback(p)
      PROVE  IInv'
  BY <1>2, PendingStep, ApproveLiveStep, RollbackStep DEF Approve
<1>3. CASE CheckMonitors
  BY <1>3, CheckMonitorsStep
<1>4. CASE Restart
  BY <1>4, RestartStep
<1>5. CASE \/ ExpireAdvisories
           \/ Pass
           \/ \E n \in Incident : Detect(n) \/ Acknowledge(n) \/ Resolve(n)
           \/ \E m \in Mode : SetMode(m)
           \/ UNCHANGED vars
  BY <1>5, QuietStep
<1>6. QED
  BY <1>1, <1>2, <1>3, <1>4, <1>5 DEF Next

(* The strengthening holds in every reachable state. *)
THEOREM Inductive == Spec => []IInv
<1>1. QED
  BY InitIInv, NextIInv, PTL DEF Spec

(* Every variable keeps its type. *)
THEOREM TypeCorrect == Spec => []TypeOK
<1>1. IInv => TypeOK
  BY DEF IInv
<1>2. QED
  BY <1>1, Inductive, PTL

(* No ghost registrations: whatever R6 counts is an executed, monitored    *)
(* change that names the signal (safety.py:105).                           *)
THEOREM RegistrationsAreOwned == Spec => []RegistrationOwned
<1>1. IInv => RegistrationOwned
  BY DEF IInv
<1>2. QED
  BY <1>1, Inductive, PTL

(* R6 holds for every limit, any number of signals and any lists of        *)
(* targets.                                                                *)
THEOREM BudgetNeverExceeded == Spec => []R6Budget
<1>1. IInv => R6Budget
  BY DEF IInv
<1>2. QED
  BY <1>1, Inductive, PTL

(* However plans that repeat a signal are approved and rolled back, no     *)
(* timing in force or on record is beyond the rules by more than one plan  *)
(* repeated (engine.py:887-902 against safety.py:149-176).                 *)
THEOREM BreachesNeverAddUp == Spec => []RulesBrokenOnlyByRepeats
<1>1. IInv => RulesBrokenOnlyByRepeats
  BY DEF IInv
<1>2. QED
  BY <1>1, Inductive, PTL

(* Every plan carries what the planner proposed.                           *)
Proposed == \A p \in DOMAIN body : \E c \in Proposals : body[p].targets = c.targets

LEMMA ProposedStep ==
  ASSUME IInv, Proposed, [Next]_vars
  PROVE  Proposed'
<1>1. ASSUME NEW n \in Incident, NEW c \in Proposals, Recommend(n, c)
      PROVE  Proposed'
  <2>1. body' = [q \in 1 .. issued + 1 |->
                   IF q = issued + 1
                   THEN [incident |-> n, targets |-> c.targets, gain |-> c.gain]
                   ELSE body[q]]
    BY <1>1 DEF Recommend
  <2>2. DOMAIN body = 1 .. issued /\ issued \in Nat
    BY BoundAssumption DEF IInv, TypeOK
  <2>3. ASSUME NEW q \in 1 .. issued + 1
        PROVE  \E e \in Proposals : body'[q].targets = e.targets
    <3>1. CASE q = issued + 1
      BY <2>1, <3>1
    <3>2. CASE q # issued + 1
      BY <2>1, <2>2, <3>2 DEF Proposed
    <3>3. QED
      BY <3>1, <3>2
  <2>4. QED
    BY <2>1, <2>3 DEF Proposed
<1>2. CASE UNCHANGED body
  BY <1>2 DEF Proposed
<1>3. QED
  BY <1>1, <1>2
     DEF Next, Approve, ApproveBlocked, ApproveShadow, ApproveAdvisory, ApproveLive,
         Reject, Rollback, ExpireAdvisories, CheckMonitors, Pass, Detect, Acknowledge,
         Resolve, SetMode, Restart, vars

(* With a planner that names no signal twice in one plan, as the           *)
(* deterministic one (copilot.py:124-206), the timing rules hold of every  *)
(* timing in force and of every timing a rollback can restore.             *)
THEOREM RulesAlwaysHold ==
  ASSUME \A c \in Proposals : ListedOnce(c)
  PROVE  Spec => []TimingWithinRules
<1>1. Init => Proposed
  BY DEF Init, Proposed
<1>2. IInv /\ Proposed /\ [Next]_vars => Proposed'
  BY ProposedStep
<1>3. IInv /\ Proposed => TimingWithinRules
  <2> SUFFICES ASSUME IInv, Proposed PROVE TimingWithinRules
    OBVIOUS
  <2>1. ASSUME NEW p \in DOMAIN body, NEW i \in Intersection
        PROVE  Unverified(body[p], i) = 0
    <3>1. PICK c \in Proposals : body[p].targets = c.targets
      BY DEF Proposed
    <3>2. ListedOnce(body[p])
      BY <3>1 DEF ListedOnce, Mentions
    <3>3. body[p].targets \in Seq(Intersection) /\ body[p].gain \in [Intersection -> Nat]
      BY DEF IInv, TypeOK, Body
    <3>4. QED
      BY <3>2, <3>3, UnverifiedNat
  <2>2. ASSUME NEW i \in Intersection, NEW v, Explained(i, v)
        PROVE  v <= Headroom
    BY <2>1, <2>2, PlannerAssumption DEF Explained
  <2>3. QED
    BY <2>2 DEF IInv, RulesBrokenOnlyByRepeats, TimingWithinRules
<1>4. QED
  BY <1>1, <1>2, <1>3, Inductive, PTL DEF Spec

(* While a change is booked, nothing but one application of its operations *)
(* lies between its record and the street (engine.py:887-902).             *)
THEOREM BookedIsTopmost == Spec => []BookedChangeOnTop
<1>1. IInv => BookedChangeOnTop
  BY DEF IInv
<1>2. QED
  BY <1>1, Inductive, PTL

-----------------------------------------------------------------------------
(* The watched plans, their signals and their bookings are as they were.   *)
LEMMA BookingsUntouched ==
  ASSUME AllBooked,
         Monitored' = Monitored,
         \A q \in Monitored : Targets(q)' = Targets(q),
         UNCHANGED active
  PROVE  AllBooked'
BY DEF AllBooked

LEMMA RecommendKeepsTargets ==
  ASSUME IInv, NEW n \in Incident, NEW c \in Proposals, Recommend(n, c),
         NEW q \in Monitored
  PROVE  Targets(q)' = Targets(q)
<1>1. q \in Plan /\ status[q] = "executed"
  BY DEF IInv, WatchedIsExecuted, Monitored
<1>2. q \in 1 .. issued /\ issued \in Nat
  BY <1>1, BoundAssumption DEF IInv, TypeOK, Numbered, Plan
<1>3. q \in 1 .. issued + 1 /\ q # issued + 1
  BY <1>2
<1>4. body' = [r \in 1 .. issued + 1 |->
                 IF r = issued + 1
                 THEN [incident |-> n, targets |-> c.targets, gain |-> c.gain]
                 ELSE body[r]]
  BY DEF Recommend
<1>5. q \in DOMAIN body' /\ body'[q] = body[q]
  BY <1>3, <1>4
<1>6. q \in DOMAIN body
  BY <1>2 DEF IInv, TypeOK
<1>7. QED
  BY <1>5, <1>6 DEF Targets

(* R6b keeps a new change off the signals of the watched ones.             *)
LEMMA ApproveLiveBookings ==
  ASSUME IInv, AllBooked, NEW p \in Plan, ApproveLive(p)
  PROVE  AllBooked'
<1> DEFINE T == Range(body[p].targets)
<1>1. /\ status[p] = "pending_approval"
      /\ \A i \in T : active[i] \in {NoPlan, p}
  BY DEF ApproveLive, Recheck, Verify, R6Allows
<1>2. p \in 1 .. issued
  BY <1>1, BoundAssumption DEF IInv, TypeOK, Numbered, Plan
<1>3. T \in SUBSET Intersection /\ Targets(p) = T
  BY <1>2, ListedTargets DEF IInv, TypeOK, Body, Targets
<1>4. /\ active' = [i \in Intersection |-> IF i \in T THEN p ELSE active[i]]
      /\ monitor' = [monitor EXCEPT ![p] = "watching"]
      /\ UNCHANGED body
  BY <1>3 DEF ApproveLive, Booked
<1>5. Monitored' = Monitored \union {p}
  BY <1>4 DEF IInv, TypeOK, Monitored
<1>6. \A q \in Plan : Targets(q)' = Targets(q)
  BY <1>4 DEF Targets
<1>7. \A q \in Plan : Targets(q) \in SUBSET Intersection
  BY ListedTargets DEF IInv, TypeOK, Body, Targets
<1>8. ASSUME NEW q \in Monitored, NEW i \in Targets(q)
      PROVE  active'[i] = q
  <2>1. active[i] = q /\ q \in Plan /\ status[q] = "executed"
    BY DEF AllBooked, IInv, WatchedIsExecuted, Monitored
  <2>2. q # p /\ q # NoPlan
    BY <1>1, <2>1 DEF Plan, NoPlan
  <2>3. i \notin T
    BY <1>1, <2>1, <2>2
  <2>4. i \in Intersection
    BY <1>7, <2>1
  <2>5. QED
    BY <1>4, <2>1, <2>3, <2>4
<1>9. \A i \in Targets(p) : active'[i] = p
  BY <1>3, <1>4
<1>10. QED
  BY <1>5, <1>6, <1>8, <1>9 DEF AllBooked, Monitored

(* Clearing the signals of watched plans, and no others, keeps the rest.   *)
LEMMA ReleaseKeepsBookings ==
  ASSUME IInv, AllBooked, NEW S \in SUBSET Monitored,
         active' = Cleared(UNION {Targets(p) : p \in S}),
         Monitored' \subseteq Monitored \ S,
         \A q \in Plan : Targets(q)' = Targets(q)
  PROVE  AllBooked'
<1> SUFFICES ASSUME NEW q \in Monitored', NEW i \in Targets(q)
             PROVE  active'[i] = q
  BY DEF AllBooked, Monitored
<1>1. q \in Monitored \ S /\ q \in Plan
  BY DEF Monitored
<1>2. active[i] = q
  BY <1>1 DEF AllBooked
<1>3. \A p \in S : i \notin Targets(p)
  BY <1>1, <1>2 DEF AllBooked
<1>4. i \in Intersection
  <2>1. q \in DOMAIN body
    BY DEF Targets
  <2>2. QED
    BY <1>1, <2>1, ListedTargets DEF IInv, TypeOK, Body, Targets
<1>5. QED
  BY <1>2, <1>3, <1>4 DEF Cleared

LEMMA RollbackBookings ==
  ASSUME IInv, AllBooked, ~ RollbackOfSettled, NEW p \in Plan, Rollback(p)
  PROVE  AllBooked'
<1>1. /\ status[p] = "executed"
      /\ status' = [status EXCEPT ![p] = "reverted"]
      /\ monitor' = [monitor EXCEPT ![p] = "off"]
      /\ active' = Cleared(Targets(p))
      /\ UNCHANGED body
  BY DEF Rollback
<1>2. status'[p] = "reverted"
  BY <1>1 DEF IInv, TypeOK
<1>3. p \in Monitored
  BY <1>1, <1>2 DEF RollbackOfSettled
<1>6. UNION {Targets(r) : r \in {p}} = Targets(p)
  OBVIOUS
<1>7. Monitored' \subseteq Monitored \ {p}
  BY <1>1 DEF IInv, TypeOK, Monitored
<1>8. \A q \in Plan : Targets(q)' = Targets(q)
  BY <1>1 DEF Targets
<1>9. {p} \in SUBSET Monitored
  BY <1>3
<1>10. active' = Cleared(UNION {Targets(r) : r \in {p}})
  BY <1>1, <1>6
<1>11. QED
  BY <1>7, <1>8, <1>9, <1>10, ReleaseKeepsBookings

LEMMA SettleBookings ==
  ASSUME IInv, AllBooked, CheckMonitors
  PROVE  AllBooked'
<1>1. PICK worse \in SUBSET Watching :
        monitor' = [p \in Plan |-> IF p \in Settling THEN "off"
                                   ELSE IF p \in worse THEN "alerted"
                                   ELSE monitor[p]]
  BY DEF CheckMonitors
<1>2. \A p \in Watching : p \in Monitored
  BY DEF Watching, Monitored
<1>3. Monitored' \subseteq Monitored \ Settling
  BY <1>1, <1>2 DEF Monitored
<1>4. Settling \in SUBSET Monitored
  BY DEF Settling
<1>5. \A q \in Plan : Targets(q)' = Targets(q)
  BY DEF CheckMonitors, Targets
<1>6. active' = Cleared(UNION {Targets(p) : p \in Settling})
  BY DEF CheckMonitors
<1>7. QED
  BY <1>3, <1>4, <1>5, <1>6, ReleaseKeepsBookings

LEMMA BookingsStep ==
  ASSUME IInv, [Next]_vars, AllBooked, ~ RollbackOfSettled
  PROVE  AllBooked'
<1>1. ASSUME NEW n \in Incident, NEW c \in Proposals, Recommend(n, c)
      PROVE  AllBooked'
  <2>1. UNCHANGED <<monitor, active>>
    BY <1>1 DEF Recommend
  <2>2. Monitored' = Monitored
    BY <2>1 DEF Monitored
  <2>3. QED
    BY <1>1, <2>1, <2>2, RecommendKeepsTargets, BookingsUntouched
<1>2. ASSUME NEW p \in Plan, ApproveLive(p)
      PROVE  AllBooked'
  BY <1>2, ApproveLiveBookings
<1>3. ASSUME NEW p \in Plan, Rollback(p)
      PROVE  AllBooked'
  BY <1>3, RollbackBookings
<1>4. CASE CheckMonitors
  BY <1>4, SettleBookings
<1>5. CASE Restart
  BY <1>5 DEF Restart, AllBooked, Monitored
<1>6. ASSUME UNCHANGED <<body, monitor, active>>
      PROVE  AllBooked'
  BY <1>6, BookingsUntouched DEF Monitored, Targets
<1>7. CASE \/ \E p \in Plan : \/ ApproveBlocked(p) \/ ApproveShadow(p)
                             \/ ApproveAdvisory(p) \/ Reject(p)
           \/ ExpireAdvisories \/ Pass
           \/ \E n \in Incident : Detect(n) \/ Acknowledge(n) \/ Resolve(n)
           \/ \E m \in Mode : SetMode(m)
           \/ UNCHANGED vars
  BY <1>6, <1>7 DEF ApproveBlocked, ApproveShadow, ApproveAdvisory, Reject,
       ExpireAdvisories, Pass, Detect, Acknowledge, Resolve, SetMode, vars
<1>8. QED
  BY <1>1, <1>2, <1>3, <1>4, <1>5, <1>7 DEF Next, Approve

(* Bookings survive everything but the rollback of a settled plan, with    *)
(* any number of overlapping plans: what safety.py:105 says of the table   *)
(* of active changes is true until an operator takes back an old change    *)
(* (engine.py:1017-1028).                                                  *)
THEOREM BookingsKept == Spec => BookingsLostOnlyBySettledRollback
<1>1. IInv /\ [Next]_vars
        => [AllBooked /\ ~ RollbackOfSettled => AllBooked']_vars
  BY BookingsStep
<1>2. QED
  BY <1>1, Inductive, PTL DEF Spec, BookingsLostOnlyBySettledRollback

-----------------------------------------------------------------------------
LEMMA AlertStep ==
  ASSUME IInv, [Next]_vars, NEW p \in Plan,
         monitor[p] = "alerted", monitor'[p] # "alerted"
  PROVE  age[p] > AlertedSettle \/ status'[p] \in {"reverted", "forgotten"}
<1>1. p \in Monitored /\ status[p] = "executed"
  BY DEF IInv, WatchedIsExecuted, Monitored
<1>2. /\ status \in [Plan -> Status]
      /\ monitor \in [Plan -> {"off", "watching", "alerted"}]
  BY DEF IInv, TypeOK
<1>3. ASSUME NEW q \in Plan, ApproveLive(q)
      PROVE  FALSE
  BY <1>1, <1>2, <1>3 DEF ApproveLive
<1>4. ASSUME NEW q \in Plan, Rollback(q)
      PROVE  status'[p] = "reverted"
  BY <1>2, <1>4 DEF Rollback
<1>5. CASE CheckMonitors
  <2>1. PICK worse \in SUBSET Watching :
          monitor' = [q \in Plan |-> IF q \in Settling THEN "off"
                                     ELSE IF q \in worse THEN "alerted"
                                     ELSE monitor[q]]
    BY <1>5 DEF CheckMonitors
  <2>2. p \in Settling
    BY <2>1
  <2>3. QED
    BY <2>2 DEF Settling
<1>6. CASE Restart
  BY <1>1, <1>6 DEF Restart
<1>7. monitor' # monitor
  OBVIOUS
<1>8. QED
  BY <1>3, <1>4, <1>5, <1>6, <1>7
     DEF Next, Approve, Recommend, ApproveBlocked, ApproveShadow,
         ApproveAdvisory, Reject, ExpireAdvisories, Pass, Detect, Acknowledge,
         Resolve, SetMode, vars

(* An alert ends with the operator, the hard cap or the process.           *)
THEOREM AlertsAreHeld == Spec => AlertHeldForOperator
<1> DEFINE Held == \A p \in Plan :
              monitor[p] = "alerted" /\ monitor'[p] # "alerted" =>
                \/ age[p] > AlertedSettle
                \/ status'[p] \in {"reverted", "forgotten"}
<1>1. IInv /\ [Next]_vars => [Held]_vars
  BY AlertStep
<1>2. QED
  BY <1>1, Inductive, PTL DEF Spec, AlertHeldForOperator

-----------------------------------------------------------------------------
(* Detections fold: no step but the reopening of a resolved incident makes *)
(* an incident active, but a detection that found none active of its kind. *)

(* A plan that waits for approval is about an incident still in memory.    *)
IncidentsKnown ==
  \A p \in InStatus({"pending_approval"}) : incident[body[p].incident] # "absent"

LEMMA PendingBody ==
  ASSUME IInv, NEW p \in Plan, status[p] = "pending_approval"
  PROVE  p \in 1 .. issued /\ body[p] \in Body
<1>1. p \in 1 .. issued
  BY BoundAssumption DEF IInv, Numbered, Plan, TypeOK
<1> QED BY <1>1 DEF IInv, TypeOK

(* Pruning, like every handler but a recommendation, makes no plan wait.   *)
LEMMA KnownStays ==
  ASSUME IInv, IncidentsKnown,
         \A p \in Plan : status'[p] = "pending_approval" =>
           /\ status[p] = "pending_approval"
           /\ body'[p] = body[p],
         \A n \in Incident : incident'[n] = "absent" => incident[n] = "absent"
  PROVE  IncidentsKnown'
BY PendingBody DEF IncidentsKnown, InStatus, Body

LEMMA KnownRecommend ==
  ASSUME IInv, IncidentsKnown,
         NEW n \in Incident, NEW c \in Proposals, Recommend(n, c)
  PROVE  IncidentsKnown'
<1> DEFINE p == issued + 1
<1>1. PICK answer \in GateAnswers(p, c) :
        status' = Pruned([status EXCEPT ![p] = answer])
  BY DEF Recommend
<1>2. \A q \in Plan : q # p /\ status'[q] = "pending_approval" =>
        status[q] = "pending_approval"
  BY <1>1 DEF Pruned, IInv, TypeOK
<1>3. /\ body' = [q \in 1 .. p |-> IF q = p THEN [incident |-> n, targets |-> c.targets,
                                                  gain |-> c.gain]
                                   ELSE body[q]]
      /\ incident[n] # "absent"
      /\ \A m \in Incident : incident'[m] = "absent" => incident[m] = "absent"
  BY DEF Recommend, IInv, TypeOK
<1>4. issued \in Nat
  BY BoundAssumption DEF IInv, TypeOK
<1> SUFFICES ASSUME NEW q \in Plan, status'[q] = "pending_approval"
             PROVE  incident'[body'[q].incident] # "absent"
  BY DEF IncidentsKnown, InStatus
<1>5. CASE q = p
  <2>1. p \in 1 .. p
    BY <1>4
  <2>2. body'[p].incident = n
    BY <1>3, <2>1
  <2> QED BY <1>3, <1>5, <2>2
<1>6. CASE q # p
  <2>1. status[q] = "pending_approval"
    BY <1>2, <1>6
  <2>2. q \in 1 .. issued /\ body[q] \in Body
    BY <2>1, PendingBody
  <2>3. body'[q] = body[q]
    BY <1>3, <1>4, <1>6, <2>2
  <2> QED BY <1>3, <2>1, <2>2, <2>3 DEF IncidentsKnown, InStatus, Body
<1> QED BY <1>5, <1>6

LEMMA KnownStep ==
  ASSUME IInv, IncidentsKnown, [Next]_vars
  PROVE  IncidentsKnown'
<1>1. /\ status \in [Plan -> Status] /\ incident \in [Incident -> IncidentState]
      /\ body \in [1 .. issued -> Body]
  BY DEF IInv, TypeOK
<1>2. CASE UNCHANGED vars
  BY <1>2 DEF IncidentsKnown, InStatus, vars
<1>3. ASSUME NEW p \in Plan, Approve(p) \/ Reject(p) \/ Rollback(p)
      PROVE  IncidentsKnown'
  <2>1. \A q \in Plan : status'[q] = "pending_approval" => status[q] = "pending_approval"
    BY <1>1, <1>3
       DEF Approve, ApproveBlocked, ApproveShadow, ApproveAdvisory, ApproveLive, Reject,
           Rollback
  <2>2. body' = body /\ \A n \in Incident : incident'[n] = "absent" => incident[n] = "absent"
    BY <1>1, <1>3
       DEF Approve, ApproveBlocked, ApproveShadow, ApproveAdvisory, ApproveLive, Reject,
           Rollback, IncidentAfterExecution
  <2> QED BY <2>1, <2>2, KnownStays
<1>4. CASE ExpireAdvisories
  BY <1>1, <1>4, KnownStays DEF ExpireAdvisories
<1>5. CASE CheckMonitors \/ Pass \/ \E m \in Mode : SetMode(m)
  BY <1>5, KnownStays DEF CheckMonitors, Pass, SetMode
<1>6. ASSUME NEW n \in Incident, Detect(n) \/ Acknowledge(n) \/ Resolve(n)
      PROVE  IncidentsKnown'
  BY <1>1, <1>6, KnownStays DEF Detect, Acknowledge, Resolve
<1>7. CASE Restart
  BY <1>7 DEF Restart, IncidentsKnown, InStatus
<1> QED
  BY <1>2, <1>3, <1>4, <1>5, <1>6, <1>7, KnownRecommend DEF Next

(* An incident that turns active was detected, or reopened.                *)
LEMMA TurnsActive ==
  ASSUME IInv, IncidentsKnown, [Next]_vars, ~ Reopening,
         NEW n \in Incident, incident[n] \notin ActiveState, incident'[n] \in ActiveState
  PROVE  Detect(n)
<1>1. /\ incident \in [Incident -> IncidentState] /\ body \in [1 .. issued -> Body]
      /\ incident[n] \in {"absent", "resolved"} /\ incident'[n] # incident[n]
      /\ incident'[n] \notin {"absent", "resolved"}
  BY DEF IInv, TypeOK, ActiveState, IncidentState
<1>2. ASSUME NEW p \in Plan, status[p] = "pending_approval", IncidentAfterExecution(p)
      PROVE  FALSE
  <2>1. body[p].incident \in Incident /\ incident[body[p].incident] # "absent"
    BY <1>2, PendingBody DEF Body, IncidentsKnown, InStatus
  <2>2. n = body[p].incident /\ incident'[n] = "monitoring"
    BY <1>1, <1>2, <2>1 DEF IncidentAfterExecution
  <2> QED BY <1>1, <2>1, <2>2 DEF Reopening
<1>3. ASSUME NEW p \in Plan, Approve(p) \/ Reject(p) \/ Rollback(p)
      PROVE  FALSE
  BY <1>1, <1>2, <1>3
     DEF Approve, ApproveBlocked, ApproveShadow, ApproveAdvisory, ApproveLive, Reject,
         Rollback
<1>4. ASSUME NEW m \in Incident, NEW c \in Proposals, Recommend(m, c)
      PROVE  FALSE
  BY <1>1, <1>4 DEF Recommend
<1>5. ASSUME NEW m \in Incident, Detect(m)
      PROVE  Detect(n)
  BY <1>1, <1>5 DEF Detect
<1>6. ASSUME NEW m \in Incident, Acknowledge(m) \/ Resolve(m)
      PROVE  FALSE
  BY <1>1, <1>6 DEF Acknowledge, Resolve
<1>7. CASE Restart
  BY <1>1, <1>7 DEF Restart
<1> QED
  BY <1>1, <1>3, <1>4, <1>5, <1>6, <1>7
     DEF Next, ExpireAdvisories, CheckMonitors, Pass, SetMode, vars

(* While nothing resolved is reopened, detections of a kind fold into its  *)
(* active incident, whatever plans do.                                     *)
THEOREM DuplicatesComeFromReopening == Spec => DuplicateOnlyByReopening
<1> DEFINE Folds == OneActiveIncidentPerKind /\ ~ Reopening => OneActiveIncidentPerKind'
<1>1. Init => IncidentsKnown
  BY DEF Init, IncidentsKnown, InStatus
<1>2. IInv /\ IncidentsKnown /\ [Next]_vars => IncidentsKnown'
  BY KnownStep
<1>3. IInv /\ IncidentsKnown /\ [Next]_vars => [Folds]_vars
  <2> SUFFICES ASSUME IInv, IncidentsKnown, [Next]_vars,
                      OneActiveIncidentPerKind, ~ Reopening,
                      NEW m \in Incident, NEW n \in Incident, m # n, Kind[m] = Kind[n],
                      incident'[m] \in ActiveState, incident'[n] \in ActiveState
               PROVE  FALSE
    BY DEF OneActiveIncidentPerKind
  <2>1. \/ incident[m] \notin ActiveState /\ Detect(m)
        \/ incident[n] \notin ActiveState /\ Detect(n)
    BY TurnsActive DEF OneActiveIncidentPerKind
  <2>2. ASSUME NEW i \in Incident, NEW j \in Incident, i # j, Kind[i] = Kind[j],
               Detect(i), incident'[j] \in ActiveState
        PROVE  FALSE
    <3>1. incident'[j] = incident[j]
      BY <2>2 DEF Detect, IInv, TypeOK
    <3> QED BY <2>2, <3>1 DEF Detect, SameKindActive
  <2> QED BY <2>1, <2>2
<1> QED
  BY <1>1, <1>2, <1>3, Inductive, PTL DEF Spec, DuplicateOnlyByReopening

-----------------------------------------------------------------------------
(* The abstract state, as the decision loop keeps it.                      *)

Life == [p \in Plan |-> LifeOf(status[p])]
Scope == [p \in Plan |-> Targets(p)]

(* A status and its life. *)
LEMMA LifeCases ==
  /\ LifeOf("absent") = "unborn"
  /\ LifeOf("pending_approval") = "open"
  /\ LifeOf("executed") = "live"
  /\ LifeOf("advisory_issued") = "advised"
  /\ LifeOf("forgotten") = "gone"
  /\ \A s \in Terminal : LifeOf(s) = "closed"
BY DEF LifeOf, Terminal

(* Changing the statuses of the plans S to s moves exactly them. *)
LEMMA LifeAfter ==
  ASSUME NEW S \in SUBSET Plan, NEW s,
         status' = [p \in Plan |-> IF p \in S THEN s ELSE status[p]]
  PROVE  Life' = [p \in Plan |-> IF p \in S THEN LifeOf(s) ELSE Life[p]]
<1>1. \A p \in Plan : LifeOf(status'[p])
                        = IF p \in S THEN LifeOf(s) ELSE LifeOf(status[p])
  OBVIOUS
<1>2. QED
  BY <1>1 DEF Life

LEMMA LifeAfterOne ==
  ASSUME TypeOK, NEW p \in Plan, NEW s, status' = [status EXCEPT ![p] = s]
  PROVE  /\ Life' = [Life EXCEPT ![p] = LifeOf(s)]
         /\ Life' = [q \in Plan |-> IF q \in {p} THEN LifeOf(s) ELSE Life[q]]
<1>1. status' = [q \in Plan |-> IF q \in {p} THEN s ELSE status[q]]
  BY DEF TypeOK
<1>2. Life' = [q \in Plan |-> IF q \in {p} THEN LifeOf(s) ELSE Life[q]]
  <2>1. {p} \in SUBSET Plan
    OBVIOUS
  <2>2. QED
    BY <1>1, <2>1, LifeAfter
<1>3. Life' = [Life EXCEPT ![p] = LifeOf(s)]
  BY <1>2 DEF Life
<1>4. QED
  BY <1>2, <1>3

LEMMA ScopeKept == UNCHANGED body => UNCHANGED Scope
BY DEF Scope, Targets

-----------------------------------------------------------------------------
LEMMA ImplementsInit == Init => Promise!Init
<1> SUFFICES ASSUME Init PROVE Promise!Init
  OBVIOUS
<1>1. \A p \in Plan : Targets(p) = {}
  BY DEF Init, Targets
<1>2. \A p \in Plan : LifeOf(status[p]) = "unborn"
  BY LifeCases DEF Init
<1>3. mode \in Mode /\ timing = [i \in Intersection |-> 0]
  BY DEF Init
<1>4. QED
  BY <1>1, <1>2, <1>3 DEF Promise!Init

(* A recommendation proposes a new plan. *)
LEMMA RecommendProposes ==
  ASSUME IInv, NEW n \in Incident, NEW c \in Proposals, Recommend(n, c)
  PROVE  Promise!Next
<1> DEFINE p == issued + 1
           T == Range(c.targets)
<1>1. /\ p \in Plan /\ p > issued /\ issued \in Nat
      /\ T \in SUBSET Intersection
  BY BoundAssumption, PlannerAssumption, ListedTargets
     DEF IInv, TypeOK, Recommend, Plan
<1>2. PICK answer \in GateAnswers(p, c) :
        /\ status' = Pruned([status EXCEPT ![p] = answer])
        /\ body' = [q \in 1 .. p |->
                      IF q = p THEN [incident |-> n, targets |-> c.targets,
                                     gain |-> c.gain]
                               ELSE body[q]]
  BY DEF Recommend
<1>3. /\ answer \in {"refused", "pending_approval", "blocked_constraint"}
      /\ UNCHANGED <<mode, timing>>
  BY DEF GateAnswers, Recommend
<1> DEFINE st == [status EXCEPT ![p] = answer]
           refused == answer # "pending_approval"
           dropped == {q \in Plan : st[q] \in Terminal
                                      /\ status'[q] = "forgotten"}
<1>4. st \in [Plan -> Status]
  BY <1>3 DEF IInv, TypeOK, Status
<1>5. /\ status' \in [Plan -> Status]
      /\ \A q \in Plan : \/ status'[q] = st[q]
                         \/ st[q] \in Terminal /\ status'[q] = "forgotten"
  BY <1>2, <1>4, PrunedKeeps
<1>6. \A q \in Plan : st[q] = IF q = p THEN answer ELSE status[q]
  BY <1>1 DEF IInv, TypeOK
<1>7. Life[p] = "unborn"
  BY <1>1, LifeCases DEF IInv, Numbered, Life
<1>8. \A q \in Plan : status'[q] = IF q \in dropped THEN "forgotten" ELSE st[q]
  BY <1>5
<1>9. dropped \subseteq {q \in Plan : Life[q] = "closed"}
                          \union (IF refused THEN {p} ELSE {})
  <2> SUFFICES ASSUME NEW q \in dropped
               PROVE  \/ Life[q] = "closed"
                      \/ refused /\ q = p
    BY <1>1
  <2>1. q \in Plan /\ st[q] \in Terminal
    OBVIOUS
  <2>2. CASE q = p
    BY <1>6, <2>1, <2>2 DEF Terminal
  <2>3. CASE q # p
    BY <1>6, <2>1, <2>3, LifeCases DEF Life
  <2>4. QED
    BY <2>2, <2>3
<1>10. \A q \in Plan :
         LifeOf(status'[q]) =
           IF q = p
           THEN IF p \in dropped THEN "gone"
                ELSE IF refused THEN "closed" ELSE "open"
           ELSE IF q \in dropped THEN "gone" ELSE Life[q]
  <2> SUFFICES ASSUME NEW q \in Plan
               PROVE  LifeOf(status'[q]) =
                        IF q = p
                        THEN IF p \in dropped THEN "gone"
                             ELSE IF refused THEN "closed" ELSE "open"
                        ELSE IF q \in dropped THEN "gone" ELSE Life[q]
    OBVIOUS
  <2>1. CASE q \in dropped
    BY <1>8, <2>1, LifeCases
  <2>2. CASE q \notin dropped /\ q = p
    <3>1. status'[q] = answer
      BY <1>6, <1>8, <2>2
    <3>2. LifeOf(answer) = IF refused THEN "closed" ELSE "open"
      BY <1>3, LifeCases DEF Terminal
    <3>3. QED
      BY <2>2, <3>1, <3>2
  <2>3. CASE q \notin dropped /\ q # p
    BY <1>6, <1>8, <2>3 DEF Life
  <2>4. QED
    BY <2>1, <2>2, <2>3
<1>11. Scope' = [Scope EXCEPT ![p] = T]
  <2>1. ASSUME NEW q \in Plan
        PROVE  Targets(q)' = IF q = p THEN T ELSE Targets(q)
    <3>1. DOMAIN body = 1 .. issued
      BY DEF IInv, TypeOK
    <3>2. CASE q = p
      BY <1>1, <1>2, <3>2 DEF Targets
    <3>3. CASE q # p
      <4>1. q \in 1 .. p <=> q \in 1 .. issued
        BY <1>1, <3>3, BoundAssumption DEF Plan
      <4>2. QED
        BY <1>2, <3>1, <3>3, <4>1 DEF Targets
    <3>4. QED
      BY <3>2, <3>3
  <2>2. QED
    BY <1>1, <2>1 DEF Scope
<1>12. dropped \in SUBSET Plan /\ refused \in BOOLEAN
  OBVIOUS
<1>13. Promise!Propose(p, T, refused, dropped)
  <2> HIDE DEF p, st, refused, dropped
  <2>1. Life' = [[q \in Plan |-> IF q \in dropped THEN "gone" ELSE Life[q]]
                   EXCEPT ![p] = IF p \in dropped THEN "gone"
                                 ELSE IF refused THEN "closed" ELSE "open"]
    BY <1>1, <1>10 DEF Life
  <2>2. QED
    BY <1>1, <1>3, <1>7, <1>9, <1>11, <2>1
       DEF Promise!Propose, Promise!InLife, Promise!Move, Life, Scope
<1>14. QED
  BY <1>1, <1>12, <1>13 DEF Promise!Next

-----------------------------------------------------------------------------
(* What every decision about a plan has in common: the plan exists. *)
LEMMA DecidedPlan ==
  ASSUME IInv, NEW p \in Plan, status[p] # "absent"
  PROVE  /\ Targets(p) \in SUBSET Intersection
         /\ Targets(p) = Range(body[p].targets)
<1>1. p \in 1 .. issued
  BY BoundAssumption DEF IInv, TypeOK, Numbered, Plan
<1>2. QED
  BY <1>1, ListedTargets DEF IInv, TypeOK, Body, Targets

LEMMA DecisionCloses ==
  ASSUME IInv, NEW p \in Plan,
         ApproveBlocked(p) \/ ApproveShadow(p) \/ Reject(p)
  PROVE  Promise!Next
<1>1. /\ status[p] = "pending_approval"
      /\ \E s \in Terminal : status' = [status EXCEPT ![p] = s]
      /\ UNCHANGED <<mode, body, timing>>
  BY DEF ApproveBlocked, ApproveShadow, Reject, Terminal
<1>2. Life[p] = "open"
  BY <1>1, LifeCases DEF Life
<1>3. Life' = [q \in Plan |-> IF q \in {p} THEN "closed" ELSE Life[q]]
  <2>1. PICK s \in Terminal : status' = [status EXCEPT ![p] = s]
    BY <1>1
  <2>2. Life' = [q \in Plan |-> IF q \in {p} THEN LifeOf(s) ELSE Life[q]]
    BY <2>1, LifeAfterOne DEF IInv
  <2>3. LifeOf(s) = "closed"
    BY LifeCases
  <2>4. QED
    BY <2>2, <2>3
<1>4. UNCHANGED Scope
  BY <1>1, ScopeKept
<1>5. Promise!Close({p})
  BY <1>1, <1>2, <1>3, <1>4
     DEF Promise!Close, Promise!InLife, Promise!Move, Life, Scope
<1>6. QED
  BY <1>5 DEF Promise!Next

LEMMA AdvisoryAdvises ==
  ASSUME IInv, NEW p \in Plan, ApproveAdvisory(p)
  PROVE  Promise!Next
<1>1. /\ status[p] = "pending_approval"
      /\ mode = "advisory"
      /\ status' = [status EXCEPT ![p] = "advisory_issued"]
      /\ UNCHANGED <<mode, body, timing>>
  BY DEF ApproveAdvisory
<1>2. Life[p] = "open"
  BY <1>1, LifeCases DEF Life
<1>3. Life' = [Life EXCEPT ![p] = "advised"]
  <2>1. Life' = [Life EXCEPT ![p] = LifeOf("advisory_issued")]
    BY <1>1, LifeAfterOne DEF IInv
  <2>2. QED
    BY <2>1, LifeCases DEF Terminal
<1>4. UNCHANGED Scope
  BY <1>1, ScopeKept
<1>5. Promise!Advise(p)
  BY <1>1, <1>2, <1>3, <1>4 DEF Promise!Advise, Life, Scope
<1>6. QED
  BY <1>5 DEF Promise!Next

LEMMA LiveGoesLive ==
  ASSUME IInv, NEW p \in Plan, ApproveLive(p)
  PROVE  Promise!Next
<1>1. /\ status[p] = "pending_approval"
      /\ mode = "live"
      /\ status' = [status EXCEPT ![p] = "executed"]
      /\ timing' = Extended(body[p])
      /\ UNCHANGED <<mode, body>>
  BY DEF ApproveLive
<1>2. Targets(p) = Range(body[p].targets)
  BY <1>1, DecidedPlan
<1>3. Life[p] = "open"
  BY <1>1, LifeCases DEF Life
<1>4. Life' = [Life EXCEPT ![p] = "live"]
  <2>1. Life' = [Life EXCEPT ![p] = LifeOf("executed")]
    BY <1>1, LifeAfterOne DEF IInv
  <2>2. QED
    BY <2>1, LifeCases DEF Terminal
<1>5. UNCHANGED Scope
  BY <1>1, ScopeKept
<1>6. \A i \in Intersection \ Scope[p] : timing'[i] = timing[i]
  BY <1>1, <1>2 DEF Extended, Scope
<1>7. Promise!GoLive(p)
  BY <1>1, <1>3, <1>4, <1>5, <1>6 DEF Promise!GoLive, Promise!Confined, Life, Scope
<1>8. QED
  BY <1>7 DEF Promise!Next

LEMMA RollbackTakesBack ==
  ASSUME IInv, NEW p \in Plan, Rollback(p)
  PROVE  Promise!Next
<1>1. /\ status[p] = "executed"
      /\ status' = [status EXCEPT ![p] = "reverted"]
      /\ timing' = Restored(p)
      /\ UNCHANGED <<mode, body>>
  BY DEF Rollback
<1>2. Targets(p) = Range(body[p].targets)
  BY <1>1, DecidedPlan
<1>3. Life[p] = "live"
  BY <1>1, LifeCases DEF Life
<1>4. Life' = [Life EXCEPT ![p] = "closed"]
  <2>1. Life' = [Life EXCEPT ![p] = LifeOf("reverted")]
    BY <1>1, LifeAfterOne DEF IInv
  <2>2. QED
    BY <2>1, LifeCases DEF Terminal
<1>5. UNCHANGED Scope
  BY <1>1, ScopeKept
<1>6. \A i \in Intersection \ Scope[p] : timing'[i] = timing[i]
  BY <1>1 DEF Restored, Scope
<1>7. Promise!TakeBack(p)
  BY <1>1, <1>3, <1>4, <1>5, <1>6
     DEF Promise!TakeBack, Promise!Confined, Life, Scope
<1>8. QED
  BY <1>7 DEF Promise!Next

LEMMA ExpiryCloses ==
  ASSUME IInv, ExpireAdvisories
  PROVE  Promise!Next
<1>1. /\ status' = [p \in Plan |-> IF p \in Overdue THEN "expired" ELSE status[p]]
      /\ UNCHANGED <<mode, body, timing>>
  BY DEF ExpireAdvisories
<1>2. Overdue \in SUBSET Plan /\ \A p \in Overdue : Life[p] = "advised"
  BY LifeCases DEF Overdue, InStatus, Life
<1>3. Life' = [p \in Plan |-> IF p \in Overdue THEN "closed" ELSE Life[p]]
  <2>1. Life' = [p \in Plan |-> IF p \in Overdue THEN LifeOf("expired")
                                ELSE Life[p]]
    BY <1>1, <1>2, LifeAfter
  <2>2. QED
    BY <2>1, LifeCases DEF Terminal
<1>4. UNCHANGED Scope
  BY <1>1, ScopeKept
<1>5. Promise!Close(Overdue)
  BY <1>1, <1>2, <1>3, <1>4
     DEF Promise!Close, Promise!InLife, Promise!Move, Life, Scope
<1>6. QED
  BY <1>2, <1>5 DEF Promise!Next

LEMMA RestartRestarts ==
  ASSUME IInv, Restart
  PROVE  Promise!Next
<1>1. /\ status' = [p \in Plan |-> IF status[p] = "absent" THEN "absent"
                                  ELSE "forgotten"]
      /\ timing' = [i \in Intersection |-> 0]
      /\ UNCHANGED <<mode, body>>
  BY DEF Restart
<1>2. \A p \in Plan : Life[p] = "unborn" <=> status[p] = "absent"
  BY DEF IInv, TypeOK, Status, Life, LifeOf
<1>3. Life' = [p \in Plan |-> IF Life[p] = "unborn" THEN "unborn" ELSE "gone"]
  <2>1. \A p \in Plan : LifeOf(status'[p])
                          = IF status[p] = "absent" THEN "unborn" ELSE "gone"
    BY <1>1, LifeCases
  <2>2. QED
    BY <1>2, <2>1 DEF Life
<1>4. UNCHANGED Scope
  BY <1>1, ScopeKept
<1>5. Promise!Restart
  BY <1>1, <1>3, <1>4 DEF Promise!Restart, Life, Scope
<1>6. QED
  BY <1>5 DEF Promise!Next

(* Steps the street does not see. *)
LEMMA Invisible ==
  ASSUME UNCHANGED <<mode, status, body, timing>>
  PROVE  UNCHANGED Promise!vars
BY DEF Promise!vars, LifeOf, Targets

LEMMA ImplementsNext ==
  ASSUME IInv, [Next]_vars
  PROVE  [Promise!Next]_(Promise!vars)
<1>1. ASSUME NEW n \in Incident, NEW c \in Proposals, Recommend(n, c)
      PROVE  Promise!Next
  BY <1>1, RecommendProposes
<1>2. ASSUME NEW p \in Plan, Approve(p) \/ Reject(p) \/ Rollback(p)
      PROVE  Promise!Next
  BY <1>2, DecisionCloses, AdvisoryAdvises, LiveGoesLive, RollbackTakesBack
     DEF Approve
<1>3. CASE ExpireAdvisories
  BY <1>3, ExpiryCloses
<1>4. CASE Restart
  BY <1>4, RestartRestarts
<1>5. ASSUME NEW m \in Mode, SetMode(m)
      PROVE  Promise!Next
  <2>1. mode' = m /\ UNCHANGED <<status, body, timing>>
    BY <1>5 DEF SetMode
  <2>2. UNCHANGED Life /\ UNCHANGED Scope
    BY <2>1, ScopeKept DEF Life
  <2>3. Promise!Authorise(m)
    BY <2>1, <2>2 DEF Promise!Authorise, Life, Scope
  <2>4. QED
    BY <2>3 DEF Promise!Next
<1>6. CASE \/ CheckMonitors \/ Pass
           \/ \E n \in Incident : Detect(n) \/ Acknowledge(n) \/ Resolve(n)
           \/ UNCHANGED vars
  BY <1>6, Invisible DEF CheckMonitors, Pass, Detect, Acknowledge, Resolve, vars
<1>7. QED
  BY <1>1, <1>2, <1>3, <1>4, <1>5, <1>6 DEF Next

(* The decision loop keeps the platform's promise about signal timing,     *)
(* whatever the limits, windows, planner and operators (README.md:380 for  *)
(* the mode ladder, engine.py:860-928).                                    *)
THEOREM PromiseKept == Spec => KeepsPromise
<1>1. QED
  BY ImplementsInit, ImplementsNext, Inductive, PTL
     DEF Spec, KeepsPromise, Promise!Spec
=============================================================================
