---------------------------- MODULE ThreadProofs ----------------------------
(***************************************************************************)
(* What interleaved handlers keep, for any number of request threads,      *)
(* ticks, plans and signals.                                               *)
(*                                                                         *)
(* ReversibleInv follows a change through its loop: the snapshot and the   *)
(* signals still to visit are together the targets of the plan.            *)
(* ReachInv counts, next to the booked signals, those of every plan past   *)
(* its verification: a verification bounds its own signals together with   *)
(* the booked ones, and each other thread adds one plan at most.           *)
(* WatchedInv is about one request thread: a plan it is deciding on is not *)
(* monitored yet.                                                          *)
(* LeakInv, also about one, says where a rollback stands: every booking of *)
(* its plan is still ahead of it, or none is left.                         *)
(***************************************************************************)
EXTENDS ThreadProperties, FiniteSetTheorems, SequenceTheorems, TLAPS

Deciding == {"verify", "block", "grant", "mode", "mode_again"}
Visiting == {"capture", "compute", "install", "register"}

-----------------------------------------------------------------------------
(* The shape of the state. *)

Shaped ==
  /\ DOMAIN status = Plan /\ DOMAIN prev = Plan
  /\ active \in [Intersection -> Plan \union {NoPlan}]
  /\ DOMAIN at = Actor /\ DOMAIN plan = Actor /\ DOMAIN todo = Actor
  /\ DOMAIN snap = Actor /\ DOMAIN fresh = Actor
  /\ \A t \in Actor : at[t] # "idle" => plan[t] \in Plan
  /\ \A t \in Ticker : at[t] \in {"idle", "settle"}

(* A thread on its round of a plan's targets. *)
OnItsRound(t) ==
  at[t] \in Visiting =>
    /\ todo[t] \in Seq(Intersection) /\ todo[t] # <<>>
    /\ DOMAIN snap[t] \union ToSet(todo[t]) = Targets(plan[t])
    /\ at[t] # "capture" => Head(todo[t]) \in DOMAIN snap[t]

Rounds ==
  \A t \in Actor :
    /\ at[t] \in Deciding \union {"idle"} => DOMAIN snap[t] = {}
    /\ OnItsRound(t)
    /\ at[t] = "record" => DOMAIN snap[t] = Targets(plan[t])
    /\ at[t] = "execute" => DOMAIN prev[plan[t]] = Targets(plan[t])

ReversibleInv == Shaped /\ Rounds /\ ExecutedIsReversible

-----------------------------------------------------------------------------
LEMMA HeadAndTail ==
  ASSUME NEW s \in Seq(Intersection), s # <<>>
  PROVE  /\ Head(s) \in ToSet(s) /\ Tail(s) \in Seq(Intersection)
         /\ ToSet(s) = {Head(s)} \union ToSet(Tail(s))
         /\ Len(s) = 1 <=> Tail(s) = <<>>
         /\ ToSet(<<>>) = {}
<1>1. /\ Len(s) \in Nat \ {0} /\ DOMAIN s = 1..Len(s) /\ Head(s) = s[1]
      /\ Tail(s) \in Seq(Intersection) /\ Len(Tail(s)) = Len(s) - 1
      /\ \A k \in 1..(Len(s) - 1) : Tail(s)[k] = s[k + 1]
  OBVIOUS
<1>2. DOMAIN Tail(s) = 1..(Len(s) - 1)
  BY <1>1
<1>3. \A k \in 1..Len(s) : k = 1 \/ k - 1 \in 1..(Len(s) - 1)
  BY <1>1
<1>4. \A k \in 1..Len(s) : k # 1 => s[k] = Tail(s)[k - 1]
  BY <1>1, <1>3
<1>5. ASSUME NEW k \in 1..Len(s)
      PROVE  s[k] \in {Head(s)} \union ToSet(Tail(s))
  <2>1. CASE k = 1
    BY <1>1, <2>1
  <2>2. CASE k # 1
    <3>1. s[k] = Tail(s)[k - 1] /\ k - 1 \in DOMAIN Tail(s)
      BY <1>2, <1>3, <1>4, <2>2
    <3> QED BY <3>1 DEF ToSet
  <2> QED BY <2>1, <2>2
<1>6. {Head(s)} \union ToSet(Tail(s)) \subseteq ToSet(s)
  BY <1>1, <1>2 DEF ToSet
<1>7. Len(s) = 1 <=> Tail(s) = <<>>
  BY <1>1
<1>8. ToSet(<<>>) = {}
  BY DEF ToSet
<1>9. ToSet(s) = {Head(s)} \union ToSet(Tail(s))
  BY <1>1, <1>5, <1>6 DEF ToSet
<1> QED BY <1>1, <1>6, <1>7, <1>8, <1>9

LEMMA ShapedStarts == Init => Shaped
BY DEF Init, Shaped, Actor

LEMMA ShapedSteps == Shaped /\ [Next]_vars => Shaped'
<1> SUFFICES ASSUME Shaped, [Next]_vars
             PROVE  Shaped'
  OBVIOUS
<1> USE ThreadAssumption DEF Shaped, Actor, Goto, Return, Enter, Loop,
        SetStatus, shared, local
<1>1. ASSUME NEW t \in Thread, NEW p \in Plan, Begin(t, p)
      PROVE  Shaped'
  BY <1>1 DEF Begin, BeginApprove, BeginReject, BeginRollback
<1>2. ASSUME NEW t \in Ticker, NEW p \in Plan, BeginSettle(t, p)
      PROVE  Shaped'
  BY <1>2 DEF BeginSettle
<1>3. ASSUME NEW t \in Actor, Continue(t)
      PROVE  Shaped'
  <2>1. CASE VerifyAgain(t) \/ Block(t) \/ Grant(t) \/ ExecuteShadow(t)
               \/ LookAgain(t) \/ ExecuteAdvisory(t) \/ ExecuteLive(t)
    BY <2>1 DEF VerifyAgain, Block, Grant, ExecuteShadow, LookAgain,
                ExecuteAdvisory, ExecuteLive
  <2>2. CASE Capture(t) \/ Compute(t) \/ Install(t)
    BY <2>2 DEF Capture, Compute, Install
  <2>3. CASE Register(t)
    BY <2>3 DEF Register
  <2>4. CASE RecordPrevious(t) \/ MarkExecuted(t) \/ Watch(t)
    BY <2>4 DEF RecordPrevious, Recorded, MarkExecuted, Watch
  <2>5. CASE Reject(t) \/ Restore(t) \/ MarkReverted(t) \/ Unwatch(t)
    BY <2>5 DEF Reject, Restore, MarkReverted, Unwatch
  <2>6. CASE ClearRestored(t) \/ ClearSettled(t)
    BY <2>6 DEF ClearRestored, ClearSettled
  <2> QED
    BY <1>3, <2>1, <2>2, <2>3, <2>4, <2>5, <2>6
       DEF Continue, Approving, RollingBack
<1>4. ASSUME NEW m \in NextModes, SetMode(m)
      PROVE  Shaped'
  BY <1>4 DEF SetMode
<1>5. CASE UNCHANGED vars
  BY <1>5 DEF vars
<1> QED BY <1>1, <1>2, <1>3, <1>4, <1>5 DEF Next

-----------------------------------------------------------------------------
LEMMA RoundsStart == Init => Rounds /\ ExecutedIsReversible
BY DEF Init, Rounds, OnItsRound, Visiting, Deciding, NoTiming,
       ExecutedIsReversible

(* A step of t that moves no other thread and marks no plan executed.      *)
LEMMA DecisionKeepsRounds ==
  ASSUME ReversibleInv, NEW t \in Actor,
         VerifyAgain(t) \/ Block(t) \/ Grant(t) \/ ExecuteShadow(t)
           \/ LookAgain(t) \/ ExecuteAdvisory(t) \/ Reject(t)
  PROVE  Rounds' /\ ExecutedIsReversible'
BY DEF ReversibleInv, Shaped, Rounds, OnItsRound, ExecutedIsReversible, Deciding,
       Visiting, VerifyAgain, Block, Grant, ExecuteShadow, LookAgain,
       ExecuteAdvisory, Reject, Goto, Return, SetStatus, NoTiming, shared

LEMMA StartKeepsRounds ==
  ASSUME ReversibleInv, NEW t \in Actor, ExecuteLive(t)
  PROVE  Rounds' /\ ExecutedIsReversible'
<1>1. plan[t] \in Plan /\ TargetsOf[plan[t]] \in Seq(Intersection)
  BY TargetsAssumption DEF ReversibleInv, Shaped, ExecuteLive
<1>2. DOMAIN snap[t] = {}
  BY DEF ReversibleInv, Rounds, ExecuteLive, Deciding
<1>3. ToSet(<<>>) = {}
  BY DEF ToSet
<1> QED
  BY <1>1, <1>2, <1>3
     DEF ReversibleInv, Shaped, Rounds, OnItsRound, ExecutedIsReversible, Deciding,
         Visiting, ExecuteLive, Goto, Targets, shared

LEMMA VisitKeepsRounds ==
  ASSUME ReversibleInv, NEW t \in Actor,
         Capture(t) \/ Compute(t) \/ Install(t)
  PROVE  Rounds' /\ ExecutedIsReversible'
<1>1. /\ todo[t] \in Seq(Intersection) /\ todo[t] # <<>>
      /\ DOMAIN snap[t] \union ToSet(todo[t]) = Targets(plan[t])
      /\ Head(todo[t]) \in ToSet(todo[t])
  BY HeadAndTail DEF ReversibleInv, Rounds, OnItsRound, Visiting, Capture, Compute,
                     Install
<1>2. CASE Capture(t)
  <2>1. DOMAIN snap'[t] = DOMAIN snap[t] \union {Head(todo[t])}
    BY <1>2 DEF Capture, ReversibleInv, Shaped
  <2>2. \A u \in Actor \ {t} : snap'[u] = snap[u] /\ at'[u] = at[u]
    BY <1>2 DEF Capture, Goto, ReversibleInv, Shaped
  <2>3. at'[t] = "compute"
    BY <1>2 DEF Capture, Goto, ReversibleInv, Shaped
  <2> QED
    BY <1>1, <1>2, <2>1, <2>2, <2>3
       DEF Capture, ReversibleInv, Rounds, OnItsRound, ExecutedIsReversible,
           Deciding, Visiting, shared
<1>3. CASE Compute(t) \/ Install(t)
  BY <1>1, <1>3
     DEF Compute, Install, Goto, ReversibleInv, Shaped, Rounds, OnItsRound,
         ExecutedIsReversible, Deciding, Visiting, shared
<1> QED BY <1>2, <1>3

LEMMA RegisterKeepsRounds ==
  ASSUME ReversibleInv, NEW t \in Actor, Register(t)
  PROVE  Rounds' /\ ExecutedIsReversible'
<1>1. /\ todo[t] \in Seq(Intersection) /\ todo[t] # <<>>
      /\ DOMAIN snap[t] \union ToSet(todo[t]) = Targets(plan[t])
      /\ Head(todo[t]) \in DOMAIN snap[t]
  BY DEF ReversibleInv, Rounds, OnItsRound, Visiting, Register
<1>2. /\ Tail(todo[t]) \in Seq(Intersection)
      /\ DOMAIN snap[t] \union ToSet(Tail(todo[t])) = Targets(plan[t])
      /\ Len(todo[t]) = 1 <=> Tail(todo[t]) = <<>>
      /\ Len(todo[t]) = 1 => DOMAIN snap[t] = Targets(plan[t])
  BY <1>1, HeadAndTail
<1>3. /\ todo'[t] = Tail(todo[t])
      /\ at'[t] = IF Len(todo[t]) = 1 THEN "record" ELSE "capture"
      /\ \A u \in Actor \ {t} : todo'[u] = todo[u] /\ at'[u] = at[u]
  BY DEF Register, Loop, Goto, ReversibleInv, Shaped
<1> QED
  BY <1>2, <1>3
     DEF Register, ReversibleInv, Rounds, OnItsRound, ExecutedIsReversible,
         Deciding, Visiting

LEMMA RecordKeepsRounds ==
  ASSUME ReversibleInv, NEW t \in Actor,
         RecordPrevious(t) \/ MarkExecuted(t) \/ Watch(t)
  PROVE  Rounds' /\ ExecutedIsReversible'
<1>1. CASE RecordPrevious(t)
  <2>1. plan[t] \in Plan /\ DOMAIN snap[t] = Targets(plan[t])
    BY <1>1 DEF RecordPrevious, ReversibleInv, Shaped, Rounds
  <2>2. DOMAIN prev'[plan[t]] = Targets(plan[t])
    BY <1>1, <2>1 DEF RecordPrevious, Recorded, ReversibleInv, Shaped
  <2>3. \A p \in Plan \ {plan[t]} : prev'[p] = prev[p]
    BY <1>1 DEF RecordPrevious, Recorded, ReversibleInv, Shaped
  <2> QED
    BY <1>1, <2>1, <2>2, <2>3
       DEF RecordPrevious, Goto, ReversibleInv, Shaped, Rounds, OnItsRound,
           ExecutedIsReversible, Deciding, Visiting
<1>2. CASE MarkExecuted(t) \/ Watch(t)
  BY <1>2
     DEF MarkExecuted, Watch, Goto, Return, SetStatus, NoTiming, ReversibleInv,
         Shaped, Rounds, OnItsRound, ExecutedIsReversible, Deciding, Visiting
<1> QED BY <1>1, <1>2

LEMMA RollbackKeepsRounds ==
  ASSUME ReversibleInv, NEW t \in Actor, RollingBack(t) \/ ClearSettled(t)
  PROVE  Rounds' /\ ExecutedIsReversible'
BY DEF RollingBack, Restore, ClearRestored, MarkReverted, Unwatch, ClearSettled,
       Loop, Goto, Return, SetStatus, NoTiming, ReversibleInv, Shaped, Rounds,
       OnItsRound, ExecutedIsReversible, Deciding, Visiting

LEMMA RoundsStep ==
  ReversibleInv /\ [Next]_vars => Rounds' /\ ExecutedIsReversible'
<1> SUFFICES ASSUME ReversibleInv, [Next]_vars
             PROVE  Rounds' /\ ExecutedIsReversible'
  OBVIOUS
<1>1. ASSUME NEW t \in Thread, NEW p \in Plan, Begin(t, p)
      PROVE  Rounds' /\ ExecutedIsReversible'
  <2>1. CASE BeginApprove(t, p) \/ BeginReject(t, p)
    BY <2>1 DEF BeginApprove, BeginReject, Enter, Goto, ReversibleInv, Shaped,
                Rounds, OnItsRound, ExecutedIsReversible, Deciding, Visiting, Actor,
                shared
  <2>2. CASE BeginRollback(t, p)
    <3>1. /\ at'[t] \in {"revert", "restore"}
          /\ \A u \in Actor \ {t} : /\ at'[u] = at[u] /\ plan'[u] = plan[u]
                                   /\ todo'[u] = todo[u] /\ snap'[u] = snap[u]
          /\ UNCHANGED <<status, prev>>
      BY <2>2 DEF BeginRollback, Enter, Goto, ReversibleInv, Shaped, Actor, shared
    <3> QED
      BY <3>1 DEF ReversibleInv, Rounds, OnItsRound, ExecutedIsReversible, Deciding,
                  Visiting
  <2> QED BY <1>1, <2>1, <2>2 DEF Begin
<1>2. ASSUME NEW t \in Ticker, NEW p \in Plan, BeginSettle(t, p)
      PROVE  Rounds' /\ ExecutedIsReversible'
  BY <1>2 DEF BeginSettle, Enter, Goto, ReversibleInv, Shaped, Rounds, OnItsRound,
              ExecutedIsReversible, Deciding, Visiting, Actor, local
<1>3. ASSUME NEW t \in Actor, Continue(t)
      PROVE  Rounds' /\ ExecutedIsReversible'
  BY <1>3, DecisionKeepsRounds, StartKeepsRounds, VisitKeepsRounds,
     RegisterKeepsRounds, RecordKeepsRounds, RollbackKeepsRounds
     DEF Continue, Approving
<1>4. ASSUME NEW m \in NextModes, SetMode(m)
      PROVE  Rounds' /\ ExecutedIsReversible'
  BY <1>4 DEF SetMode, local, ReversibleInv, Rounds, OnItsRound,
              ExecutedIsReversible
<1>5. CASE UNCHANGED vars
  BY <1>5 DEF vars, shared, local, ReversibleInv, Rounds, OnItsRound,
              ExecutedIsReversible
<1> QED BY <1>1, <1>2, <1>3, <1>4, <1>5 DEF Next

(* However many requests and ticks interleave, an executed plan has the    *)
(* prior timing of every one of its targets on record (engine.py:880-911), *)
(* also a plan that names none or one twice: a rollback skips no signal.   *)
THEOREM ExecutedReversible == Spec => []ExecutedIsReversible
<1>1. Init => ReversibleInv
  BY ShapedStarts, RoundsStart DEF ReversibleInv
<1>2. ReversibleInv /\ [Next]_vars => ReversibleInv'
  BY ShapedSteps, RoundsStep DEF ReversibleInv
<1>3. ReversibleInv => ExecutedIsReversible
  BY DEF ReversibleInv
<1> QED BY <1>1, <1>2, <1>3, PTL DEF Spec

-----------------------------------------------------------------------------
(* How far races may push the bookings over the limit. *)

Committed == {"grant", "mode", "mode_again"} \union Visiting

Booking == {t \in Thread : at[t] \in Committed}
Claims(threads) == UNION {Targets(plan[t]) : t \in threads}

(* What is booked, and what every plan past its verification may book yet. *)
Reach == Registered \union Claims(Booking)

Overrun == (Cardinality(Thread) - 1) * MostTargets

ReachBounded == Cardinality(Reach) <= MaxConcurrent + Overrun

ReachInv == ReversibleInv /\ ReachBounded

LEMMA PlanTargets ==
  ASSUME NEW p \in Plan
  PROVE  /\ TargetsOf[p] \in Seq(Intersection)
         /\ Targets(p) \subseteq Intersection
         /\ Len(TargetsOf[p]) \in Nat /\ DOMAIN TargetsOf[p] = 1..Len(TargetsOf[p])
BY TargetsAssumption DEF Targets, ToSet

LEMMA Longest ==
  /\ MostTargets \in Nat
  /\ \A p \in Plan : Len(TargetsOf[p]) <= MostTargets
<1>1. PICK q \in Plan : \A p \in Plan : Len(TargetsOf[p]) <= Len(TargetsOf[q])
  BY TargetsAssumption
<1>2. \E n \in {Len(TargetsOf[p]) : p \in Plan} :
        \A p \in Plan : Len(TargetsOf[p]) <= n
  BY <1>1
<1>3. /\ MostTargets \in {Len(TargetsOf[p]) : p \in Plan}
      /\ \A p \in Plan : Len(TargetsOf[p]) <= MostTargets
  BY <1>2, Zenon DEF MostTargets
<1> QED BY <1>3, PlanTargets

LEMMA OverrunNatural == Overrun \in Nat
<1>1. Cardinality(Thread) \in Nat /\ Cardinality(Thread) # 0
  BY ThreadAssumption, FS_CardinalityType, FS_EmptySet
<1>2. Cardinality(Thread) - 1 \in Nat
  BY <1>1
<1>3. \A m, n \in Nat : m * n \in Nat
  OBVIOUS
<1> QED BY <1>2, <1>3, Longest DEF Overrun

LEMMA ReachFinite ==
  ASSUME Shaped
  PROVE  Reach \subseteq Intersection /\ IsFiniteSet(Reach)
<1>1. \A t \in Booking : plan[t] \in Plan
  BY DEF Booking, Committed, Visiting, Shaped, Actor
<1>2. Claims(Booking) \subseteq Intersection
  BY <1>1, PlanTargets DEF Claims
<1>3. Reach \subseteq Intersection
  BY <1>2 DEF Reach, Registered
<1> QED BY <1>3, TargetsAssumption, FS_Subset

(* The plans of all threads but one have so many targets at most: each is  *)
(* one of the first MostTargets places of the list of one of them.         *)
LEMMA OthersCost ==
  ASSUME Shaped, NEW t \in Thread
  PROVE  /\ IsFiniteSet(Claims(Booking \ {t}))
         /\ Cardinality(Claims(Booking \ {t})) <= Overrun
<1> DEFINE others == Thread \ {t}
           places == others \X (1..MostTargets)
           taken  == {x \in places : /\ x[1] \in Booking
                                     /\ x[2] \in DOMAIN TargetsOf[plan[x[1]]]}
           signal == [x \in taken |-> TargetsOf[plan[x[1]]][x[2]]]
           claims == Claims(Booking \ {t})
<1>1. IsFiniteSet(others) /\ Cardinality(others) = Cardinality(Thread) - 1
  BY ThreadAssumption, FS_RemoveElement
<1>2. IsFiniteSet(1..MostTargets) /\ Cardinality(1..MostTargets) = MostTargets
  BY Longest, FS_Interval
<1>3. IsFiniteSet(places) /\ Cardinality(places) = Overrun
  BY <1>1, <1>2, FS_Product DEF Overrun
<1>4. taken \in SUBSET places
  OBVIOUS
<1>5. /\ IsFiniteSet(taken) /\ Cardinality(taken) <= Overrun
      /\ Cardinality(taken) \in Nat
  BY <1>3, <1>4, FS_Subset, FS_CardinalityType
<1>6. \A u \in Booking : u \in Thread /\ plan[u] \in Plan
  BY DEF Booking, Committed, Visiting, Shaped, Actor
<1>7. ASSUME NEW i \in claims
      PROVE  \E x \in taken : signal[x] = i
  <2>1. PICK u \in Booking \ {t} : i \in Targets(plan[u])
    BY <1>7 DEF Claims
  <2>2. PICK k \in DOMAIN TargetsOf[plan[u]] : TargetsOf[plan[u]][k] = i
    BY <2>1 DEF Targets, ToSet
  <2>3. k \in 1..MostTargets
    BY <1>6, <2>1, <2>2, PlanTargets, Longest
  <2>4. <<u, k>> \in taken
    BY <1>6, <2>1, <2>2, <2>3
  <2>5. signal[<<u, k>>] = i
    BY <2>2, <2>4
  <2> QED BY <2>4, <2>5
<1>8. ASSUME NEW x \in taken
      PROVE  signal[x] \in claims
  <2>1. x[1] \in Booking \ {t} /\ x[2] \in DOMAIN TargetsOf[plan[x[1]]]
    OBVIOUS
  <2>2. signal[x] \in Targets(plan[x[1]])
    BY <2>1 DEF Targets, ToSet
  <2> QED BY <2>1, <2>2 DEF Claims
<1>9. signal \in Surjection(taken, claims)
  BY <1>7, <1>8 DEF Surjection
<1>10. IsFiniteSet(claims) /\ Cardinality(claims) <= Cardinality(taken)
  BY <1>5, <1>9, FS_Surjection
<1> QED
  BY <1>5, <1>10, OverrunNatural, FS_CardinalityType

(* Booking a plan adds at most the places of its list not booked yet.      *)
LEMMA VerifiedFits ==
  ASSUME Shaped, NEW p \in Plan, R6Allows(p)
  PROVE  /\ IsFiniteSet(Registered \union Targets(p))
         /\ Cardinality(Registered \union Targets(p)) <= MaxConcurrent
<1> DEFINE new  == Targets(p) \ Registered
           book == [k \in NewTargets(p) |-> TargetsOf[p][k]]
<1>1. /\ Registered \subseteq Intersection
      /\ IsFiniteSet(Registered) /\ Cardinality(Registered) \in Nat
  BY TargetsAssumption, FS_Subset, FS_CardinalityType DEF Registered
<1>2. IsFiniteSet(DOMAIN TargetsOf[p])
  BY PlanTargets, FS_Interval
<1>3. IsFiniteSet(NewTargets(p)) /\ Cardinality(NewTargets(p)) \in Nat
  BY <1>2, FS_Subset, FS_CardinalityType DEF NewTargets
<1>4. book \in Surjection(NewTargets(p), new)
  BY DEF Surjection, NewTargets, Targets, ToSet
<1>5. IsFiniteSet(new) /\ Cardinality(new) <= Cardinality(NewTargets(p))
  BY <1>3, <1>4, FS_Surjection
<1>6. Cardinality(new) \in Nat
  BY <1>5, FS_CardinalityType
<1>7. Registered \cap new = {} /\ Registered \union new = Registered \union Targets(p)
  OBVIOUS
<1>8. /\ IsFiniteSet(Registered \union new)
      /\ Cardinality(Registered \union new) = Cardinality(Registered) + Cardinality(new)
  BY <1>1, <1>5, <1>6, <1>7, FS_Union, FS_EmptySet
<1>9. Cardinality(Registered) + Cardinality(NewTargets(p)) <= MaxConcurrent
  BY DEF R6Allows
<1>10. /\ IsFiniteSet(Registered \union Targets(p))
       /\ Cardinality(Registered \union Targets(p))
            = Cardinality(Registered) + Cardinality(new)
  BY <1>7, <1>8, Zenon
<1> HIDE DEF new
<1> QED BY <1>1, <1>3, <1>5, <1>6, <1>9, <1>10, LimitAssumption

LEMMA ReachShrinks ==
  ASSUME ReachInv, Reach' \subseteq Reach
  PROVE  ReachBounded'
<1>1. IsFiniteSet(Reach) /\ Cardinality(Reach) \in Nat
  BY ReachFinite, FS_CardinalityType DEF ReachInv, ReversibleInv
<1>2. IsFiniteSet(Reach') /\ Cardinality(Reach') <= Cardinality(Reach)
  BY <1>1, FS_Subset
<1>3. Cardinality(Reach') \in Nat
  BY <1>2, FS_CardinalityType
<1>4. Overrun' = Overrun
  BY DEF Overrun, MostTargets
<1> QED
  BY <1>1, <1>2, <1>3, <1>4, OverrunNatural, LimitAssumption
     DEF ReachInv, ReachBounded

(* The one step that lets a plan book. *)
LEMMA VerificationBounds ==
  ASSUME ReachInv, Shaped', NEW t \in Thread, VerifyAgain(t)
  PROVE  ReachBounded'
<1>1. t \in Actor /\ plan[t] \in Plan /\ at[t] = "verify"
  BY DEF VerifyAgain, ReachInv, ReversibleInv, Shaped, Actor
<1>2. /\ \A u \in Thread \ {t} : at'[u] = at[u]
      /\ plan' = plan /\ active' = active
  BY DEF VerifyAgain, Goto, shared, ReachInv, ReversibleInv, Shaped, Actor
<1>3. at'[t] = IF R6Allows(plan[t]) /\ RulesAllow(plan[t]) THEN "grant" ELSE "block"
  BY <1>1 DEF VerifyAgain, Goto, ReachInv, ReversibleInv, Shaped
<1>4. Registered' = Registered /\ Booking' \subseteq Booking \union {t}
  BY <1>2 DEF Registered, Booking
<1>5. CASE at'[t] = "block"
  <2>1. Booking' \subseteq Booking
    BY <1>4, <1>5 DEF Booking, Committed, Visiting
  <2>2. Reach' \subseteq Reach
    BY <1>2, <1>4, <2>1 DEF Reach, Claims
  <2> QED BY <2>2, ReachShrinks
<1>6. CASE R6Allows(plan[t])
  <2> DEFINE mine   == Registered \union Targets(plan[t])
             theirs == Claims(Booking \ {t})
  <2>1. /\ IsFiniteSet(mine) /\ Cardinality(mine) <= MaxConcurrent
        /\ Cardinality(mine) \in Nat
    BY <1>1, <1>6, VerifiedFits, FS_CardinalityType DEF ReachInv, ReversibleInv
  <2>2. /\ IsFiniteSet(theirs) /\ Cardinality(theirs) <= Overrun
        /\ Cardinality(theirs) \in Nat
    BY OthersCost, FS_CardinalityType DEF ReachInv, ReversibleInv
  <2>3. Reach' \subseteq mine \union theirs
    BY <1>2, <1>4 DEF Reach, Claims
  <2>4. /\ IsFiniteSet(mine \union theirs)
        /\ Cardinality(mine \union theirs)
             = Cardinality(mine) + Cardinality(theirs) - Cardinality(mine \cap theirs)
    BY <2>1, <2>2, FS_Union
  <2>5. Cardinality(mine \cap theirs) \in Nat
    BY <2>1, FS_Subset, FS_CardinalityType
  <2>6. /\ Cardinality(Reach') <= Cardinality(mine \union theirs)
        /\ Cardinality(Reach') \in Nat
    BY <2>3, <2>4, FS_Subset, FS_CardinalityType
  <2>7. Overrun' = Overrun
    BY DEF Overrun, MostTargets
  <2> QED
    BY <2>1, <2>2, <2>4, <2>5, <2>6, <2>7, OverrunNatural, LimitAssumption
       DEF ReachBounded
<1> QED BY <1>3, <1>5, <1>6

(* A step after which the same plans or fewer may book, and nothing more   *)
(* is booked than they claimed.                                            *)
LEMMA FewerClaims ==
  ASSUME ReachInv, Booking' \subseteq Booking,
         \A t \in Booking' : plan'[t] = plan[t],
         Registered' \subseteq Registered \union Claims(Booking)
  PROVE  ReachBounded'
<1>1. Claims(Booking)' \subseteq Claims(Booking)
  BY DEF Claims, Targets
<1>2. Reach' \subseteq Reach
  BY <1>1 DEF Reach
<1> QED BY <1>2, ReachShrinks

LEMMA RegisterKeepsReach ==
  ASSUME ReachInv, NEW t \in Actor, Register(t)
  PROVE  ReachBounded'
<1>1. t \in Booking
  BY DEF Register, Booking, Committed, Visiting, ReachInv, ReversibleInv, Shaped,
         Actor
<1>2. Head(todo[t]) \in Targets(plan[t])
  BY HeadAndTail
     DEF Register, ReachInv, ReversibleInv, Rounds, OnItsRound, Visiting
<1>3. Registered' \subseteq Registered \union {Head(todo[t])}
  BY DEF Register, Registered, ReachInv, ReversibleInv, Shaped
<1>4. Registered' \subseteq Registered \union Claims(Booking)
  BY <1>1, <1>2, <1>3 DEF Claims
<1>5. Booking' \subseteq Booking /\ plan' = plan
  BY <1>1 DEF Register, Loop, Goto, Booking, ReachInv, ReversibleInv, Shaped, Actor
<1> QED BY <1>4, <1>5, FewerClaims

LEMMA ReachSteps == ReachInv /\ [Next]_vars => ReachInv'
<1> SUFFICES ASSUME ReachInv, [Next]_vars
             PROVE  ReachInv'
  OBVIOUS
<1>1. ReversibleInv'
  BY ShapedSteps, RoundsStep DEF ReachInv, ReversibleInv
<1>2. ASSUME NEW t \in Thread, NEW p \in Plan, Begin(t, p)
      PROVE  ReachBounded'
  <2>1. /\ Registered' = Registered /\ Booking' \subseteq Booking
        /\ \A u \in Booking' : plan'[u] = plan[u]
    BY <1>2 DEF Begin, BeginApprove, BeginReject, BeginRollback, Enter, Goto,
                Booking, Committed, Visiting, Registered, ReachInv, ReversibleInv,
                Shaped, Actor, shared
  <2> QED BY <2>1, FewerClaims
<1>3. ASSUME NEW t \in Ticker, NEW p \in Plan, BeginSettle(t, p)
      PROVE  ReachBounded'
  <2>1. /\ Registered' = Registered /\ Booking' \subseteq Booking
        /\ \A u \in Booking' : plan'[u] = plan[u]
    BY <1>3 DEF BeginSettle, Enter, Goto, Booking, Committed, Visiting, Registered,
                ReachInv, ReversibleInv, Shaped, Actor, local
  <2> QED BY <2>1, FewerClaims
<1>4. ASSUME NEW t \in Actor, Continue(t)
      PROVE  ReachBounded'
  <2>1. CASE VerifyAgain(t)
    <3>1. t \in Thread
      BY <2>1 DEF VerifyAgain, ReachInv, ReversibleInv, Shaped, Actor
    <3> QED BY <1>1, <2>1, <3>1, VerificationBounds DEF ReversibleInv
  <2>2. CASE Register(t)
    BY <2>2, RegisterKeepsReach
  <2>3. CASE ~VerifyAgain(t) /\ ~Register(t) /\ Approving(t)
    <3>1. /\ Registered' = Registered /\ Booking' \subseteq Booking
          /\ \A u \in Booking' : plan'[u] = plan[u]
      BY <2>3 DEF Approving, Block, Grant, ExecuteShadow, LookAgain,
                  ExecuteAdvisory, ExecuteLive, Capture, Compute, Install,
                  RecordPrevious, MarkExecuted, Watch, Goto, Return, Booking,
                  Committed, Visiting, Registered, ReachInv, ReversibleInv,
                  Shaped, Actor, shared
    <3> QED BY <3>1, FewerClaims
  <2>4. CASE Reject(t) \/ RollingBack(t) \/ ClearSettled(t)
    <3>1. /\ Booking' \subseteq Booking
          /\ \A u \in Booking' : plan'[u] = plan[u]
      BY <2>4 DEF Reject, RollingBack, Restore, ClearRestored, MarkReverted,
                  Unwatch, ClearSettled, Loop, Goto, Return, Booking, Committed,
                  Visiting, ReachInv, ReversibleInv, Shaped, Actor, shared
    <3>2. Registered' \subseteq Registered
      BY <2>4 DEF Reject, RollingBack, Restore, ClearRestored, MarkReverted,
                  Unwatch, ClearSettled, Registered, ReachInv, ReversibleInv,
                  Shaped
    <3> QED BY <3>1, <3>2, FewerClaims
  <2> QED BY <1>4, <2>1, <2>2, <2>3, <2>4 DEF Continue
<1>5. ASSUME NEW m \in NextModes, SetMode(m)
      PROVE  ReachBounded'
  BY <1>5, FewerClaims DEF SetMode, local, Booking, Registered
<1>6. CASE UNCHANGED vars
  BY <1>1, <1>6, FewerClaims DEF vars, shared, local, Booking, Registered, ReachInv
<1> QED BY <1>1, <1>2, <1>3, <1>4, <1>5, <1>6 DEF Next, ReachInv

LEMMA ReachStarts == Init => ReachBounded
<1> SUFFICES ASSUME Init
             PROVE  ReachBounded
  OBVIOUS
<1>1. Reach = {}
  BY DEF Init, Reach, Registered, Claims, Booking, Committed, Visiting, Actor
<1> QED
  BY <1>1, FS_EmptySet, OverrunNatural, LimitAssumption DEF ReachBounded

LEMMA ReachCounts == ReachInv => OverrunBounded
<1> SUFFICES ASSUME ReachInv
             PROVE  OverrunBounded
  OBVIOUS
<1>1. IsFiniteSet(Reach) /\ Registered \in SUBSET Reach
  BY ReachFinite DEF ReachInv, ReversibleInv, Reach
<1>2. Cardinality(Registered) <= Cardinality(Reach)
  BY <1>1, FS_Subset
<1>3. Cardinality(Registered) \in Nat /\ Cardinality(Reach) \in Nat
  BY <1>1, FS_Subset, FS_CardinalityType
<1>4. Cardinality(Registered) <= MaxConcurrent + Overrun
  BY <1>2, <1>3, OverrunNatural, LimitAssumption DEF ReachInv, ReachBounded
<1> QED BY <1>4, Zenon DEF OverrunBounded, Overrun

LEMMA ReachHolds == Spec => []ReachInv
<1>1. Init => ReachInv
  BY ShapedStarts, RoundsStart, ReachStarts DEF ReachInv, ReversibleInv
<1> QED BY <1>1, ReachSteps, PTL DEF Spec

(* Verifying before registering (safety.py:131, engine.py:895) lets k      *)
(* request threads overrun the limit by the targets of k - 1 plans at      *)
(* most, however they interleave with ticks, rollbacks and mode changes.   *)
THEOREM OverrunIsBounded == Spec => []OverrunBounded
BY ReachHolds, ReachCounts, PTL

(* One request thread at a time keeps the limit (PRD_v2.md:303), whatever  *)
(* ticks clear while it works.                                             *)
THEOREM OneOperatorKeepsLimit ==
  ASSUME \A t, u \in Thread : t = u
  PROVE  Spec => []R6Budget
<1>1. PICK t \in Thread : Thread = {t}
  BY ThreadAssumption
<1>2. Cardinality(Thread) = 1
  BY <1>1, FS_Singleton
<1>3. (Cardinality(Thread) - 1) * MostTargets = 0
  BY <1>2, Longest
<1>4. OverrunBounded => R6Budget
  BY <1>3, LimitAssumption DEF OverrunBounded, R6Budget
<1> QED BY <1>4, OverrunIsBounded, PTL

-----------------------------------------------------------------------------
(* With one request thread, what it is deciding on is not monitored, and   *)
(* what is monitored is executed until a rollback is about to drop it.     *)

WatchedInv ==
  /\ Shaped /\ watched \subseteq Plan
  /\ \A p \in watched :
       status[p] = "executed" \/ \E t \in Thread : at[t] = "unwatch" /\ plan[t] = p
  /\ \A t \in Thread :
       /\ at[t] \in Deciding \union Visiting \union {"record", "execute", "reject"}
            => plan[t] \notin watched
       /\ at[t] = "watch" => status[plan[t]] = "executed"

LEMMA WatchedSteps ==
  ASSUME \A t, u \in Thread : t = u,
         WatchedInv, [Next]_vars
  PROVE  WatchedInv'
<1>1. Shaped'
  BY ShapedSteps DEF WatchedInv
<1>2. \A t \in Thread : t \in Actor /\ t \notin Ticker
  BY ThreadAssumption DEF Actor
<1>3. ASSUME NEW t \in Thread, NEW p \in Plan, Begin(t, p)
      PROVE  WatchedInv'
  BY <1>1, <1>2, <1>3 DEF WatchedInv, Shaped, Begin, BeginApprove, BeginReject,
     BeginRollback, Enter, Goto, Deciding, Visiting, shared
<1>4. ASSUME NEW t \in Ticker, NEW p \in Plan, BeginSettle(t, p)
      PROVE  WatchedInv'
  BY <1>1, <1>2, <1>4 DEF WatchedInv, Shaped, BeginSettle, Enter, Goto, local
<1>5. ASSUME NEW t \in Thread, Continue(t)
      PROVE  WatchedInv'
  <2>1. CASE VerifyAgain(t) \/ LookAgain(t) \/ ExecuteLive(t) \/ Capture(t)
               \/ Compute(t) \/ Install(t) \/ Register(t) \/ RecordPrevious(t)
    <3>1. /\ at[t] \in Deciding \union Visiting \union {"record"}
          /\ at'[t] \in Deciding \union Visiting \union {"record", "execute"}
      BY <1>2, <2>1 DEF WatchedInv, Shaped, VerifyAgain, LookAgain, ExecuteLive,
         Capture, Compute, Install, Register, RecordPrevious, Goto, Loop, Deciding,
         Visiting
    <3>2. UNCHANGED <<status, watched, plan>>
      BY <2>1 DEF VerifyAgain, LookAgain, ExecuteLive, Capture, Compute, Install,
         Register, RecordPrevious, shared
    <3> QED
      BY <1>1, <3>1, <3>2 DEF WatchedInv, Deciding, Visiting
  <2>2. CASE Block(t) \/ Grant(t) \/ ExecuteShadow(t) \/ ExecuteAdvisory(t)
               \/ Reject(t)
    <3>1. plan[t] \notin watched /\ at'[t] \in {"idle", "mode"}
      BY <1>2, <2>2 DEF WatchedInv, Shaped, Block, Grant, ExecuteShadow,
         ExecuteAdvisory, Reject, Goto, Return, Deciding
    <3>2. /\ watched' = watched /\ at[t] # "unwatch"
          /\ at'[t] = "mode" => plan'[t] = plan[t]
          /\ \A p \in watched : status'[p] = status[p]
      BY <1>2, <2>2, <3>1 DEF WatchedInv, Shaped, Block, Grant, ExecuteShadow,
         ExecuteAdvisory, Reject, Goto, Return, SetStatus
    <3> QED
      BY <1>1, <3>1, <3>2 DEF WatchedInv, Deciding, Visiting
  <2>3. CASE MarkExecuted(t)
    <3>1. /\ at'[t] = "watch" /\ at[t] = "execute" /\ plan[t] \in Plan
          /\ status'[plan[t]] = "executed"
      BY <1>2, <2>3 DEF WatchedInv, Shaped, MarkExecuted, Goto, SetStatus
    <3>2. /\ UNCHANGED <<watched, plan>>
          /\ \A p \in watched : status'[p] = status[p]
      BY <1>2, <2>3, <3>1 DEF WatchedInv, Shaped, MarkExecuted, SetStatus
    <3> QED
      BY <1>1, <3>1, <3>2 DEF WatchedInv, Deciding, Visiting
  <2>4. CASE Watch(t)
    <3>1. /\ at'[t] = "idle" /\ at[t] = "watch" /\ status' = status
          /\ watched' = watched \union {plan[t]} /\ plan[t] \in Plan
      BY <1>2, <2>4 DEF WatchedInv, Shaped, Watch, Return, Goto
    <3> QED
      BY <1>1, <3>1 DEF WatchedInv, Deciding, Visiting
  <2>5. CASE Restore(t) \/ ClearRestored(t) \/ ClearSettled(t)
    <3>1. /\ at[t] # "unwatch"
          /\ at'[t] \in {"restore", "clear", "revert", "settle", "idle"}
          /\ UNCHANGED <<status, watched>>
      BY <1>2, <2>5 DEF WatchedInv, Shaped, Restore, ClearRestored, ClearSettled,
         Goto, Return, Loop
    <3> QED
      BY <1>1, <3>1 DEF WatchedInv, Deciding, Visiting
  <2>6. CASE MarkReverted(t)
    <3>1. /\ at'[t] = "unwatch" /\ at[t] = "revert"
          /\ UNCHANGED <<watched, plan>>
          /\ \A p \in Plan \ {plan[t]} : status'[p] = status[p]
      BY <1>2, <2>6 DEF WatchedInv, Shaped, MarkReverted, Goto, SetStatus
    <3>2. watched \subseteq Plan
      BY DEF WatchedInv
    <3> QED
      BY <1>1, <3>1, <3>2 DEF WatchedInv, Deciding, Visiting
  <2>7. CASE Unwatch(t)
    <3>1. /\ at'[t] = "idle" /\ at[t] = "unwatch" /\ status' = status
          /\ watched' = watched \ {plan[t]}
      BY <1>2, <2>7 DEF WatchedInv, Shaped, Unwatch, Unwatched, Return, Goto
    <3> QED
      BY <1>1, <3>1 DEF WatchedInv, Deciding, Visiting
  <2> QED
    BY <1>5, <2>1, <2>2, <2>3, <2>4, <2>5, <2>6, <2>7
       DEF Continue, Approving, RollingBack
<1>6. ASSUME NEW t \in Ticker, Continue(t)
      PROVE  WatchedInv'
  <2>1. ClearSettled(t)
    BY <1>6 DEF WatchedInv, Shaped, Continue, Approving, RollingBack, VerifyAgain,
       Block, Grant, ExecuteShadow, LookAgain, ExecuteAdvisory, ExecuteLive,
       Capture, Compute, Install, Register, RecordPrevious, MarkExecuted, Watch,
       Reject, Restore, ClearRestored, MarkReverted, Unwatch
  <2>2. \A u \in Thread : at'[u] = at[u] /\ plan'[u] = plan[u]
    BY <1>2, <2>1 DEF ClearSettled, Loop, Goto, Return, WatchedInv, Shaped
  <2>3. UNCHANGED <<status, watched>>
    BY <2>1 DEF ClearSettled
  <2> QED BY <1>1, <2>2, <2>3 DEF WatchedInv
<1>7. ASSUME NEW m \in NextModes, SetMode(m)
      PROVE  WatchedInv'
  BY <1>1, <1>7 DEF WatchedInv, SetMode, local
<1>8. CASE UNCHANGED vars
  BY <1>1, <1>8 DEF WatchedInv, vars, shared, local
<1> QED BY <1>3, <1>4, <1>5, <1>6, <1>7, <1>8 DEF Next, Actor

(* With one request at a time next to the ticks, a monitored change can be *)
(* rolled back: its plan says executed, which is what rollback asks for    *)
(* (engine.py:837-839), or its own rollback is under way.                  *)
THEOREM OneOperatorCanRollBack ==
  ASSUME \A t, u \in Thread : t = u
  PROVE  Spec => []WatchedCanBeRolledBack
<1>1. Init => WatchedInv
  BY ShapedStarts, ThreadAssumption
     DEF WatchedInv, Init, Deciding, Visiting, Actor
<1>2. WatchedInv => WatchedCanBeRolledBack
  BY DEF WatchedInv, WatchedCanBeRolledBack, BusyWith, Actor
<1>3. WatchedInv /\ [Next]_vars => WatchedInv'
  BY WatchedSteps
<1> QED BY <1>1, <1>2, <1>3, PTL DEF Spec

-----------------------------------------------------------------------------
(* With one request thread, no booking leaks. *)

(* What a rollback has still to clear: every booking of its plan is ahead  *)
(* of it, and none is left once it is past its round.                      *)
RollbackCovers(t) ==
  /\ at[t] \in {"restore", "clear"} =>
       /\ todo[t] \in Seq(Intersection) /\ todo[t] # <<>>
       /\ \A i \in Intersection : active[i] = plan[t] => i \in ToSet(todo[t])
  /\ at[t] \in {"revert", "unwatch"} =>
       \A i \in Intersection : active[i] # plan[t]

(* What is remembered of earlier timings is a function of the signals.     *)
Remembered ==
  /\ \A p \in Plan : prev[p] = [i \in DOMAIN prev[p] |-> prev[p][i]]
  /\ \A t \in Actor : snap[t] = [i \in DOMAIN snap[t] |-> snap[t][i]]

LeakInv ==
  /\ ReversibleInv
  /\ Remembered
  /\ \A i \in Registered : i \in Targets(active[i])
  /\ \A t \in Thread : RollbackCovers(t)
  /\ \A t \in Actor :
       at[t] = "settle" => todo[t] \in Seq(Intersection) /\ todo[t] # <<>>
  /\ NothingLeaks

-----------------------------------------------------------------------------
(* A dictionary's keys in the order of their first mention: none is lost.  *)

LEMMA LeastNatural ==
  ASSUME NEW S, S \subseteq Nat, S # {}
  PROVE  \E n \in S : \A m \in S : n <= m
<1> DEFINE Down == {0..n : n \in S}
<1>1. \A n \in Nat : 0..n \in FiniteSubsetsOf(Nat)
  <2> TAKE n \in Nat
  <2>1. IsFiniteSet(0..n) /\ 0..n \subseteq Nat
    BY FS_Interval
  <2> QED BY <2>1 DEF FiniteSubsetsOf
<1>2. Down \subseteq FiniteSubsetsOf(Nat) /\ Down # {}
  BY <1>1
<1>3. IsWellFoundedOn(StrictSubsetOrdering(Nat), FiniteSubsetsOf(Nat))
  BY FS_StrictSubsetOrderingWellFounded
<1>4. PICK d \in Down : \A e \in Down : ~(<<e, d>> \in StrictSubsetOrdering(Nat))
  <2> HIDE DEF Down
  <2> QED BY <1>2, <1>3, WFMin
<1>5. PICK n \in S : d = 0..n
  BY <1>4
<1>6. ASSUME NEW m \in S, ~(n <= m)
      PROVE  FALSE
  <2>1. 0..m \subseteq 0..n /\ 0..m # 0..n
    BY <1>5, <1>6
  <2>2. <<0..m, 0..n>> \in StrictSubsetOrdering(Nat)
    BY <2>1 DEF StrictSubsetOrdering
  <2> QED BY <2>2, <1>4, <1>5
<1> QED BY <1>5, <1>6

(* The rank of a number in a finite set: how many there are up to it.      *)
LEMMA EveryRank ==
  ASSUME NEW D, D \subseteq Nat, IsFiniteSet(D)
  PROVE  /\ Cardinality(D) \in Nat
         /\ \A q \in D :
              Cardinality({j \in D : j <= q}) \in 1..Cardinality(D)
         /\ \A p, q \in D :
              Cardinality({j \in D : j <= p}) = Cardinality({j \in D : j <= q})
                => p = q
         /\ \A n \in 1..Cardinality(D) :
              \E q \in D : Cardinality({j \in D : j <= q}) = n
<1> DEFINE UpTo(q) == {j \in D : j <= q}
           N == 1..Cardinality(D)
           rank == [q \in D |-> Cardinality(UpTo(q))]
<1>1. ASSUME NEW q \in D
      PROVE  IsFiniteSet(UpTo(q)) /\ Cardinality(UpTo(q)) \in N
  <2>1. UpTo(q) \subseteq D /\ q \in UpTo(q)
    OBVIOUS
  <2> HIDE DEF UpTo
  <2>2. IsFiniteSet(UpTo(q)) /\ Cardinality(UpTo(q)) <= Cardinality(D)
    BY <2>1, FS_Subset
  <2>3. Cardinality(UpTo(q)) # 0
    BY <2>1, <2>2, FS_EmptySet
  <2>4. Cardinality(UpTo(q)) \in Nat /\ Cardinality(D) \in Nat
    BY <2>2, FS_CardinalityType
  <2> QED BY <2>2, <2>3, <2>4
<1>2. ASSUME NEW p \in D, NEW q \in D, p < q
      PROVE  Cardinality(UpTo(p)) # Cardinality(UpTo(q))
  <2>1. /\ \A j \in D : j <= p => j <= q
        /\ q \in UpTo(q) /\ q \notin UpTo(p)
    BY <1>2
  <2>2. IsFiniteSet(UpTo(q))
    BY <1>1
  <2>3. UpTo(p) \subseteq UpTo(q) /\ UpTo(p) # UpTo(q)
    BY <2>1
  <2> HIDE DEF UpTo
  <2> QED BY <2>2, <2>3, FS_Subset
<1>3. \A p, q \in D : Cardinality(UpTo(p)) = Cardinality(UpTo(q)) => p = q
  <2> SUFFICES ASSUME NEW p \in D, NEW q \in D, p # q
               PROVE  Cardinality(UpTo(p)) # Cardinality(UpTo(q))
    OBVIOUS
  <2>1. p < q \/ q < p
    OBVIOUS
  <2> HIDE DEF UpTo
  <2> QED BY <2>1, <1>2
<1>4. rank \in Injection(D, N)
  <2> HIDE DEF UpTo
  <2> QED BY <1>1, <1>3 DEF Injection, IsInjective
<1>5. Cardinality(D) \in Nat
  BY FS_CardinalityType
<1>6. IsFiniteSet(N) /\ Cardinality(N) = Cardinality(D)
  BY <1>5, FS_Interval
<1>7. rank \in Surjection(D, N)
  BY <1>4, <1>6, FS_Injection
<1>8. \A n \in N : \E q \in D : Cardinality(UpTo(q)) = n
  BY <1>7 DEF Surjection
<1> QED BY <1>1, <1>3, <1>5, <1>8

LEMMA InOrderKeys ==
  ASSUME NEW s \in Seq(Intersection), NEW keys
  PROVE  /\ InOrder(s, keys) \in Seq(Intersection)
         /\ ToSet(InOrder(s, keys)) = ToSet(s) \cap keys
<1> DEFINE first == FirstMentions(s, keys)
           size == Cardinality(first)
           UpTo(k) == {j \in first : j <= k}
           At(n) == CHOOSE k \in first : Cardinality(UpTo(k)) = n
           order == InOrder(s, keys)
<1>1. Len(s) \in Nat /\ DOMAIN s = 1..Len(s) /\ s \in [1..Len(s) -> Intersection]
  OBVIOUS
<1>2. first \subseteq 1..Len(s)
  BY <1>1 DEF FirstMentions
<1>3. IsFiniteSet(first) /\ first \subseteq Nat
  <2>1. IsFiniteSet(1..Len(s))
    BY <1>1, FS_Interval
  <2> QED BY <1>1, <1>2, <2>1, FS_Subset
<1>4. order = [n \in 1..size |-> s[At(n)]]
  BY DEF InOrder
<1> HIDE DEF first
<1>a. /\ size \in Nat
      /\ \A k \in first : Cardinality(UpTo(k)) \in 1..size
      /\ \A j, k \in first : Cardinality(UpTo(j)) = Cardinality(UpTo(k)) => j = k
      /\ \A n \in 1..size : \E k \in first : Cardinality(UpTo(k)) = n
  BY <1>3, EveryRank
<1> HIDE DEF UpTo
<1>5. ASSUME NEW n \in 1..size
      PROVE  At(n) \in first /\ Cardinality(UpTo(At(n))) = n
  BY <1>a
<1>6. ASSUME NEW k \in first
      PROVE  \E n \in 1..size : At(n) = k
  <2> DEFINE n == Cardinality(UpTo(k))
  <2>1. n \in 1..size
    BY <1>a
  <2>2. At(n) \in first /\ Cardinality(UpTo(At(n))) = n
    BY <1>5, <2>1
  <2> HIDE DEF At
  <2>3. At(n) = k
    BY <1>a, <2>2
  <2> QED BY <2>1, <2>3
<1> HIDE DEF At
<1>8. \A k \in first : s[k] \in keys /\ s[k] \in Intersection
  BY <1>1, <1>2 DEF first, FirstMentions
<1> HIDE DEF order
<1>9. order \in [1..size -> Intersection]
  BY <1>4, <1>5, <1>8
<1>10. order \in Seq(Intersection)
  BY <1>a, <1>9, SeqDef
<1>11. ToSet(order) = {s[k] : k \in first}
  BY <1>4, <1>5, <1>6, <1>9 DEF ToSet
<1>12. ASSUME NEW i \in ToSet(s) \cap keys
       PROVE  \E k \in first : s[k] = i
  <2> DEFINE places == {k \in 1..Len(s) : s[k] = i}
  <2>1. places # {} /\ places \subseteq Nat
    BY <1>1 DEF ToSet
  <2>2. PICK k \in places : \A j \in places : k <= j
    BY <2>1, LeastNatural
  <2>3. k \in 1..Len(s) /\ s[k] = i
    BY <2>2
  <2>4. \A j \in 1..(k - 1) : s[j] # s[k]
    <3> SUFFICES ASSUME NEW j \in 1..(k - 1), s[j] = s[k]
                 PROVE  FALSE
      OBVIOUS
    <3>1. j \in 1..Len(s) /\ j < k
      BY <1>1, <2>3
    <3>2. j \in places
      BY <2>3, <3>1
    <3> QED BY <2>2, <3>1, <3>2
  <2> QED BY <1>1, <2>3, <2>4 DEF first, FirstMentions
<1>13. {s[k] : k \in first} = ToSet(s) \cap keys
  <2>1. {s[k] : k \in first} \subseteq ToSet(s) \cap keys
    BY <1>1, <1>2, <1>8 DEF ToSet
  <2> QED BY <1>12, <2>1
<1> QED BY <1>10, <1>11, <1>13 DEF order

-----------------------------------------------------------------------------
LEMMA RollbackStarts ==
  ASSUME LeakInv, NEW t \in Thread, NEW p \in Plan, BeginRollback(t, p)
  PROVE  /\ RollbackCovers(t)'
         /\ at'[t] \in {"restore", "revert"} /\ plan'[t] = p
<1>1. /\ t \in Actor /\ at'[t] = IF prev[p] = NoTiming THEN "revert" ELSE "restore"
      /\ plan'[t] = p /\ active' = active
      /\ todo'[t] = InOrder(TargetsOf[p], DOMAIN prev[p])
  BY DEF LeakInv, ReversibleInv, Shaped, BeginRollback, Enter, Goto, Actor, shared
<1>2. DOMAIN prev[p] = Targets(p)
  BY DEF LeakInv, ReversibleInv, ExecutedIsReversible, BeginRollback
<1>3. /\ todo'[t] \in Seq(Intersection)
      /\ ToSet(todo'[t]) = Targets(p)
  <2>1. TargetsOf[p] \in Seq(Intersection)
    BY TargetsAssumption
  <2>2. /\ InOrder(TargetsOf[p], DOMAIN prev[p]) \in Seq(Intersection)
        /\ ToSet(InOrder(TargetsOf[p], DOMAIN prev[p]))
             = ToSet(TargetsOf[p]) \cap DOMAIN prev[p]
    BY <2>1, InOrderKeys
  <2> QED BY <1>1, <1>2, <2>2 DEF Targets
<1>4. \A i \in Intersection : active[i] = p => i \in Targets(p)
  BY PlanAssumption DEF LeakInv, Registered
<1>5. CASE prev[p] = NoTiming
  <2>1. Targets(p) = {}
    BY <1>2, <1>5 DEF NoTiming
  <2> QED BY <1>1, <1>4, <1>5, <2>1 DEF RollbackCovers
<1>6. CASE prev[p] # NoTiming
  <2>1. Targets(p) # {}
    BY <1>2, <1>6 DEF NoTiming, LeakInv, Remembered
  <2>2. todo'[t] # <<>>
    BY <1>3, <2>1 DEF ToSet
  <2> QED BY <1>1, <1>3, <1>4, <1>6, <2>2 DEF RollbackCovers
<1> QED BY <1>1, <1>5, <1>6

LEMMA RememberedStep == Remembered /\ Shaped /\ [Next]_vars => Remembered'
<1> SUFFICES ASSUME Remembered, Shaped, [Next]_vars
             PROVE  Remembered'
  OBVIOUS
<1>0. NoTiming = [i \in DOMAIN NoTiming |-> NoTiming[i]]
  BY DEF NoTiming
<1>1. ASSUME NEW t \in Actor, NEW s,
             s = [i \in DOMAIN s |-> s[i]],
             snap' = [snap EXCEPT ![t] = s], prev' = prev
      PROVE  Remembered'
  BY <1>1 DEF Remembered, Shaped
<1>2. ASSUME UNCHANGED <<snap, prev>>
      PROVE  Remembered'
  BY <1>2 DEF Remembered
<1>3. ASSUME NEW t \in Actor, Return(t), UNCHANGED prev
      PROVE  Remembered'
  BY <1>0, <1>1, <1>3 DEF Return
<1>4. ASSUME NEW t \in Thread, NEW p \in Plan, Begin(t, p)
      PROVE  Remembered'
  <2>1. CASE BeginApprove(t, p) \/ BeginReject(t, p)
    BY <1>2, <2>1 DEF BeginApprove, BeginReject, shared
  <2>2. CASE BeginRollback(t, p)
    <3>1. snap' = [snap EXCEPT ![t] = prev[p]] /\ prev' = prev
      BY <2>2 DEF BeginRollback, shared
    <3>2. prev[p] = [i \in DOMAIN prev[p] |-> prev[p][i]]
      BY DEF Remembered
    <3> QED BY <1>1, <3>1, <3>2 DEF Actor
  <2> QED BY <1>4, <2>1, <2>2 DEF Begin
<1>5. ASSUME NEW t \in Ticker, NEW p \in Plan, BeginSettle(t, p)
      PROVE  Remembered'
  BY <1>2, <1>5 DEF BeginSettle, local
<1>6. ASSUME NEW t \in Actor, Continue(t)
      PROVE  Remembered'
  <2>1. CASE Capture(t)
    <3> DEFINE h == Head(todo[t])
               s == [j \in DOMAIN snap[t] \union {h} |->
                       IF j = h THEN timing[h] ELSE snap[t][j]]
    <3>1. snap' = [snap EXCEPT ![t] = s] /\ prev' = prev
      BY <2>1 DEF Capture, shared, Shaped
    <3>2. s = [i \in DOMAIN s |-> s[i]]
      OBVIOUS
    <3> QED BY <1>1, <3>1, <3>2
  <2>2. CASE RecordPrevious(t)
    <3>1. prev' = [prev EXCEPT ![plan[t]] = snap[t]] /\ snap' = snap
      BY <2>2 DEF RecordPrevious, Recorded
    <3> QED BY <3>1 DEF Remembered, Shaped
  <2>3. CASE Block(t) \/ ExecuteShadow(t) \/ ExecuteAdvisory(t) \/ Watch(t)
               \/ Reject(t) \/ Unwatch(t)
    BY <1>3, <2>3 DEF Block, ExecuteShadow, ExecuteAdvisory, Watch, Reject, Unwatch
  <2>4. CASE ClearSettled(t)
    <3>1. CASE Len(todo[t]) = 1
      BY <1>3, <2>4, <3>1 DEF ClearSettled
    <3>2. CASE Len(todo[t]) # 1
      BY <1>2, <2>4, <3>2 DEF ClearSettled
    <3> QED BY <3>1, <3>2
  <2>5. CASE VerifyAgain(t) \/ Grant(t) \/ LookAgain(t) \/ ExecuteLive(t)
               \/ Compute(t) \/ Install(t) \/ Register(t) \/ MarkExecuted(t)
               \/ Restore(t) \/ ClearRestored(t) \/ MarkReverted(t)
    BY <1>2, <2>5 DEF VerifyAgain, Grant, LookAgain, ExecuteLive, Compute, Install,
       Register, MarkExecuted, Restore, ClearRestored, MarkReverted, shared
  <2> QED
    BY <1>6, <2>1, <2>2, <2>3, <2>4, <2>5 DEF Continue, Approving, RollingBack
<1>7. ASSUME NEW m \in NextModes, SetMode(m)
      PROVE  Remembered'
  BY <1>2, <1>7 DEF SetMode, local
<1>8. CASE UNCHANGED vars
  BY <1>2, <1>8 DEF vars, shared, local
<1> QED BY <1>4, <1>5, <1>6, <1>7, <1>8 DEF Next

(* The parts of LeakInv that a step has to restore. *)
LeakParts ==
  /\ \A i \in Registered : i \in Targets(active[i])
  /\ \A t \in Thread : RollbackCovers(t)
  /\ \A t \in Actor :
       at[t] = "settle" => todo[t] \in Seq(Intersection) /\ todo[t] # <<>>
  /\ NothingLeaks

AnswersForAll ==
  {"capture", "compute", "install", "register", "record", "execute", "watch"}
AnswersForRest == {"restore", "clear", "settle"}

(* A step that moves only t, books and clears nothing.                     *)
LEMMA BookingsStay ==
  ASSUME LeakInv, NEW t \in Actor,
         active' = active, watched' = watched,
         \A u \in Actor \ {t} :
           at'[u] = at[u] /\ plan'[u] = plan[u] /\ todo'[u] = todo[u],
         \/ at[t] \notin AnswersForAll \union AnswersForRest
         \/ plan'[t] = plan[t] /\ at'[t] \in AnswersForAll
         \/ /\ plan'[t] = plan[t] /\ todo'[t] = todo[t]
            /\ at[t] \in AnswersForRest /\ at'[t] \in AnswersForRest,
         at'[t] = "settle" =>
           todo'[t] \in Seq(Intersection) /\ todo'[t] # <<>>,
         t \in Thread => RollbackCovers(t)'
  PROVE  LeakParts'
<1>1. Registered' = Registered /\ \A p : Targets(p)' = Targets(p)
  BY DEF Registered, Targets
<1>2. \A i \in Registered' : i \in Targets(active[i])'
  BY <1>1 DEF LeakInv
<1>3. \A u \in Thread : RollbackCovers(u)'
  <2> SUFFICES ASSUME NEW u \in Thread, u # t PROVE RollbackCovers(u)'
    OBVIOUS
  <2>1. u \in Actor
    BY DEF Actor
  <2> QED BY <2>1 DEF RollbackCovers, LeakInv
<1>4. \A u \in Actor :
        at'[u] = "settle" => todo'[u] \in Seq(Intersection) /\ todo'[u] # <<>>
  BY DEF LeakInv
<1>5. ASSUME NEW i \in Registered', active'[i] \notin watched'
      PROVE  \E u \in Actor : WillAnswerFor(u, active[i], i)'
  <2>1. PICK u \in Actor : WillAnswerFor(u, active[i], i)
    BY <1>1, <1>5 DEF LeakInv, NothingLeaks
  <2>2. CASE u # t
    BY <2>1, <2>2 DEF WillAnswerFor
  <2>3. CASE u = t
    BY <2>1, <2>3 DEF WillAnswerFor, AnswersForAll, AnswersForRest
  <2> QED BY <2>2, <2>3
<1>6. NothingLeaks'
  BY <1>5 DEF NothingLeaks
<1> QED BY <1>2, <1>3, <1>4, <1>6 DEF LeakParts

(* A step that clears the first signal t has still to visit.               *)
LEMMA ClearingLeaksNothing ==
  ASSUME LeakInv, NEW t \in Actor,
         at[t] \in AnswersForRest,
         todo[t] \in Seq(Intersection), todo[t] # <<>>,
         active' = [active EXCEPT ![Head(todo[t])] = NoPlan],
         watched' = watched,
         \A u \in Actor \ {t} :
           at'[u] = at[u] /\ plan'[u] = plan[u] /\ todo'[u] = todo[u],
         \/ Len(todo[t]) = 1
         \/ /\ at'[t] \in AnswersForRest /\ plan'[t] = plan[t]
            /\ todo'[t] = Tail(todo[t]),
         at'[t] = "settle" =>
           todo'[t] \in Seq(Intersection) /\ todo'[t] # <<>>,
         t \in Thread => RollbackCovers(t)'
  PROVE  LeakParts'
<1> DEFINE h == Head(todo[t])
<1>0. Shaped
  BY DEF LeakInv, ReversibleInv
<1>1. /\ h \in Intersection /\ ToSet(todo[t]) = {h} \union ToSet(Tail(todo[t]))
      /\ Len(todo[t]) = 1 => ToSet(Tail(todo[t])) = {}
  <2>1. /\ ToSet(todo[t]) = {h} \union ToSet(Tail(todo[t]))
        /\ Len(todo[t]) = 1 => ToSet(Tail(todo[t])) = {}
    BY HeadAndTail
  <2>2. h \in Intersection
    OBVIOUS
  <2> QED BY <2>1, <2>2
<1>2. \A i \in Intersection :
        active'[i] = IF i = h THEN NoPlan ELSE active[i]
  BY <1>0 DEF Shaped
<1>3. /\ Registered' = Registered \ {h}
      /\ \A i \in Registered' : i \in Registered /\ i # h /\ active'[i] = active[i]
  BY <1>2 DEF Registered
<1>4. \A i \in Registered' : i \in Targets(active[i])'
  BY <1>3 DEF LeakInv, Targets
<1>5. \A u \in Thread : RollbackCovers(u)'
  <2> SUFFICES ASSUME NEW u \in Thread, u # t PROVE RollbackCovers(u)'
    OBVIOUS
  <2>1. u \in Actor /\ RollbackCovers(u)
    BY DEF Actor, LeakInv
  <2>2. at[u] # "idle" => plan[u] # NoPlan
    BY <1>0, <2>1, PlanAssumption DEF Shaped
  <2>3. at'[u] = at[u] /\ plan'[u] = plan[u] /\ todo'[u] = todo[u]
    BY <2>1
  <2> QED BY <1>2, <2>1, <2>2, <2>3 DEF RollbackCovers
<1>6. \A u \in Actor :
        at'[u] = "settle" => todo'[u] \in Seq(Intersection) /\ todo'[u] # <<>>
  BY DEF LeakInv
<1>7. ASSUME NEW i \in Registered', active'[i] \notin watched'
      PROVE  \E u \in Actor : WillAnswerFor(u, active[i], i)'
  <2>1. PICK u \in Actor : WillAnswerFor(u, active[i], i)
    BY <1>3, <1>7 DEF LeakInv, NothingLeaks
  <2>2. CASE u # t
    BY <1>3, <2>1, <2>2 DEF WillAnswerFor
  <2>3. CASE u = t
    <3>1. i \in ToSet(todo[t]) /\ i # h
      BY <1>3, <2>1, <2>3 DEF WillAnswerFor, AnswersForRest
    <3>2. i \in ToSet(Tail(todo[t])) /\ Len(todo[t]) # 1
      BY <1>1, <3>1
    <3>3. at'[t] \in AnswersForRest /\ plan'[t] = plan[t]
          /\ i \in ToSet(todo'[t])
      BY <3>2
    <3> QED BY <1>3, <2>1, <2>3, <3>3 DEF WillAnswerFor, AnswersForRest
  <2> QED BY <2>2, <2>3
<1>8. NothingLeaks'
  BY <1>7 DEF NothingLeaks
<1> QED BY <1>4, <1>5, <1>6, <1>8 DEF LeakParts

LEMMA ApprovingLeaksNothing ==
  ASSUME \A t, u \in Thread : t = u,
         LeakInv, NEW t \in Thread, Approving(t) \/ Reject(t)
  PROVE  LeakParts'
<1>0. Shaped /\ t \in Actor /\ plan[t] \in Plan
  BY DEF LeakInv, ReversibleInv, Shaped, Actor, Approving, VerifyAgain, Block,
     Grant, ExecuteShadow, LookAgain, ExecuteAdvisory, ExecuteLive, Capture,
     Compute, Install, Register, RecordPrevious, MarkExecuted, Watch, Reject
<1>1. CASE VerifyAgain(t) \/ Block(t) \/ Grant(t) \/ ExecuteShadow(t)
             \/ LookAgain(t) \/ ExecuteAdvisory(t) \/ Reject(t)
  <2>1. /\ active' = active /\ watched' = watched
        /\ at[t] \in Deciding \union {"reject"}
        /\ at'[t] \in Deciding \union {"idle"}
        /\ \A u \in Actor \ {t} :
             at'[u] = at[u] /\ plan'[u] = plan[u] /\ todo'[u] = todo[u]
    BY <1>0, <1>1 DEF Shaped, VerifyAgain, Block, Grant, ExecuteShadow, LookAgain,
       ExecuteAdvisory, Reject, Goto, Return, Deciding, shared
  <2>2. /\ at[t] \notin AnswersForAll \union AnswersForRest
        /\ at'[t] # "settle" /\ RollbackCovers(t)'
    BY <2>1 DEF Deciding, AnswersForAll, AnswersForRest, RollbackCovers
  <2> QED BY <1>0, <2>1, <2>2, BookingsStay
<1>2. CASE ExecuteLive(t) \/ Capture(t) \/ Compute(t) \/ Install(t)
             \/ RecordPrevious(t) \/ MarkExecuted(t)
  <2>1. /\ active' = active /\ watched' = watched /\ plan' = plan
        /\ at'[t] \in AnswersForAll
        /\ \A u \in Actor \ {t} : at'[u] = at[u] /\ todo'[u] = todo[u]
    BY <1>0, <1>2 DEF Shaped, ExecuteLive, Capture, Compute, Install,
       RecordPrevious, MarkExecuted, Goto, AnswersForAll, shared
  <2>2. at'[t] # "settle" /\ RollbackCovers(t)'
    BY <2>1 DEF AnswersForAll, RollbackCovers
  <2> QED BY <1>0, <2>1, <2>2, BookingsStay
<1>3. CASE Register(t)
  <2> DEFINE h == Head(todo[t])
  <2>1. h \in Targets(plan[t]) /\ h \in Intersection
    BY <1>0, <1>3, HeadAndTail
       DEF Register, LeakInv, ReversibleInv, Rounds, OnItsRound, Visiting
  <2>2. /\ \A i \in Intersection :
             active'[i] = IF i = h THEN plan[t] ELSE active[i]
        /\ watched' = watched /\ plan' = plan
        /\ at'[t] \in {"capture", "record"}
        /\ \A u \in Actor \ {t} : at'[u] = at[u] /\ todo'[u] = todo[u]
    BY <1>0, <1>3 DEF Shaped, Register, Loop, Goto
  <2>3. \A p : Targets(p)' = Targets(p)
    BY DEF Targets
  <2>4. \A i \in Registered' : i \in Targets(active[i])'
    BY <2>1, <2>2, <2>3 DEF LeakInv, Registered
  <2>5. RollbackCovers(t)'
    BY <2>2 DEF RollbackCovers
  <2>6. \A u \in Actor :
          at'[u] = "settle" => todo'[u] \in Seq(Intersection) /\ todo'[u] # <<>>
    BY <2>2 DEF LeakInv
  <2>7. ASSUME NEW i \in Registered', active'[i] \notin watched'
        PROVE  \E u \in Actor : WillAnswerFor(u, active[i], i)'
    <3>1. CASE active'[i] = plan[t]
      BY <1>0, <2>2, <3>1 DEF WillAnswerFor
    <3>2. CASE active'[i] # plan[t]
      <4>1. active'[i] = active[i] /\ i \in Registered
        BY <2>2, <2>7, <3>2 DEF Registered
      <4>2. PICK u \in Actor : WillAnswerFor(u, active[i], i)
        BY <2>2, <2>7, <4>1 DEF LeakInv, NothingLeaks
      <4>3. u # t
        BY <3>2, <4>1, <4>2 DEF WillAnswerFor
      <4> QED BY <2>2, <4>1, <4>2, <4>3 DEF WillAnswerFor
    <3> QED BY <3>1, <3>2
  <2>8. NothingLeaks'
    BY <2>7 DEF NothingLeaks
  <2>9. \A u \in Thread : RollbackCovers(u)'
    BY <2>5
  <2> QED BY <2>4, <2>6, <2>8, <2>9 DEF LeakParts
<1>4. CASE Watch(t)
  <2>1. /\ active' = active /\ watched' = watched \union {plan[t]}
        /\ at'[t] = "idle"
        /\ \A u \in Actor \ {t} :
             at'[u] = at[u] /\ plan'[u] = plan[u] /\ todo'[u] = todo[u]
    BY <1>0, <1>4 DEF Shaped, Watch, Return, Goto
  <2>2. \A i \in Registered' : i \in Targets(active[i])'
    BY <2>1 DEF LeakInv, Registered, Targets
  <2>3. \A u \in Thread : RollbackCovers(u)'
    BY <2>1 DEF RollbackCovers
  <2>4. \A u \in Actor :
          at'[u] = "settle" => todo'[u] \in Seq(Intersection) /\ todo'[u] # <<>>
    BY <2>1 DEF LeakInv
  <2>5. ASSUME NEW i \in Registered', active'[i] \notin watched'
        PROVE  \E u \in Actor : WillAnswerFor(u, active[i], i)'
    <3>1. i \in Registered /\ active[i] \notin watched /\ active[i] # plan[t]
      BY <2>1, <2>5 DEF Registered
    <3>2. PICK u \in Actor : WillAnswerFor(u, active[i], i)
      BY <3>1 DEF LeakInv, NothingLeaks
    <3>3. u # t
      BY <3>1, <3>2 DEF WillAnswerFor
    <3> QED BY <2>1, <3>2, <3>3 DEF WillAnswerFor
  <2>6. NothingLeaks'
    BY <2>5 DEF NothingLeaks
  <2> QED BY <2>2, <2>3, <2>4, <2>6 DEF LeakParts
<1> QED BY <1>1, <1>2, <1>3, <1>4 DEF Approving

LEMMA RollbackLeaksNothing ==
  ASSUME \A t, u \in Thread : t = u,
         LeakInv, NEW t \in Thread, RollingBack(t)
  PROVE  LeakParts'
<1>0. Shaped /\ t \in Actor /\ plan[t] \in Plan /\ RollbackCovers(t)
  BY DEF LeakInv, ReversibleInv, Shaped, Actor, RollingBack, Restore,
     ClearRestored, MarkReverted, Unwatch
<1>1. CASE Restore(t)
  <2>1. /\ UNCHANGED <<active, watched, plan, todo>>
        /\ at[t] = "restore" /\ at'[t] = "clear"
        /\ \A u \in Actor \ {t} : at'[u] = at[u]
    BY <1>0, <1>1 DEF Shaped, Restore, Goto
  <2>2. RollbackCovers(t)'
    BY <1>0, <2>1 DEF RollbackCovers
  <2> QED BY <1>0, <2>1, <2>2, BookingsStay DEF AnswersForRest
<1>2. CASE ClearRestored(t)
  <2>1. /\ active' = [active EXCEPT ![Head(todo[t])] = NoPlan]
        /\ UNCHANGED <<watched, plan>> /\ at[t] = "clear"
        /\ at'[t] = IF Len(todo[t]) = 1 THEN "revert" ELSE "restore"
        /\ todo'[t] = Tail(todo[t])
        /\ \A u \in Actor \ {t} : at'[u] = at[u] /\ todo'[u] = todo[u]
    BY <1>0, <1>2 DEF Shaped, ClearRestored, Loop, Goto
  <2>2. /\ todo[t] \in Seq(Intersection) /\ todo[t] # <<>>
        /\ \A i \in Intersection : active[i] = plan[t] => i \in ToSet(todo[t])
    BY <1>0, <2>1 DEF RollbackCovers
  <2>3. /\ Tail(todo[t]) \in Seq(Intersection)
        /\ ToSet(todo[t]) = {Head(todo[t])} \union ToSet(Tail(todo[t]))
        /\ Len(todo[t]) = 1 <=> Tail(todo[t]) = <<>>
        /\ ToSet(<<>>) = {}
    BY <2>2, HeadAndTail
  <2>4. \A i \in Intersection :
          active'[i] = plan[t] => i \in ToSet(Tail(todo[t]))
    BY <1>0, <2>1, <2>2, <2>3, PlanAssumption DEF Shaped
  <2>5. RollbackCovers(t)'
    <3>1. CASE Len(todo[t]) = 1
      BY <2>1, <2>3, <2>4, <3>1 DEF RollbackCovers
    <3>2. CASE Len(todo[t]) # 1
      BY <2>1, <2>3, <2>4, <3>2 DEF RollbackCovers
    <3> QED BY <3>1, <3>2
  <2>6. at'[t] # "settle" /\ (Len(todo[t]) = 1 \/ at'[t] \in AnswersForRest)
    BY <2>1 DEF AnswersForRest
  <2> QED
    BY <1>0, <2>1, <2>2, <2>5, <2>6, ClearingLeaksNothing DEF AnswersForRest
<1>3. CASE MarkReverted(t)
  <2>1. /\ UNCHANGED <<active, watched, plan, todo>>
        /\ at[t] = "revert" /\ at'[t] = "unwatch"
        /\ \A u \in Actor \ {t} : at'[u] = at[u]
    BY <1>0, <1>3 DEF Shaped, MarkReverted, Goto
  <2>2. RollbackCovers(t)'
    BY <1>0, <2>1 DEF RollbackCovers
  <2>3. at[t] \notin AnswersForAll \union AnswersForRest
    BY <2>1 DEF AnswersForAll, AnswersForRest
  <2> QED BY <1>0, <2>1, <2>2, <2>3, BookingsStay
<1>4. CASE Unwatch(t)
  <2>1. /\ active' = active /\ watched' = watched \ {plan[t]}
        /\ at[t] = "unwatch" /\ at'[t] = "idle"
        /\ \A u \in Actor \ {t} :
             at'[u] = at[u] /\ plan'[u] = plan[u] /\ todo'[u] = todo[u]
    BY <1>0, <1>4 DEF Shaped, Unwatch, Unwatched, Return, Goto
  <2>2. \A i \in Intersection : active[i] # plan[t]
    BY <1>0, <2>1 DEF RollbackCovers
  <2>3. \A i \in Registered' : i \in Targets(active[i])'
    BY <2>1 DEF LeakInv, Registered, Targets
  <2>4. \A u \in Thread : RollbackCovers(u)'
    BY <2>1 DEF RollbackCovers
  <2>5. \A u \in Actor :
          at'[u] = "settle" => todo'[u] \in Seq(Intersection) /\ todo'[u] # <<>>
    BY <2>1 DEF LeakInv
  <2>6. ASSUME NEW i \in Registered', active'[i] \notin watched'
        PROVE  \E u \in Actor : WillAnswerFor(u, active[i], i)'
    <3>1. i \in Registered /\ i \in Intersection /\ active[i] \notin watched
      BY <2>1, <2>2, <2>6 DEF Registered
    <3>2. PICK u \in Actor : WillAnswerFor(u, active[i], i)
      BY <3>1 DEF LeakInv, NothingLeaks
    <3>3. u # t
      BY <2>1, <3>2 DEF WillAnswerFor
    <3> QED BY <2>1, <3>2, <3>3 DEF WillAnswerFor
  <2>7. NothingLeaks'
    BY <2>6 DEF NothingLeaks
  <2> QED BY <2>3, <2>4, <2>5, <2>7 DEF LeakParts
<1> QED BY <1>1, <1>2, <1>3, <1>4 DEF RollingBack

LEMMA SettlingLeaksNothing ==
  ASSUME LeakInv, NEW t \in Ticker, NEW p \in Plan, BeginSettle(t, p)
  PROVE  LeakParts'
<1>0. Shaped /\ t \in Actor /\ t \notin Thread /\ at[t] = "idle"
  BY ThreadAssumption DEF LeakInv, ReversibleInv, Actor, BeginSettle
<1>1. /\ active' = active /\ watched' = watched \ {p}
      /\ \A u \in Actor \ {t} :
           at'[u] = at[u] /\ plan'[u] = plan[u] /\ todo'[u] = todo[u]
      /\ TargetsOf[p] = <<>> => at'[t] = "idle"
      /\ TargetsOf[p] # <<>> => /\ at'[t] = "settle" /\ plan'[t] = p
                               /\ todo'[t] = TargetsOf[p]
  BY <1>0 DEF Shaped, BeginSettle, SettleTargets, Enter, Goto, local
<1>2. \A i \in Registered' : i \in Targets(active[i])'
  BY <1>1 DEF LeakInv, Registered, Targets
<1>3. \A u \in Thread : RollbackCovers(u)'
  <2> SUFFICES ASSUME NEW u \in Thread PROVE RollbackCovers(u)'
    OBVIOUS
  <2>1. u \in Actor \ {t}
    BY <1>0 DEF Actor
  <2> QED BY <1>1, <2>1 DEF RollbackCovers, LeakInv
<1>4. ASSUME NEW u \in Actor, at'[u] = "settle"
      PROVE  todo'[u] \in Seq(Intersection) /\ todo'[u] # <<>>
  <2>1. CASE u = t
    BY <1>1, <1>4, <2>1, TargetsAssumption
  <2>2. CASE u # t
    BY <1>1, <1>4, <2>2 DEF LeakInv
  <2> QED BY <2>1, <2>2
<1>5. ASSUME NEW i \in Registered', active'[i] \notin watched'
      PROVE  \E u \in Actor : WillAnswerFor(u, active[i], i)'
  <2>0. i \in Registered
    BY <1>1 DEF Registered
  <2>1. CASE active[i] = p
    <3>1. i \in ToSet(TargetsOf[p])
      BY <2>0, <2>1 DEF LeakInv, Targets
    <3>2. TargetsOf[p] # <<>>
      BY <3>1 DEF ToSet
    <3>3. WillAnswerFor(t, active[i], i)'
      BY <1>1, <2>1, <3>1, <3>2 DEF WillAnswerFor
    <3> QED BY <1>0, <3>3
  <2>2. CASE active[i] # p
    <3>1. PICK u \in Actor : WillAnswerFor(u, active[i], i)
      BY <1>1, <1>5, <2>0, <2>2 DEF LeakInv, NothingLeaks
    <3>2. u # t
      BY <1>0, <3>1 DEF WillAnswerFor
    <3> QED BY <1>1, <3>1, <3>2 DEF WillAnswerFor
  <2> QED BY <2>1, <2>2
<1>6. NothingLeaks'
  BY <1>5 DEF NothingLeaks
<1> QED BY <1>2, <1>3, <1>4, <1>6 DEF LeakParts

LEMMA LeakSteps ==
  ASSUME \A t, u \in Thread : t = u,
         LeakInv, [Next]_vars
  PROVE  LeakInv'
<1>0. ReversibleInv' /\ Remembered'
  BY ShapedSteps, RoundsStep, RememberedStep DEF LeakInv, ReversibleInv
<1>1. Shaped /\ \A t \in Thread : t \in Actor
  BY DEF LeakInv, ReversibleInv, Actor
<1>2. ASSUME NEW t \in Thread, NEW p \in Plan, Begin(t, p)
      PROVE  LeakParts'
  <2>1. /\ t \in Actor /\ at[t] = "idle"
        /\ active' = active /\ watched' = watched
        /\ \A u \in Actor \ {t} :
             at'[u] = at[u] /\ plan'[u] = plan[u] /\ todo'[u] = todo[u]
        /\ at'[t] \in {"verify", "reject", "restore", "revert"}
    BY <1>1, <1>2 DEF Begin, BeginApprove, BeginReject, BeginRollback, Enter, Goto,
       Shaped, shared
  <2>2. RollbackCovers(t)'
    <3>1. CASE BeginRollback(t, p)
      BY <3>1, RollbackStarts
    <3>2. CASE BeginApprove(t, p) \/ BeginReject(t, p)
      <4>1. at'[t] \in {"verify", "reject"}
        BY <1>1, <3>2 DEF BeginApprove, BeginReject, Enter, Goto, Shaped
      <4> QED BY <4>1 DEF RollbackCovers
    <3> QED BY <1>2, <3>1, <3>2 DEF Begin
  <2> QED BY <2>1, <2>2, BookingsStay DEF AnswersForAll, AnswersForRest
<1>3. ASSUME NEW t \in Ticker, NEW p \in Plan, BeginSettle(t, p)
      PROVE  LeakParts'
  BY <1>3, SettlingLeaksNothing
<1>4. ASSUME NEW t \in Actor, ClearSettled(t)
      PROVE  LeakParts'
  <2>1. /\ active' = [active EXCEPT ![Head(todo[t])] = NoPlan]
        /\ watched' = watched /\ at[t] = "settle"
        /\ \A u \in Actor \ {t} :
             at'[u] = at[u] /\ plan'[u] = plan[u] /\ todo'[u] = todo[u]
        /\ Len(todo[t]) = 1 => at'[t] = "idle"
        /\ Len(todo[t]) # 1 => /\ at'[t] = "settle" /\ plan'[t] = plan[t]
                               /\ todo'[t] = Tail(todo[t])
    BY <1>1, <1>4 DEF Shaped, ClearSettled, Loop, Goto, Return
  <2>2. todo[t] \in Seq(Intersection) /\ todo[t] # <<>>
    BY <2>1 DEF LeakInv
  <2>3. /\ Tail(todo[t]) \in Seq(Intersection)
        /\ Len(todo[t]) # 1 => Tail(todo[t]) # <<>>
    BY <2>2, HeadAndTail
  <2>4. RollbackCovers(t)'
    BY <2>1 DEF RollbackCovers
  <2> QED
    BY <2>1, <2>2, <2>3, <2>4, ClearingLeaksNothing DEF AnswersForRest
<1>5. ASSUME NEW t \in Actor, Continue(t)
      PROVE  LeakParts'
  <2>1. CASE t \in Thread
    BY <1>4, <1>5, <2>1, ApprovingLeaksNothing, RollbackLeaksNothing DEF Continue
  <2>2. CASE t \in Ticker
    <3>1. ClearSettled(t)
      BY <1>1, <1>5, <2>2 DEF Shaped, Continue, Approving, RollingBack, VerifyAgain,
         Block, Grant, ExecuteShadow, LookAgain, ExecuteAdvisory, ExecuteLive,
         Capture, Compute, Install, Register, RecordPrevious, MarkExecuted, Watch,
         Reject, Restore, ClearRestored, MarkReverted, Unwatch
    <3> QED BY <1>4, <3>1
  <2> QED BY <2>1, <2>2 DEF Actor
<1>6. ASSUME active' = active, watched' = watched, at' = at, plan' = plan,
             todo' = todo
      PROVE  LeakParts'
  BY <1>6 DEF LeakInv, LeakParts, NothingLeaks, WillAnswerFor, RollbackCovers,
     Registered, Targets
<1>7. ASSUME NEW m \in NextModes, SetMode(m)
      PROVE  LeakParts'
  BY <1>6, <1>7 DEF SetMode, local
<1>8. ASSUME UNCHANGED vars
      PROVE  LeakParts'
  BY <1>6, <1>8 DEF vars, shared, local
<1>9. LeakParts'
  BY <1>2, <1>3, <1>5, <1>7, <1>8 DEF Next
<1> QED BY <1>0, <1>9 DEF LeakInv, LeakParts

LEMMA LeakStarts == Init => LeakInv
<1> SUFFICES ASSUME Init
             PROVE  LeakInv
  OBVIOUS
<1>1. ReversibleInv
  BY ShapedStarts, RoundsStart DEF ReversibleInv
<1>2. Registered = {}
  BY DEF Init, Registered
<1>3. Remembered
  BY DEF Init, Remembered, NoTiming
<1>4. \A t \in Actor : at[t] = "idle"
  BY DEF Init
<1>5. \A t \in Thread : RollbackCovers(t)
  BY <1>4 DEF RollbackCovers, Actor
<1> QED BY <1>1, <1>2, <1>3, <1>4, <1>5 DEF LeakInv, NothingLeaks

(* With one request at a time next to any number of ticks, no booking      *)
(* leaks: a booked signal belongs to a monitored change, or a handler in   *)
(* flight is about to monitor it or to clear it (engine.py:48-50,          *)
(* 1017-1032).  A booking outside both would count against R6 for as long  *)
(* as the process lives.                                                   *)
THEOREM OneOperatorLeaksNothing ==
  ASSUME \A t, u \in Thread : t = u
  PROVE  Spec => []NothingLeaks
<1>1. LeakInv => NothingLeaks
  BY DEF LeakInv
<1>2. LeakInv /\ [Next]_vars => LeakInv'
  BY LeakSteps
<1> QED BY <1>1, <1>2, LeakStarts, PTL DEF Spec
=============================================================================
