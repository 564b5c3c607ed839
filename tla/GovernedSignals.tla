--------------------------- MODULE GovernedSignals ---------------------------
(***************************************************************************)
(* What the platform promises about signal timing, with every mechanism    *)
(* left out: no gate, no registrations, no monitors, no clock.             *)
(*                                                                         *)
(* A mitigation plan is proposed, and from then on it only moves forward.  *)
(* A signal's timing changes in three kinds of step only: one open plan    *)
(* that names the signal goes live while the platform is authorised for    *)
(* live control, one live plan that names it is taken back, or the process *)
(* restarts and reloads every signal from the city's configuration.        *)
(***************************************************************************)
EXTENDS Naturals

CONSTANTS
  Plan,           \* plan identities
  Intersection,   \* signalised intersections
  Mode,           \* rungs of the operating-mode ladder
  Live, Advisory, \* the two rungs on which an approval leaves the platform
  Base            \* the timing every signal has when the process starts

VARIABLES
  authority,      \* the rung an administrator last authorised
  life,           \* where each plan is in its life
  scope,          \* the intersections a plan names
  timing          \* what each signal runs

vars == <<authority, life, scope, timing>>

Init ==
  /\ authority \in Mode
  /\ life = [p \in Plan |-> "unborn"]
  /\ scope = [p \in Plan |-> {}]
  /\ timing = [i \in Intersection |-> Base]

InLife(l) == {p \in Plan : life[p] = l}

Move(S, l) == [p \in Plan |-> IF p \in S THEN l ELSE life[p]]

(* Signals outside S keep their timing. *)
Confined(S) == \A i \in Intersection \ S : timing'[i] = timing[i]

(* A new plan is open for approval or refused at once; finished plans may  *)
(* be dropped from memory in the same step.                                *)
Propose(p, S, refused, dropped) ==
  /\ life[p] = "unborn"
  /\ dropped \subseteq InLife("closed") \union (IF refused THEN {p} ELSE {})
  /\ life' = [Move(dropped, "gone") EXCEPT
                ![p] = IF p \in dropped THEN "gone"
                       ELSE IF refused THEN "closed" ELSE "open"]
  /\ scope' = [scope EXCEPT ![p] = S]
  /\ UNCHANGED <<authority, timing>>

(* A decision that leaves the streets alone, or an instruction that lapses. *)
Close(S) ==
  /\ S \subseteq InLife("open") \union InLife("advised")
  /\ life' = Move(S, "closed")
  /\ UNCHANGED <<authority, scope, timing>>

Advise(p) ==
  /\ authority = Advisory
  /\ life[p] = "open"
  /\ life' = [life EXCEPT ![p] = "advised"]
  /\ UNCHANGED <<authority, scope, timing>>

GoLive(p) ==
  /\ authority = Live
  /\ life[p] = "open"
  /\ life' = [life EXCEPT ![p] = "live"]
  /\ Confined(scope[p])
  /\ UNCHANGED <<authority, scope>>

TakeBack(p) ==
  /\ life[p] = "live"
  /\ life' = [life EXCEPT ![p] = "closed"]
  /\ Confined(scope[p])
  /\ UNCHANGED <<authority, scope>>

Authorise(m) ==
  /\ authority' = m
  /\ UNCHANGED <<life, scope, timing>>

Restart ==
  /\ life' = [p \in Plan |-> IF life[p] = "unborn" THEN "unborn" ELSE "gone"]
  /\ timing' = [i \in Intersection |-> Base]
  /\ UNCHANGED <<authority, scope>>

Next ==
  \/ \E p \in Plan, S \in SUBSET Intersection, refused \in BOOLEAN,
        dropped \in SUBSET Plan : Propose(p, S, refused, dropped)
  \/ \E S \in SUBSET Plan : Close(S)
  \/ \E p \in Plan : Advise(p) \/ GoLive(p) \/ TakeBack(p)
  \/ \E m \in Mode : Authorise(m)
  \/ Restart

Spec == Init /\ [][Next]_vars

=============================================================================
