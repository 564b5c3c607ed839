---------------------------- MODULE TimingRules ----------------------------
(***************************************************************************)
(* The physical rules a signal's timing has to meet, and what an operation *)
(* does to a timing: rulepacks "mutcd" (R1-R5) and "workzone" (WZ1-WZ4) of *)
(* platform/nexus/rulepacks.py, apply_operations_to_plan and the per-signal *)
(* half of ConstraintVerifier.verify (R0, R7) of platform/nexus/safety.py. *)
(*                                                                         *)
(* Durations are tenths of a second, the precision of every operation the  *)
(* planner makes; speeds are miles per hour, grades whole percent, lengths *)
(* feet.  A rule here is a predicate, where the code collects violations:  *)
(* it holds when the code reports none.                                    *)
(***************************************************************************)
EXTENDS Integers, FiniteSets, Functions, Sequences

MinGreenThrough == 70
MinGreenLeft    == 40
MinPedWalk      == 70
MinYellow       == 30
MaxYellow       == 60
MinCycle        == 600
MaxCycle        == 1800
MinPhase        == 100
MaxPhase        == 1200
WzMinGreen      == 100
WzMaxCycle      == 1200
WzMinAllRed     == 20

(* A timing: [cycle, phases, walk, crosswalk, slow], its phases a function *)
(* from phase ids to                                                       *)
(*   [movement, green, yellow, red, speed, conflicts, grade].              *)
MinGreen(f) == IF f.movement = "left_turn" THEN MinGreenLeft ELSE MinGreenThrough

Service(f) == f.green + f.yellow + f.red

SignalPhase == [movement : STRING, green : Int, yellow : Int, red : Int,
                speed : Int, conflicts : SUBSET Int, grade : Int]

IsTiming(t) ==
  /\ t = [cycle |-> t.cycle, phases |-> t.phases, walk |-> t.walk,
          crosswalk |-> t.crosswalk, slow |-> t.slow]
  /\ t.cycle \in Int /\ t.walk \in Int /\ t.crosswalk \in Int
  /\ t.phases \in [DOMAIN t.phases -> SignalPhase]

(* The kinematic yellow 1 + v / (2 (a + G g)), in tenths of a second, with *)
(* every constant multiplied out: 3.05 m/s2, 9.81 m/s2, 0.44704 m/s a mph. *)
Braking(f) == LET b == 30500 + 981 * f.grade IN IF b < 5000 THEN 5000 ELSE b

YellowMet(f) ==
  /\ f.yellow >= MinYellow
  /\ (f.yellow - 10) * 2 * Braking(f) >= f.speed * 44704

(* Flashing don't walk: the crosswalk at 3.5 ft/s, or 3.0 near schools,    *)
(* rounded up to a whole second.                                           *)
Crossing(t) == 10 * (IF t.slow THEN (t.crosswalk + 2) \div 3
                               ELSE (2 * t.crosswalk + 6) \div 7)

-----------------------------------------------------------------------------
(* Rulepack "mutcd". *)

R1(t) == \A k \in DOMAIN t.phases : t.phases[k].green >= MinGreen(t.phases[k])

R2(t) ==
  LET through == {k \in DOMAIN t.phases : t.phases[k].movement = "through"}
  IN  /\ t.walk >= MinPedWalk
      /\ through = {} \/ \E k \in through :
                           Service(t.phases[k]) >= t.walk + Crossing(t)

R3(t) == \A k \in DOMAIN t.phases :
           YellowMet(t.phases[k]) /\ t.phases[k].yellow <= MaxYellow

(* Pairs of phases of which either names the other. *)
ConflictPairs(t) ==
  {pair \in (DOMAIN t.phases) \X (DOMAIN t.phases) :
     pair[2] \in t.phases[pair[1]].conflicts}

R4(t) == \A pair \in ConflictPairs(t) :
           Service(t.phases[pair[1]]) + Service(t.phases[pair[2]]) <= t.cycle

BadR5(t) ==
  /\ MinCycle <= t.cycle /\ t.cycle <= MaxCycle
  /\ \A k \in DOMAIN t.phases : t.phases[k].green <= MaxPhase

(* A green below its own minimum is R1's business, not R5's. *)
R5(t) ==
  /\ MinCycle <= t.cycle /\ t.cycle <= MaxCycle
  /\ \A k \in DOMAIN t.phases :
       /\ t.phases[k].green <= MaxPhase
       /\ t.phases[k].green >= MinGreen(t.phases[k])
            => t.phases[k].green >= MinPhase

Legal(t) == R1(t) /\ R2(t) /\ R3(t) /\ R4(t) /\ R5(t)

-----------------------------------------------------------------------------
(* Rulepack "workzone". *)

WZ1(t) == \A k \in DOMAIN t.phases : t.phases[k].green >= WzMinGreen
WZ2(t) == t.cycle <= WzMaxCycle
WZ3(t) == \A k \in DOMAIN t.phases : t.phases[k].red >= WzMinAllRed
WZ4(t) == \A k \in DOMAIN t.phases : YellowMet(t.phases[k])

LegalInWorkzone(t) == WZ1(t) /\ WZ2(t) /\ WZ3(t) /\ WZ4(t)

-----------------------------------------------------------------------------
(* Operations: [type, phase, delta].  The sign of a green delta does not   *)
(* matter, only the type says whether green is gained or lost.             *)
Abs(n) == IF n < 0 THEN -n ELSE n

(* Seconds of green the operation adds to its phase. *)
Gain(op) == CASE op.type = "extend_green" -> Abs(op.delta)
              [] op.type = "reduce_green" -> -Abs(op.delta)
              [] op.type = "adjust_cycle" -> 0

BadLonger(op) == IF op.type = "adjust_cycle" THEN op.delta ELSE 0

(* Seconds it adds to the cycle: what a phase gains, the cycle gains.      *)
Longer(op) == IF op.type = "adjust_cycle" THEN op.delta ELSE Gain(op)

WithGreen(f, green) == [f EXCEPT !.green = green]

(* The timing with gain[k] more green on each phase and longer more cycle. *)
Added(t, gain, longer) ==
  [t EXCEPT !.cycle = @ + longer,
            !.phases = [k \in DOMAIN t.phases |->
                          WithGreen(t.phases[k], t.phases[k].green + gain[k])]]

(* What a list of operations adds to phase k, and to the cycle.            *)
GainOf(ops, k) ==
  SumFunction([n \in DOMAIN ops |-> IF ops[n].phase = k THEN Gain(ops[n]) ELSE 0])
LongerBy(ops) == SumFunction([n \in DOMAIN ops |-> Longer(ops[n])])

(* Operations only add, so their order does not matter.                    *)
ApplyAll(t, ops) ==
  Added(t, [k \in DOMAIN t.phases |-> GainOf(ops, k)], LongerBy(ops))

OpType == {"extend_green", "reduce_green", "adjust_cycle"}

(* R0: every operation is of a known type and names a phase of the signal. *)
Known(t, ops) ==
  \A n \in DOMAIN ops : ops[n].type \in OpType /\ ops[n].phase \in DOMAIN t.phases

BadR7(ops) == \A n \in DOMAIN ops : ops[n].type # "reduce_green"

(* R7, at a signal an emergency vehicle depends on. *)
R7(ops) ==
  \A n \in DOMAIN ops :
    /\ ops[n].type # "reduce_green"
    /\ ~ (ops[n].type = "adjust_cycle" /\ ops[n].delta < 0)

(* What verify asks of one target of a plan. *)
VerifySignal(t, ops, ems) ==
  /\ ems => R7(ops)
  /\ Known(t, ops)
  /\ Legal(ApplyAll(t, ops))

(* Seconds that fit on phase k: the room under the longest cycle and the   *)
(* longest phase.                                                          *)
Fits(t, k, d) == t.cycle + d <= MaxCycle /\ t.phases[k].green + d <= MaxPhase
=============================================================================
