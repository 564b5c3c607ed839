--------------------------- MODULE MCSignalTiming ---------------------------
(* Small instances of SignalTiming for TLC: two conflicting phases, as the  *)
(* adapters configure every signal (adapters.py:92-99), or a through phase  *)
(* with a left turn.                                                        *)
EXTENDS SignalTiming, TLC

Phase(mv, g, y, r, other) ==
  [movement |-> mv, green |-> g, yellow |-> y, red |-> r,
   speed |-> 30, conflicts |-> {other}, grade |-> 0]

Timing(c, g1, g2, mv2, y, r) ==
  [cycle |-> c, phases |-> (1 :> Phase("through", g1, y, r, 2) @@
                            2 :> Phase(mv2, g2, 40, r, 1)),
   walk |-> 80, crosswalk |-> 60, slow |-> FALSE]

(* The default, and timings at the edges of the rules, on both sides.      *)
Timings ==
  {Timing(c, g1, g2, mv, y, r) :
     c \in {600, 900, 1200, 1790}, g1 \in {350, 1190}, g2 \in {60, 80, 100, 350},
     mv \in {"through", "left_turn"}, y \in {30, 40}, r \in {10, 20}}

Op(ty, k, d) == [type |-> ty, phase |-> k, delta |-> d]

Lists == {<<Op("extend_green", 1, 10)>>, <<Op("extend_green", 2, 270)>>,
          <<Op("reduce_green", 1, 250)>>, <<Op("adjust_cycle", 1, -300)>>,
          <<Op("extend_green", 1, 300), Op("adjust_cycle", 1, 300)>>,
          <<Op("extend_green", 1, 250), Op("reduce_green", 2, -250)>>,
          <<Op("extend_green", 1, 200), Op("extend_green", 1, 100)>>,
          <<Op("extend_green", 3, 10)>>, <<Op("hold_green", 1, 10)>>}
=============================================================================
