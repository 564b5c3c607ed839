---------------------------- MODULE MCLiveSensing ----------------------------
(* A small instance of LiveSensing for TLC. *)
EXTENDS LiveSensing, TLC

CONSTANTS i1, b1, s1

(* Fixes up to just too old for the graph, and one without a time. *)
AnyLag == {0 - n : n \in 0..PruneAge + 1} \cup {Untimed}

=============================================================================
