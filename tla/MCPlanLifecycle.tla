--------------------------- MODULE MCPlanLifecycle ---------------------------
(* Small instances of PlanLifecycle for TLC. *)
EXTENDS PlanProperties, TLC

CONSTANTS i1, i2, i3, n1, n2

OneKind == [n \in Incident |-> "collision"]

(* A plan that extends the signals of the list s by a second each time.    *)
Second(s) == [targets |-> s, gain |-> [i \in Intersection |-> 1]]

Overlapping == {Second(s) : s \in {<<i1>>, <<i2, i2>>, <<i1, i2>>, <<i2, i3>>}}
Nested      == {Second(s) : s \in {<<i1>>, <<i1, i2, i1>>}}
Single      == {Second(<<i1>>)}

=============================================================================
