------------------------- MODULE MCIncidentReports --------------------------
(* Small instances of IncidentReports for TLC. *)
EXTENDS IncidentReports, TLC

CONSTANTS q1, q2, d1, d2

(* Requests and dispatches are interchangeable; no liveness is checked.    *)
Interchangeable == Permutations({q1, q2}) \cup Permutations({d1, d2})
=============================================================================
