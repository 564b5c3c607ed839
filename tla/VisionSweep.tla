----------------------------- MODULE VisionSweep -----------------------------
(***************************************************************************)
(* The AI vision sweep of platform/nexus/vision.py: which cameras a sweep  *)
(* looks at, and what their frames do to the congestion that decides which *)
(* ones the next sweep looks at first.                                     *)
(*                                                                         *)
(* Congestion is in thousandths.  The incident a frame may raise is module *)
(* IncidentReports' subject; frames are told apart by the level the model  *)
(* names.  The cameras of a sweep are analysed in any order.               *)
(***************************************************************************)
EXTENDS Integers, Sequences, FiniteSets, FiniteSetsExt

CONSTANTS
  Cameras,      \* sorted(live_camera_map): a sequence of camera ids
  At,           \* At[c]: the intersection camera c looks at
  PerSweep,     \* per_sweep
  Levels        \* congestion other sources may report

ASSUME SweepAssumption ==
  /\ Cameras # <<>> /\ PerSweep \in Nat \ {0} /\ Levels \subseteq 0..1000
  /\ \A j, k \in 1..Len(Cameras) : Cameras[j] = Cameras[k] => j = k

VARIABLES
  congestion,   \* of the intersections
  cursor,       \* _rr_index
  todo          \* cameras of the sweep under way that are not yet analysed

sweep == <<congestion, cursor, todo>>

Camera == {Cameras[k] : k \in 1..Len(Cameras)}

SweepInit(intersections) ==
  /\ congestion \in [intersections -> Levels]
  /\ cursor = 0
  /\ todo = {}

(* CONGESTION_PRIORITY = 0.45 *)
Hot == {c \in Camera : congestion[At[c]] > 450}

(* Up to PerSweep of the hot ones, the most congested first. *)
Priority(picks) ==
  /\ picks \subseteq Hot
  /\ Cardinality(picks) = Min({PerSweep, Cardinality(Hot)})
  /\ \A c \in picks, d \in Hot \ picks : congestion[At[c]] >= congestion[At[d]]

(* The first k cameras from the cursor on. *)
Scan(k) == {Cameras[((cursor + j) % Len(Cameras)) + 1] : j \in 0..k - 1}

(* How far the scan goes to fill a sweep that has picked some already. *)
Scanned(picks) ==
  Min({k \in 0..Len(Cameras) :
         k = Len(Cameras) \/ Cardinality(picks \cup Scan(k)) >= PerSweep})

BadAdvance(picks) == Cardinality(picks \cup Scan(Scanned(picks)))

(* The cursor moves past every camera scanned, picked or passed over.      *)
Advance(picks) == Scanned(picks)

(* _pick_cameras, and the sweep is on its way. *)
Sweep ==
  /\ todo = {}
  /\ \E picks \in SUBSET Hot :
       /\ Priority(picks)
       /\ todo' = picks \cup Scan(Scanned(picks))
       /\ cursor' = (cursor + Advance(picks)) % Len(Cameras)
  /\ UNCHANGED congestion

(* CONGESTION_LEVELS, carried as a speed and a count of stopped vehicles,  *)
(* and made into congestion again by _on_edge_telemetry.                   *)
Seen(level) == (900 * level) \div 1000 + 40 * ((5 * level) \div 1000)

(* A camera is done with: without a frame or an answer of the model, or    *)
(* where a real estimate protects the intersection, nothing changes.       *)
Analyse(c) ==
  /\ c \in todo
  /\ todo' = todo \ {c}
  /\ \/ UNCHANGED congestion
     \/ \E level \in {200, 500, 800} :
          congestion' = [congestion EXCEPT ![At[c]] = Seen(level)]
  /\ UNCHANGED cursor

(* Buses, detectors and edge cameras change congestion as well. *)
Traffic ==
  /\ \E i \in DOMAIN congestion, level \in Levels :
       congestion' = [congestion EXCEPT ![i] = level]
  /\ UNCHANGED <<cursor, todo>>

SweepNext == Sweep \/ (\E c \in Camera : Analyse(c)) \/ Traffic

(* The loop sleeps two minutes and sweeps again, whatever went wrong. *)
SweepFairness == WF_sweep(Sweep) /\ WF_sweep(\E c \in Camera : Analyse(c))

-----------------------------------------------------------------------------
(* "congested intersections first, then round-robin through the rest"      *)
(* (vision.py:103-105): if again and again a sweep is not filled by        *)
(* congested cameras alone, every camera has its turn again and again,     *)
(* however the congested ones change from one sweep to the next.           *)
EveryCameraSwept ==
  []<><<Sweep /\ Cardinality(Hot) < PerSweep>>_sweep
    => \A c \in Camera : []<>(c \in todo)
=============================================================================
