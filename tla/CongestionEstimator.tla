------------------------- MODULE CongestionEstimator -------------------------
(***************************************************************************)
(* How observed speeds become congestion: CongestionEstimator of           *)
(* platform/nexus/congestion.py, as operators over its two tables          *)
(*   samples[i]   : <<kind, id>> -> [ratio, weight, at]                    *)
(*   estimates[i] : [congestion, at] for the intersections estimated, with *)
(*                  the time of the newest sample behind it as its basis.  *)
(*                                                                         *)
(* Ratios and congestion are thousandths, speeds miles per hour, times the *)
(* clock of the module that uses this one.  The bucket index that finds    *)
(* the intersections near a point is left out: a reading carries the       *)
(* intersections it is near.                                               *)
(***************************************************************************)
EXTENDS Integers, FiniteSets, FiniteSetsExt, Functions

CONSTANTS
  Window,      \* fresh_window_s
  StaleFix,    \* STALE_FIX_S
  MinSamples,  \* min_samples
  Highway      \* intersections whose name refers to a highway

(* 180 s, 120 s and 2: what is not too stale to be taken in is fresh.      *)
ASSUME EstimatorAssumption ==
  /\ Window \in Nat /\ StaleFix \in 0..Window
  /\ MinSamples \in Nat \ {0}

(* speed_limit_estimate *)
SpeedLimit(i) == IF i \in Highway THEN 55 ELSE 25

(* _free_flow_mph: buses cruise at three quarters of the limit. *)
Ratio(speed, limit, bus) ==
  IF bus THEN (4000 * speed) \div (3 * limit) ELSE (1000 * speed) \div limit

(* Free flow at ratio 1, jam at JAM_RATIO = 0.12. *)
RatioToCongestion(r) ==
  CASE r >= 1000 -> 0
    [] r <= 120 -> 1000
    [] OTHER -> ((1000 - r) * 1000) \div 880

-----------------------------------------------------------------------------
(* A reading: [source, near, speed, weight, at], its source a kind of      *)
(* source and an id.                                                       *)

(* ingest_vehicles: v = [id, speed, near, at]; a bus at rest says nothing. *)
BusReadings(vehicles, now) ==
  {[source |-> <<"bus", v.id>>, near |-> v.near, speed |-> v.speed,
    weight |-> 1, at |-> v.at] :
     v \in {w \in vehicles : w.speed > 0 /\ now - w.at <= StaleFix}}

(* A jam that reports no speed crawls when its level says it is blocked.   *)
JamSpeed(j) == IF j.speed > 0 THEN j.speed ELSE 1

(* ingest_waze_jams: j = [id, speed, level, near]. *)
JamReadings(jams, now) ==
  {[source |-> <<"waze", j.id>>, near |-> j.near, speed |-> JamSpeed(j),
    weight |-> 2, at |-> now] :
     j \in {k \in jams : k.speed > 0 \/ k.level >= 4}}

(* ingest_flow: f = [id, speed, near], the records that parse. *)
FlowReadings(flows, now) ==
  {[source |-> <<"flow", f.id>>, near |-> f.near, speed |-> f.speed,
    weight |-> 3, at |-> now] : f \in flows}

(* _add_sample at a street with this limit: a bus keeps the highest ratio  *)
(* its last sample carried while that sample is within the window; the     *)
(* time always advances.                                                   *)
Sample(sources, r, limit) ==
  LET bus == r.source[1] = "bus"
      ratio == Ratio(r.speed, limit, bus)
      kept == /\ bus /\ r.source \in DOMAIN sources
              /\ sources[r.source].at >= r.at - Window
  IN  [ratio |-> IF kept THEN Max({ratio, sources[r.source].ratio}) ELSE ratio,
       weight |-> r.weight, at |-> r.at]

(* Every reading reaches the intersections it is near; a source reads once.*)
Ingest(samples, readings) ==
  [i \in DOMAIN samples |->
     LET here == {r \in readings : i \in r.near}
     IN  [s \in DOMAIN samples[i] \cup {r.source : r \in here} |->
            IF \E r \in here : r.source = s
            THEN Sample(samples[i], CHOOSE r \in here : r.source = s, SpeedLimit(i))
            ELSE samples[i][s]]]

-----------------------------------------------------------------------------
(* compute *)

Fresh(sources, now) ==
  Restrict(sources, {s \in DOMAIN sources : sources[s].at >= now - Window})

(* "Weighted median via expansion": a source as often as it weighs.        *)
Expanded(sources) ==
  UNION {{s} \X (1..sources[s].weight) : s \in DOMAIN sources}

Weight(sources) == Cardinality(Expanded(sources))

WeightUpTo(sources, r) ==
  Cardinality({e \in Expanded(sources) : sources[e[1]].ratio <= r})

(* The least ratio that k of the samples, each as often as it weighs, do   *)
(* not exceed.                                                             *)
KthRatio(sources, k) ==
  Min({r \in {sources[s].ratio : s \in DOMAIN sources} : WeightUpTo(sources, r) >= k})

BadMedianRatio(sources) ==
  MapThenSumSet(LAMBDA s : sources[s].weight * sources[s].ratio, DOMAIN sources)
    \div Weight(sources)

(* statistics.median of the expansion: the middle one, or the mean of two. *)
MedianRatio(sources) ==
  LET w == Weight(sources)
  IN  (KthRatio(sources, (w + 1) \div 2) + KthRatio(sources, w \div 2 + 1)) \div 2

Estimable(sources) == Weight(sources) >= MinSamples

(* The table of samples after compute, and the estimates it leaves: those  *)
(* of intersections without enough fresh samples stay as they were.        *)
FreshSamples(samples, now) == [i \in DOMAIN samples |-> Fresh(samples[i], now)]

Estimates(samples, estimates, now) ==
  LET fresh == FreshSamples(samples, now)
      new == {i \in DOMAIN fresh : Estimable(fresh[i])}
  IN  [i \in DOMAIN estimates \cup new |->
         IF i \in new
         THEN [at |-> now, congestion |-> RatioToCongestion(MedianRatio(fresh[i])),
               basis |-> Max({fresh[i][s].at : s \in DOMAIN fresh[i]})]
         ELSE estimates[i]]

BadFreshIds(estimates, now) == DOMAIN estimates

FreshIds(estimates, now) ==
  {i \in DOMAIN estimates : estimates[i].at >= now - Window}

=============================================================================
