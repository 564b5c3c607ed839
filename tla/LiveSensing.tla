----------------------------- MODULE LiveSensing -----------------------------
(***************************************************************************)
(* The platform's cycle, PlatformRuntime.tick of platform/nexus/server.py: *)
(* edge capture, the poll of the transit feed and the speeds the adapter   *)
(* makes of it, congestion from the speeds, and at the very end the expiry *)
(* and settlement of plans.  The background loop runs it every few seconds;*)
(* /api/tick and /api/scenario run it on request threads at the same time, *)
(* with no lock around it.                                                 *)
(*                                                                         *)
(* The feed is a FeedCache, the estimates are those of CongestionEstimator.*)
(* A fix is the time the feed gives it, if it gives one; all a speed tells *)
(* is whether it counts as moving.  Times are counted back from now, as in *)
(* FeedCache.                                                              *)
(* What 911 correlation does is IncidentReports' subject, what expiry and  *)
(* settlement do is PlanLifecycle's.                                       *)
(***************************************************************************)
EXTENDS FeedCache, CongestionEstimator

CONSTANTS
  Intersection,
  Bus,           \* buses of the live feed
  Simulated,     \* buses of the offline adapter a live adapter falls back on
  PruneAge,      \* 120 s, after which a silent vehicle is dropped
  Configured,    \* which of the feeds "flow" and "waze" the city has keys for
  LoopSpeed,     \* speeds a loop detector measures
  Every,         \* 60 s between two looks at flow and jam feeds
  Untimed,       \* a fix that the feed gives without a time
  Lags,          \* the times, seen from now, of the fixes it may give
  MaxRequests    \* bound on ticks requested over HTTP

ASSUME TickAssumption ==
  /\ "loop" \in Caller
  /\ IsFiniteSet(Bus) /\ IsFiniteSet(Simulated) /\ LoopSpeed \subseteq Nat
  /\ PruneAge \in Nat /\ Every \in Nat /\ MaxRequests \in Nat
  /\ Untimed \notin Int /\ Lags \subseteq Int \cup {Untimed}

VARIABLES
  pc,          \* per thread, the part of the tick it comes to next
  requests,    \* ticks requested over HTTP so far
  positions,   \* adapter._last_positions: bus -> it was moving
  vehicles,    \* graph.vehicles: id -> [at, moving], at as it was stamped
  samples,
  estimates,
  flowAt,      \* _last_flow_at
  real,        \* engine.real_congestion_ids
  shown        \* per intersection, what its congestion was last taken from

tick == <<pc, requests, positions, vehicles, samples, estimates,
          flowAt, real, shown>>
vars == <<feed, tick>>

(* At the first tick: the topology is live, bootstrap has polled the feed  *)
(* once without an answer, and the graph holds what it got instead.        *)
Init ==
  /\ CacheInit
  /\ pc = [t \in Caller |-> "idle"]
  /\ requests = 0
  /\ positions = [b \in {} |-> 0]
  /\ vehicles = [s \in Simulated |-> [at |-> 0, moving |-> TRUE]]
  /\ samples = [i \in Intersection |-> [s \in {} |-> 0]]
  /\ estimates = [i \in {} |-> 0]
  /\ flowAt = 0 - Every
  /\ real = {}
  /\ shown = [i \in Intersection |-> "organic"]

Goes(t, next) == pc' = [pc EXCEPT ![t] = next]

(* _on_edge_telemetry for each message of a capture: an anomaly always     *)
(* drives congestion, other traffic where no real estimate is in force.    *)
Overwritten(anomalies) ==
  [i \in Intersection |-> CASE i \in anomalies -> "anomaly"
                            [] i \notin anomalies \cup real -> "organic"
                            [] OTHER -> shown[i]]

(* EdgeSimulator.tick: which anomalies it injects or observes is open. *)
Capture(t) ==
  /\ pc[t] = "idle"
  /\ t = "loop" \/ requests < MaxRequests
  /\ requests' = IF t = "loop" THEN requests ELSE requests + 1
  /\ Goes(t, "poll")
  /\ \E anomalies \in SUBSET Intersection : shown' = Overwritten(anomalies)
  /\ UNCHANGED <<feed, positions, vehicles, samples, estimates, flowAt, real>>

-----------------------------------------------------------------------------
(* poll_transit *)

(* The speed made of two consecutive fixes: none at first sight, that of   *)
(* the distance if the position changed, the last estimate if it did not.  *)
(* How far the bus came is left open: nowhere, so little that it counts as *)
(* dwelling (congestion.py:173), or far.                                   *)
Distance == {"none", "little", "far"}

Moving(b, came) ==
  b \in DOMAIN positions /\ (came = "far" \/ (came = "none" /\ positions[b]))

(* A fix without a time is stamped with that of the poll, at every poll    *)
(* that gets it, from a cached answer too (adapters.py:381).               *)
Stamped(fix) == IF fix = Untimed THEN 0 ELSE fix

NoFixes == [b \in {} |-> 0]

Fixes(t) == IF answer[t] = NoValue THEN NoFixes ELSE answer[t]

(* Thread t goes on; those in the middle of a loop over a table that it    *)
(* resized may find their loop, and so their tick, broken off.             *)
GoesTearing(t, next, hit) ==
  pc' = [u \in Caller |-> IF u = t THEN next
                          ELSE IF u \in hit THEN "idle" ELSE pc[u]]

Torn(t, resized, parts) ==
  IF resized THEN SUBSET {u \in Caller \ {t} : pc[u] \in parts} ELSE {{}}

(* The loop over graph.vehicles.items(). *)
Updated(t, changed, next) ==
  /\ vehicles' = changed
  /\ \E hit \in Torn(t, DOMAIN changed # DOMAIN vehicles, {"prune"}) :
       GoesTearing(t, next, hit)

BadPolled(t) ==
  /\ pc[t] = "poll" /\ Return(t)
  /\ IF Fixes(t) = NoFixes THEN Goes(t, "idle") /\ UNCHANGED <<positions, vehicles>>
     ELSE \E came \in [DOMAIN Fixes(t) -> Distance] :
       LET seen == [b \in DOMAIN Fixes(t) |->
                      [at |-> Stamped(Fixes(t)[b]), moving |-> Moving(b, came[b])]]
       IN  /\ positions' = [b \in DOMAIN positions \cup DOMAIN seen |->
                              IF b \in DOMAIN seen THEN seen[b].moving ELSE positions[b]]
           /\ Updated(t, [v \in DOMAIN vehicles \cup DOMAIN seen |->
                             IF v \in DOMAIN seen THEN seen[v] ELSE vehicles[v]],
                      "prune")
  /\ UNCHANGED <<requests, samples, estimates, flowAt, real, shown>>

(* Without a single fix, the offline adapter's buses move instead, and are *)
(* as new as can be.                                                       *)
Polled(t) ==
  /\ pc[t] = "poll" /\ Return(t)
  /\ \E came \in [DOMAIN Fixes(t) -> Distance] :
       LET fixes == Fixes(t)
           seen == [b \in DOMAIN fixes |->
                      [at |-> Stamped(fixes[b]), moving |-> Moving(b, came[b])]]
           polled == IF fixes = NoFixes
                     THEN [s \in Simulated |-> [at |-> 0, moving |-> TRUE]]
                     ELSE seen
       IN  /\ positions' = [b \in DOMAIN positions \cup DOMAIN fixes |->
                              IF b \in DOMAIN fixes THEN seen[b].moving ELSE positions[b]]
           /\ Updated(t, [v \in DOMAIN vehicles \cup DOMAIN polled |->
                             IF v \in DOMAIN polled THEN polled[v] ELSE vehicles[v]],
                      "prune")
  /\ UNCHANGED <<requests, samples, estimates, flowAt, real, shown>>

(* A failing fetch is the cache's affair, the tick goes on. *)
PollFails(t) == pc[t] = "poll" /\ FetchFails(t) /\ UNCHANGED tick

Poll(t) ==
  \/ /\ pc[t] = "poll"
     /\ Ask(t) \/ Refresh(t) \/ StandsAside(t)
     /\ UNCHANGED tick
  \/ PollFails(t)
  \/ Polled(t)

Reports(t) ==
  /\ pc[t] = "poll"
  /\ \E buses \in SUBSET Bus :
       \E fixes \in [buses -> Lags] : Fetched(t, fixes)
  /\ UNCHANGED tick

-----------------------------------------------------------------------------
(* Vehicles that have not reported for two minutes leave the graph. *)
Prune(t) ==
  /\ pc[t] = "prune"
  /\ Updated(t, Restrict(vehicles, {v \in DOMAIN vehicles :
                                      vehicles[v].at >= 0 - PruneAge}), "sense")
  /\ UNCHANGED <<feed, requests, positions, samples, estimates,
                 flowAt, real, shown>>

(* Every bus of the instance is near every intersection. *)
Probes == {[id |-> v, speed |-> IF vehicles[v].moving THEN 15 ELSE 0,
            near |-> Intersection, at |-> vehicles[v].at] : v \in DOMAIN vehicles}

Station(speed) == [id |-> "station", speed |-> speed, near |-> Intersection]
Jam == [id |-> "jam", speed |-> 20, level |-> 3, near |-> Intersection]

(* flow_speeds and waze_jams: empty without a key, or when a fetch fails.  *)
FlowSpeeds ==
  {{}} \cup IF "flow" \in Configured THEN {{Station(v)} : v \in LoopSpeed} ELSE {}
WazeJams == IF "waze" \in Configured THEN {{}, {Jam}} ELSE {{}}

BadApplied(fresh) == shown

(* apply: every fresh estimate, also one of an earlier tick, is written.   *)
Applied(fresh) == [i \in Intersection |-> IF i \in fresh THEN "real" ELSE shown[i]]

(* Ingest, compute and apply; flow and jams are looked at once a minute.   *)
(* A resized table may break off compute or fresh_ids of another thread;   *)
(* what that thread had ingested by then is not kept here.                 *)
Sense(t) ==
  /\ pc[t] = "sense"
  /\ \E flows \in FlowSpeeds, jams \in WazeJams :
       LET due == 0 - flowAt >= Every
           extra == IF due THEN FlowReadings(flows, 0) \cup JamReadings(jams, 0)
                    ELSE {}
           ingested == Ingest(samples, BusReadings(Probes, 0) \cup extra)
       IN  /\ due \/ flows \cup jams = {}
           /\ flowAt' = IF due THEN 0 ELSE flowAt
           /\ samples' = FreshSamples(ingested, 0)
           /\ estimates' = Estimates(ingested, estimates, 0)
  /\ shown' = Applied(FreshIds(estimates', 0))
  /\ LET resized == \/ DOMAIN estimates' # DOMAIN estimates
                    \/ \E i \in Intersection : DOMAIN samples'[i] # DOMAIN samples[i]
     IN  \E hit \in Torn(t, resized, {"sense", "publish"}) :
           GoesTearing(t, "publish", hit)
  /\ UNCHANGED <<feed, requests, positions, vehicles, real>>

Publish(t) ==
  /\ pc[t] = "publish"
  /\ real' = FreshIds(estimates, 0)
  /\ Goes(t, "settle")
  /\ UNCHANGED <<feed, requests, positions, vehicles, samples,
                 estimates, flowAt, shown>>

(* expire_advisories, check_rollback_monitors, and the tick is over. *)
Settle(t) ==
  /\ pc[t] = "settle"
  /\ Goes(t, "idle")
  /\ UNCHANGED <<feed, requests, positions, vehicles, samples,
                 estimates, flowAt, real, shown>>

Step(t) == Poll(t) \/ Reports(t) \/ Prune(t) \/ Sense(t) \/ Publish(t) \/ Settle(t)

(* A unit of time passes; of a tick, only a fetch takes that long. *)
OlderFix(v) ==
  IF v = NoValue THEN v
  ELSE [b \in DOMAIN v |-> IF v[b] = Untimed THEN Untimed ELSE Aged(v[b], PruneAge)]

Pass ==
  /\ \A t \in Caller : pc[t] \in {"idle", "poll"}
  /\ CacheAges(OlderFix(cache.value), [t \in Caller |-> OlderFix(answer[t])])
  /\ vehicles' = [v \in DOMAIN vehicles |-> [vehicles[v] EXCEPT !.at = Aged(@, PruneAge)]]
  /\ samples' = [i \in Intersection |->
       [s \in DOMAIN samples[i] |-> [samples[i][s] EXCEPT !.at = Aged(@, Window)]]]
  /\ estimates' = [i \in DOMAIN estimates |->
       [estimates[i] EXCEPT !.at = Aged(@, Window), !.basis = Aged(@, 2 * Window)]]
  /\ flowAt' = Aged(flowAt, Every - 1)
  /\ UNCHANGED <<pc, requests, positions, real, shown>>

Next ==
  \/ \E t \in Caller : Capture(t) \/ Step(t)
  \/ Pass

(* The loop waits a few seconds and goes on, request threads are scheduled *)
(* and a fetch ends, one way or the other; nobody has to ask for a tick.   *)
(* Written over the parts of a tick, none of which a thread stays in for   *)
(* ever: that is WF of Step, as a thread in the middle of a tick can always *)
(* make one.                                                               *)
Fairness ==
  /\ []<>(pc["loop"] # "idle")
  /\ \A t \in Caller :
       /\ \A part \in {"prune", "sense", "publish", "settle"} : []<>(pc[t] # part)
       /\ \A part \in {"idle", "missed", "fetching", "answered"} :
            []<>(pc[t] # "poll" \/ call[t] # part)

Spec == Init /\ [][Next]_vars /\ Fairness

-----------------------------------------------------------------------------
(* "when an intersection has a FRESH real-data estimate, the simulator     *)
(* must NOT overwrite it" (engine.py:271-274): when a tick publishes what  *)
(* is to be protected, the newest stamp behind it is no older than two     *)
(* windows - one until the estimate is made, one while it stands.  For a   *)
(* fix that the feed dates the stamp is that date.  For one it does not    *)
(* date the stamp is the time of the last poll that got it, from a stale   *)
(* answer too: such an estimate is protected for as long as an outage      *)
(* lasts, however old the fix.                                             *)
EvidenceBounded ==
  [][(\E t \in Caller : pc[t] = "publish" /\ pc'[t] = "settle") =>
       \A i \in real' : 0 - estimates[i].basis <= 2 * Window]_vars

(* "robust to a single outlier probe" (congestion.py:45-46): a source that *)
(* weighs less than the others together cannot move an estimate, at the    *)
(* time it is made, out of what the others say, whatever it reports and    *)
(* whatever maximum it kept.  Equal weight is enough to move it: one loop  *)
(* detector outvotes two buses.                                            *)
MinorityCannotMove ==
  \A i \in DOMAIN estimates : \A s \in DOMAIN samples[i] :
    LET others == {samples[i][x].ratio : x \in DOMAIN samples[i] \ {s}}
    IN  estimates[i].at = 0 /\ 2 * samples[i][s].weight < Weight(samples[i]) =>
          estimates[i].congestion \in
            RatioToCongestion(Max(others))..RatioToCongestion(Min(others))

(* Whatever the feeds do, and although a tick may die of another running   *)
(* at the same time, some tick gets to the expiry of advisories and to the *)
(* settlement of changes, again and again: PlanLifecycle takes that for    *)
(* granted (server.py:331-334 are the last calls of a tick).               *)
SettlementRecurs == []<>(\E t \in Caller : pc[t] = "settle")

(* A request's tick may overwrite a real estimate with simulated traffic,  *)
(* if it captured before the other published: the next tick heals it.      *)
RaceHeals ==
  \A i \in Intersection :
    (i \in real /\ shown[i] = "organic") ~> (i \notin real \/ shown[i] # "organic")
=============================================================================
