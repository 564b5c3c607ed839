# Nexus City OS in TLA+

A verification development for the platform under `platform/nexus/`: TLA+ modules of its
decision loop and of what it rests on, TLC instances that check them, and TLAPS proofs of
the properties that matter most. Paths below are relative to the repository; `engine.py`
stands for `platform/nexus/engine.py`, and so for the other files of that directory.

1. [The system](#1-the-system)
2. [The modules and the code](#2-the-modules-and-the-code)
3. [What the runs check](#3-what-the-runs-check)
4. [What is proved](#4-what-is-proved)
5. [Where the code and its documents disagree](#5-where-the-code-and-its-documents-disagree)
6. [What is not modelled](#6-what-is-not-modelled)
7. [Plan](#7-plan)

## 1. The system

Nexus watches a city's signalised intersections, detects incidents, proposes mitigations
(green-time extensions at neighbouring signals), and executes them after a human approves,
inside constraints an independent verifier enforces.

| Component | State | Operations that change it |
|---|---|---|
| Decision loop (`engine.py`) | mode; plans by id; `_monitoring` (plan, snapshot, since, alerted); the timing plan of each intersection | `recommend`, `approve`, `reject`, `rollback`, `expire_advisories`, `check_rollback_monitors`, `_prune_plans`, `set_mode`, restart |
| Constraint verifier (`safety.py`) | `_active_changes`: intersection → plan (R6) | `register_active_change`, `clear_active_change` |
| Rulepacks (`rulepacks.py`) | none: predicates over a timing | — |
| Governed settings (`engine.py`, `safety.py`, `store.py`) | mode and confidence threshold, in memory and in the `kv` table | `set_mode`, `set_confidence_threshold`, start |
| Audit trail (`audit.py`) | `_entries`, the verification cursor and its latch, `audit_entries` rows | `record`, `verify_chain_cached`, start |
| Certificates (`certs.py`) | the signing key, the current and retired key rows | `issue`, `rotate_key`, start |
| Incident detection (`engine.py`, `graph.py`) | incidents in memory, `_correlated_911` | `_raise_incident`, `correlate_911`, `acknowledge_incident`, `resolve_incident`, `_prune_incident_memory` |
| Community (`community.py`) | reports, profiles, comments (all in the store); throttle | `report`, `confirm`, `moderate`, `comment`, `update_profile` |
| Copilot (`copilot.py`, `llm.py`) | NL query limiter | `generate_plan`, `_llm_refine`, `answer_query` |
| Vision sweep (`vision.py`) | rotating cursor, the congestion it measures | `sweep_once` |
| Event hub and push (`engine.py`, `server.py`, `ui/index.html`) | event counter; per stream the last counter seen; in the browser a pending refresh, requests under way and the number of the latest | `emit_event`, `wait_for_event`, `_sse_stream`; `connectEvents`, `refresh` |
| Telemetry bus (`bus.py`) | topics and dead letters | `publish`, `subscribe` |
| Congestion estimator (`congestion.py`) | samples and estimates per intersection | `ingest_vehicles`, `ingest_flow`, `ingest_waze_jams`, `compute`, `apply` |
| Live feeds and adapters (`livedata.py`, `adapters.py`) | one cache per feed with its backoff and refresh lock; last positions of buses | `_Cached.get`, `poll_transit` |
| HTTP server and runtime (`server.py`) | when the flow feeds were last read; everything else by reference | `tick`, one handler per route |
| Security (`security.py`, `cfaccess.py`) | token buckets per address; signing keys of the provider; `engine.users` | `IPRateLimiter.check`, `verify`, `_principal` |
| MCP, simulation, analytics, road geometry, NTCIP, evidence export | none that others depend on | — |

**How they interact.** `ThreadingHTTPServer` gives every request its own thread. A tick
thread wakes every three seconds and runs adapters, sensors, 911 correlation, expiry of
advisories and settlement of changes, in that order (`/api/tick` and `/api/scenario` run the
same code in a request thread). A daemon thread runs the vision sweep. They share the
engine's objects by reference. The engine's lock covers single dictionary operations; no
operator handler holds it from its first check to its last write. Persistence is
write-through: memory first, then SQLite, after which nothing in memory is undone if the
write fails. A restart reloads the audit trail, the governed settings, keys, profiles and
reports, and nothing else: plans, monitors, bookings and incidents are gone, and signals
come back with their configured timing.

**What is hard.** Check and act are far apart: the R6 check and the booking, the status
check and the status write, the look for an active incident and its insertion (a camera
fetch or a model call in between). A rollback writes back a snapshot and verifies nothing.
A settled change stays executed and can be rolled back months later, over newer changes.
Two writes that belong together can be separated by a crash. A plan may name one signal
several times, because the language model may (`copilot.py:268-294`). `PROJECT.json` lists each
hazard at its line together with the properties aimed at it.

**What makes each component correct.**

- *Decision loop*: timing changes only with an approved plan that names the signal, under
  the mode that allows it; a booking always has someone who will give it back, and is given
  back; a booked change is the topmost one on its signals, so that a rollback takes back what it
  put there (all of it, if the plan names the signal once); an alerted change is held for the
  operator; an unconfirmed advisory lapses.
- *Verifier and rulepacks*: the limit of concurrent changes holds over all operators; no
  order of changes and rollbacks leads a signal out of the rules - beyond what a plan that
  names the signal several times does by itself, as the engine applies it at every mention
  and verifies it once (section 5); green is not taken from a signal an emergency vehicle
  depends on, except by a rollback.
- *Settings*: what is in force is what the store holds, whenever no call is under way; every
  start succeeds.
- *Evidence*: nothing is lost while writes succeed; a loss is bounded and shows; the cached
  verification says what the full one says; issued certificates verify after rotations and
  crashes.
- *Access*: a withdrawn signing key does not outlive its cache while the provider answers, a
  new one works at once; only an administrator's request changes what is governed; a citizen
  reaches nothing but the community; the limiters let no more through than they promise.
- *Sensing*: a failing feed is left alone; no single minority source moves an estimate; what
  keeps the simulated sensors out rests on samples stamped recently; some tick always reaches the
  settlement of changes.
- *Recommendation*: nearest intersections first; the planner model's opinion of its own plan
  moves the score by little; every camera gets its turn.
- *Push and handover*: a change reaches every connected console, which never steps back; of
  the incidents there when it began, the shift report leaves out only those detected before its
  window and resolved, those reopened while it was made, and those beyond its page.
- *Incidents and community*: a report joins or makes exactly one incident, and only if
  somebody upheld it; standing is backed by upheld reports; detectors do not duplicate.

## 2. The modules and the code

| Module | What it is |
|---|---|
| `GovernedSignals` | Abstract specification: what the platform promises about signal timing, with no mechanism at all. |
| `PlanLifecycle` | The decision loop, one action per whole handler. |
| `PlanProperties` | Its invariants and action properties, the sentences of the documents it breaks, and the mapping to `GovernedSignals`. |
| `PlanProofs` | Proofs for `PlanLifecycle`: invariants, action properties, the refinement of `GovernedSignals`. |
| `ApprovalThreads` | The same handlers cut at every read and write of shared state that another thread can come between. |
| `ThreadProperties`, `ThreadProofs` | What survives the interleavings and what does not; proofs of the former. |
| `GovernedSettings` | Mode and threshold, memory and store, crash and start. |
| `TimingRules` | Both rulepacks and the operations as operators over a timing, in tenths of a second. |
| `SignalTiming` | One signal under those rules: verified changes, unverified rollbacks, emergency vehicles. |
| `TimingProofs` | Proofs for the two. |
| `EvidenceChain`, `EvidenceProofs` | Audit trail and certificates, with a failing store, crashes and key rotation; proofs about both. |
| `IncidentReports`, `ReportProofs` | Detection, 911 correlation, citizens' reports and moderation around slow calls; proofs of what is shown, credited and raised. |
| `VisionSweep` | Which cameras a sweep looks at, and the congestion its frames set. |
| `Recommendation`, `RecommendationProofs` | A recommendation in two steps, the planner model's answer in between, over a city `VisionSweep` and the traffic change. |
| `FeedCache` | One cached upstream feed and the threads that ask it. |
| `CongestionEstimator` | Samples, weighted median, estimates and their freshness, as operators over the two tables. |
| `LiveSensing`, `FeedProofs` | The platform's tick, on the background thread and on request threads, composed of the two; proofs about a failing feed, outliers and the age of what is protected. |
| `Roles` | The five roles. |
| `AccessKeys` | Signing keys: cache, rotation, outages; the role an assertion earns. |
| `AccessGateway` | `AccessKeys` and `GovernedSettings` composed: a governed change from its assertion to the store. |
| `RequestRoutes` | Every route of the server and tool of `/mcp`: who may use it and what it may answer. |
| `RequestLimits` | The token bucket of an address and the copilot's window of questions. |
| `PushChannel` | From a change to the browser's incident queue. |
| `ShiftHandover` | The handover report's two looks at the incidents. |
| `GatewayProofs` | Proofs for the gateway with its two parts, the routes, the limiters, the push channel and the report. |
| `MC…` | Instances for TLC, one per specification. |

`PROJECT.json` maps every definition to the lines it stands for. Names follow the source.

**PlanLifecycle.** `active` is `_active_changes`, `monitor`/`age` the monitoring entry of a
plan and the time since its execution (or issue), `prev` the plan's `previous_timing`,
`timing[i]` the seconds added to the configured plan of `i`. `Proposals` is what the planner may
come up with: a list of signals, in which one may occur several times, and what one application
of the plan's operations adds to each. `Recommend` runs the gate on one of them and prunes the
table. Verification counts every mention against R6 and one application against the timing
rules; execution applies the operations at every mention and keeps the record of the last one
(`Captured`), so a rollback leaves the earlier applications behind. `ApproveBlocked`, `ApproveShadow`,
`ApproveAdvisory` and `ApproveLive` are the four ways `approve` ends; `CheckMonitors` is one
pass over all monitors, settling those due and alerting those seen to worsen. The timing
rules are one number here, `Headroom`. That is justified by `ExtensionNeedsRoomOnly` and
theorem `ExtensionLegal`: for a legal timing whose phases do not conflict with themselves, a
green extension is legal exactly when it fits under the longest cycle and the longest phase.

**ApprovalThreads.** `at[t]` is the next thing thread `t` will do. A locked section is one
step; everything else another thread can see separately is a step of its own. In particular
`mode` is compared twice (`engine.py:869` and `:876`), bookings are written one by one, and
rollback and settlement clear by signal, not by plan. The keys of `previous_timing` come in the
order in which the plan names them first (`InOrder`, the n-th first mention being the one with n
first mentions up to it).

**SignalTiming.** A change is applied only if `VerifySignal` holds (R1–R5 on the result of one
application, R7 if an EMS corridor is active, R0 for its operations). It is then applied once for
every mention of the signal (`Visits`: one per operation, as in the language model's plans, whose
operations all extend green), and the timing before the last application is recorded. Lists
with other operations, which today's planners never make, are applied once. A
rollback may take back any executed change, in any order. `OperationsAreTyped` says what an
operation holds: an intersection, a phase, a type and a number of seconds; unknown phases and
types are allowed.

**EvidenceChain.** An entry's hash is its identity, so tampering is outside the model: the
chain can only break through the program's own failures. What is loaded is the rows in the
order of their `seq` (`Loaded`: the n-th is the one with n rows up to it). `Record` is memory first, then a
store write that succeeds, is refused for a duplicate `seq`, or fails. Key rotation is two
steps with a possible crash between them.

**IncidentReports.** Each handler is split at its slow call, and the reputation update at its
read and write. A restart loses incidents and calls under way; `cutOff` remembers which
reports it interrupted, and exists only for the properties. A dispatch feed brings one new
dispatch at a time.

**GovernedSettings.** Both setters have one shape and are one action for a setting. The store's
write may raise after memory has changed: then the caller gets a 500, nothing is recorded in
the audit trail, and `unsaved` remembers that memory and store differ.

**Recommendation.** `Generate` is `generate_plan` up to the call of the language model, `Gate`
the rest of `_llm_refine` and `SafetyGate.evaluate`; traffic and sweeps move between the two.
The list of candidates is the head of `cascading_impact`'s list, whose order is by minutes to
gridlock and, among equals, by the search. What the gate keeps of the model's answer is the set
of its accepted operations, whose order nothing depends on. The rules' verdict is a Boolean, because
`TimingRules` and `PlanLifecycle` are about it.

**LiveSensing.** The tick is five steps (`Capture`, the poll, `Prune`, `Sense`, `Publish`,
`Settle`); threads interleave between them, because nothing locks a tick. `Torn` is an
iteration that may raise in one thread when another changes the size of the table: over
`graph.vehicles.items()` in the pruning, over samples and estimates in `compute` and `fresh_ids`.
The thread's tick then ends early, as `_loop` catches what it raises. What a thread broken off in
`compute` had ingested by then is not kept in the model. A fix is a time, or `Untimed`: the adapter
stamps one without a time with that of the poll, at every poll that gets it (`Stamped`). How far a
bus came between two fixes is free, so it may stop as well as go on. The
poll is `FeedCache`'s call, cut where `_Cached.get` lets go of its lock. Times count back from
now and stop beyond the bounds they are compared with, so the clock is not bounded. A source is a
pair of its kind and its id, as the code's keys (`"bus:…"`) are; the weighted median counts each
source as often as it weighs (`Expanded`), as the code's expansion does.

**AccessGateway.** `_load_jwks` fetches under its lock, so a look-up is a step; a request that
governs is two (identity, then handler). In between keys and settings may change, and requests of
other routes, on any number of threads, look up keys and enter their subjects into the table of
users (`Identify`). A crash
empties the key cache and the table of users; the role lists come from the environment.

**RequestRoutes.** The routes, which of them answer with which codes other than 200, the gate
for citizens, and the roles a route asks for itself or through `_require`. The state is the
last answer.

**RequestLimits.** Requests and questions are counted by age: `counts[t]` is how many are at most
`t` steps old, which is what the bucket's promise and the copilot's window ask about.

**PushChannel.** Handlers change state first and signal later, so `owed` counts what has yet to
be signalled. `flights` holds the refreshes under way in the order of their requests, answered
in any order; `latest` is whether the last of them still bears the number the browser waits for.

**ShiftHandover.** `ReadOpen` and `ReadResolved` are the report's two looks: at all active incidents,
then at those *detected* in its window, of which a page is read and the resolved ones are kept.
`known`, `cut` and `reopened` exist only for the property.

**MCAccessGateway** runs five machines that share no state beside one another: `part` picks one
at the start. No property relates two of them, so nothing is lost against their product, and one
run replaces five.

## 3. What the runs check

"States" are distinct states; no run takes more than two minutes on two workers. "Bounds" says why the instance is large enough.

| Run | States | Checks | Bounds |
|---|---|---|---|
| `plan_bookings` | 2 890 272 | Bookings are owned by monitored executed plans, the limit holds, the booked change is on top, a timing or record is beyond the rules by the repeated visits of a single plan at most, and only the rollback of a *settled* plan takes a booking from another change. | Three plans on three signals whose lists nest and overlap, one of them `<<i2, i2>>`: the least in which a third plan can take what a rollback wrongly freed, and in which breaches of two plans could add up. Limit 2 and headroom 2 are both reached, and headroom is exceeded by a repeated mention. Window 0, cap 1: the ages in which due and alerted differ. |
| `plan_promise` | 116 700 | The loop implements `GovernedSignals`; every booking is given back, also that of an alerted change; advisories lapse; duplicates arise only by reopening. | Two plans, two incidents of one kind, a table of one plan so that pruning happens; a list that names a signal twice with another between, for which the limit is 3. |
| `threads_one_operator` | 167 853 | Next to a tick and mode changes, one request at a time leaks no booking and leaves every monitored change able to be rolled back. | Four plans: two share a signal, one is alone, one names no signal. Headroom 1: the second extension is refused. |
| `threads_two_operators` | 4 811 538 | With two requests in flight an executed plan has the prior timing of all its targets on record, and the limit is overrun by the targets of one plan at most. | Limit 1, three plans on three signals: the overrun happens. |
| `timing_rules` | 457 676 | R1 with R5 leave exactly the band of 10 to 120 seconds; only room stops an extension; a timing outside the rules is the configured one, or legal without the repetitions of one list of operations; only a rollback takes green from an emergency vehicle. | 256 configured timings at and over the edges of the rules, legal and not; nine lists of operations (unknown phase and type among them, and one of two extensions, applied twice); four changes. |
| `evidence_chain` | 43 035 | Each failing write costs at most one entry per start; a loss followed by a stored entry breaks the stored chain; cached and full verification agree; issued certificates verify. | Six entries, two failures, three starts, two keys: the seq left free by a failure is hit again after a restart, twice. |
| `incident_reports` | 4 913 176 | What is shown of a report is what was decided; standing is backed by upheld reports; the detecting thread and the 911 feed raise nothing twice. | Two uploads, two incidents, a moderator, a detector, two dispatches over a dedupe bound of one (so that the cut forgets), one restart. |
| `recommendation` | 84 640 | While traffic and sweeps change what it reads: only the nearest intersections are worked at; the model's answer lifts the score by ten points at most; every camera is swept, if not every sweep is filled by congested ones. | Four intersections, one of them two hops away behind a gridlocked or free one; answers with unknown targets, doubled ones, too many, too long and too short; four cameras, two a sweep. |
| `live_sensing` | 1 648 336 | A failed feed is left alone for its backoff; no minority source moves an estimate out of what the others say; what is protected rests on samples stamped at most two windows ago; a real estimate overwritten in a race comes back; some tick always reaches expiry and settlement. | The loop's tick and a requested one; a live bus, a simulated one and a loop detector (weights 1, 1, 3: a minority and a majority); fixes of every age the pruning tells apart and fixes without a time; every window one unit, so that a sample and an estimate made of it outlive it one after the other. |
| `access_gateway` | 476 085 | Outside a call, settings in force are those a restart brings back, save after a failed write; withdrawn keys do not outlive the cache and new ones work at once; only administrators govern; citizens are confined; limiters keep their promise over any span; of what was in memory the report omits only what was detected before its window and resolved, reopened meanwhile, or beyond its page; a console never steps back; every change is fetched. | Two keys, a TTL of two; subjects of four kinds, one a service token that is listed as a citizen; bucket and windows small enough to fill, empty, idle out and be dropped; two changes, two refreshes under way, one lost connection; three incidents over a page of two. |
| `doc_…` | | Two sentences of the documents, each violated; section 5. | |

**Symmetry** is used only where no liveness is checked: request threads in
`threads_two_operators`, uploads and dispatches in `incident_reports`.

**Deadlock** checking is off where the bounds on plans, entries or uploads let a run end, and on
in `recommendation`, `live_sensing`, `access_gateway` and `doc_restart_succeeds`.

**Fairness.**

- `plan_promise`: time passes, and `expire_advisories` and `check_rollback_monitors` are called
  again and again. This assumes ticks that get that far infinitely often; `SettlementRecurs` of
  `live_sensing` is that assumption, shown for the tick itself.
- `live_sensing`: the loop of `server.py:271-277` starts a tick again and again, a thread in the
  middle of one takes its next step, and a fetch ends, by success or failure (it has a
  timeout). Feeds may fail for ever, request threads need not exist, and a requested tick may
  break into the loop's (at most `MaxRequests` times).
- `recommendation`: the sweep's daemon thread goes on. `EveryCameraSwept` asks in addition that
  again and again a sweep is not filled by congested cameras, without which the code starves
  the others by design.
- `access_gateway`, push channel only: threads that are not stopped go on, the browser's timers
  fire, and what is requested is read and answered. Nobody has to poll or to connect again.

No operator is ever assumed to act, and no request to be made.

**Mutants.** Every property of a passing run has a broken variant of a mapped definition (a
definition named `Bad…`, used by nothing) under which TLC finds it violated: a dropped
guard, a forgotten reset, a wrong count. They are listed in `PROJECT.json`.

**Stated, not run.** Type invariants and `WorkzoneByCycleAndClearance` are proved (section 4).
`TimingWithinRules` and `LegalOrConfigured` are proved of planners that name no signal twice in
one plan, and false otherwise (section 5); `AlertHeldForOperator` is proved as well.
`BalanceLostOnlyByOddRollback` and `NothingForgotten` hold on the instances of `plan_bookings` and
`evidence_chain` (add them to the configuration to see it), but say little that the run's other
properties do not. The sentences under "met while modelling" in section 5 stay there as well.

## 4. What is proved

TLAPS checks all of these for every value of the constants under the modules' assumptions
(finiteness of the sets of signals, feeds and threads, a longest plan, natural bounds, revert window not above the hard cap;
configured timings are timings; the types of keys, roles and scores; defaults are governed values).

- **`PlanProofs`.** `IInv` is the four invariants of `plan_bookings` together with `TypeOK` and
  two facts about plans: one is absent exactly when its number has not been given out, and only
  executed plans are monitored. Apart from `TypeOK` they lean on one another: that a rollback
  keeps a timing explained needs the recorded timings to be, that a settlement frees only its own
  bookings needs ownership, that the limit survives an approval needs the count of the new
  bookings (`BookingCost`). There is one lemma per handler, `NextIInv` collects them, and
  `Inductive` concludes. From it follow `TypeCorrect`, `RegistrationsAreOwned`,
  `BudgetNeverExceeded`, and two that hold for planners of every kind, those that repeat a signal
  included: `BreachesNeverAddUp` (a timing is beyond the headroom by the unverified visits of one
  plan at most) and `BookedIsTopmost` (the record of a booked change is one application below the
  street, which is the prior timing only if the plan names the signal once). `RulesAlwaysHold`
  draws the conclusion for planners that repeat none, as the deterministic one: no visit is
  unverified, so the rules hold. `BookingsKept` and `AlertsAreHeld` are action properties.
  `DuplicatesComeFromReopening` needs next to `IInv` that every plan is about an incident that is
  known. `PromiseKept`, `Spec => KeepsPromise`, maps every handler to one abstract step or a
  stutter, in the states `IInv` allows.
- **`TimingProofs`.** `ExtensionLegal` (see section 2), and `RulesBrokenByRepeats`: however
  changes and rollbacks are ordered, a timing that is not legal is the configured one, or becomes
  legal when repeated applications of one list of operations are taken off. If no plan names a
  signal twice there are none, and the signal runs a legal timing or the configured one
  (`RulesOrConfigured`, under that assumption). The invariant (`TimingsSound`) says that the current
  timing and every recorded one differ from the configured timing in greens and cycle only, and
  each is of one of these three kinds; without the first half a rollback, which writes back greens
  and cycle only, could mix two timings into a third. `WorkzoneVerdict`, `GreensStayInBand` and `RoomDecidesExtensions` follow from the same
  invariant; `EmsPriorityHolds` is the action property that only a rollback takes green or cycle
  from a signal an emergency vehicle depends on. What a list of operations does to a phase is a
  sum over the operations that name it; that the sum is what one expects is proved by the
  smallest subset for which it would not be.
- **`EvidenceProofs`.** `CertificatesVerify`: with the key kept in the store every issued
  certificate is verified by the current or a retired key, through crashes between the two
  writes of a rotation. The invariant: each of them is in the store, as current or
  retired, the key in memory is the stored one while the process runs, and it is retired before
  it is overwritten. The assumption `EnvKey = NoKey` is needed (section 5).
  `TrailLossesBounded`: a failed append passes a `seq` over, and a later start numbers on from
  the number of rows, so that records run into rows that exist. The invariant (`LossInv`): no
  more numbers are passed over than writes failed, and the entries lost together with the rows
  still ahead of the trail are at most failures times starts.
  `TrailLossShows`: every entry in memory is stored or lost, and what followed a lost one links
  to it (`MarkInv`), which no row before it matches. `CachedVerificationAgrees`: what lies behind
  the cursor links up, or the latch is set and two entries do not (`CursorInv`).
- **`GatewayProofs`.** `KeysAreFollowed`: the invariant is that every cached key was served when the
  cache was filled, so it has been withdrawn for no longer than the cache is old (`withdrawn[k]
  <= jwksAge`), for any TTL, rotations, outages and restarts. `AdminsGovern`: a request past the gate carries the
  role its subject has in the lists, and the table of users agrees with them for everybody in
  it; so when `_require` reads `users`, whoever wrote it, it reads the lists.
  `GovernedIsDurable`: assumes one administrators' thread; a pending call is the only thing
  that sets memory and store apart. With two threads it fails (section 5).
  `QueueMovesOn`: what is shown and what refreshes have read are states of some
  earlier time, and the latest request, while it is under way, is not read yet or was read no
  earlier than what is shown; it alone may replace that.
  `ReportComplete` (the `HandoverOmissions`): between the two looks, an incident the first did not
  list as open is resolved, has left memory, or was reopened; the second leaves the resolved ones
  out that were detected before the window, and those beyond its page.
  `CitizensAreConfined`: what the gate leaves a citizen are two exceptions and the community
  routes, and those of a moderator refuse the role (`CitizenRoutes`, over every route and
  method). `AdmissionsAreBounded`: for every span of time, what is in
  the bucket and what was let in during the span are paid for by a full bucket and the refill
  (`BucketPays`); dropping an idle bucket gives nothing away, because it would be full.
- **`ThreadProofs`.** Three invariants over the interleavings. `ReversibleInv`: while a thread is
  on its round of a plan's targets, its snapshot and the signals still to visit are together
  those targets (`ExecutedReversible`). `ReachInv`: the booked signals, together with those of
  every plan past its verification, exceed the limit by the longest plans of all threads but
  one; a verification counts its own plan with what is booked then, every other thread
  adds one plan at most, and no other step adds to the union (`OverrunIsBounded`; with one
  thread nothing is added, hence `OneOperatorKeepsLimit`). `WatchedInv`, for one request
  thread: a plan it is deciding on is not monitored yet (`OneOperatorCanRollBack`). `LeakInv`,
  also for one: a rollback on its round has every booking of its plan still ahead of it, and
  past its round none is left (`OneOperatorLeaksNothing`). It rests on what `InOrder` returns:
  exactly the recorded signals. With two threads these two fail
  (section 5).
- **`ReportProofs`.** `ReportsShownAsDecided` and `StandingBacked` assume one moderator, because
  two may publish one report twice (section 5); citizens, request threads and uploads are any
  number. `DecisionInv` says of every report no restart cut off how its row, the incidents it is
  shown on and the one call that works on it fit together. `CreditInv` counts the reports whose
  credit is written: neither a profile nor the copy of it that a call holds between its read and
  its write shows more, so a lost update loses credit and makes none.
  `OneDetectorNeverDuplicates` assumes one ticking thread, and any number of moderators: between
  its look and its insertion nobody else raises what detectors raise, and a resolved incident
  does not become active again.
- **`FeedProofs`.** `FailingFeedLeftAlone`: while a failure cools, no caller newly misses the
  cache; the hasty fetches made and the callers that had missed it before are together fewer
  than the callers, because the failure itself used one up.
  `MinoritiesMoveNothing`: a median lies between the least and the greatest ratio of the sources
  other than any one that weighs less than they do (`MinorityOfKth`, by counting who says less
  than all of them and who does not say more), and congestion falls with the ratio. The invariant
  is that an estimate made now is what the samples say, although other threads may have sensed
  since: samples are only added then, and a source weighs what its kind does, so the estimate is
  made again.
  `ProtectionRestsOnEvidence`: an estimate in force rests on a sample stamped at most one window
  before it. The stamp is the time of the fix where the feed gives one, and that of the poll where
  it does not; in the second case the theorem says nothing about the age of the fix (section 5).
- **`RecommendationProofs`.** `LiftIsBounded`: certainty starts at 52 at least, and the mean
  with the model's number lifts it by 24 at most, which weighs 40 %. `NearestAreServed`: a
  hop takes four minutes, halved by congestion at worst, so one hop is never behind two
  (`NearerIsAhead`); the candidates are the nearest ones, and what the gate accepts of the
  model's answer works only at candidates.

**Only model-checked:** everything under fairness (`BookingReleased`, `AdvisoryLapses`,
`EveryCameraSwept`, `SettlementRecurs`, `RaceHeals`, `ChangeIsFetched`), because TLAPS proves no
liveness here and nothing about ENABLED. Every other property of a passing run is a theorem.
Where a definition counts or adds up a finite set, what it returns is proved from the smallest
exception, as no theorem of the library that takes a predicate can be used; no module a theorem
is about has a recursive operator.

## 5. Where the code and its documents disagree

Shown by a run:

- `doc_one_change_per_intersection`: rolling back a settled plan clears the booking of the
  change now on that signal (`engine.py:1028`), so a third can join it (PRD_v2.md:234).
- `doc_restart_succeeds`: restoring a stored threshold assigns to a property without a
  setter, so the start raises (`engine.py:106`, README.md:268).

Met while modelling, stated in the modules or visible by changing a bound, with no run of
their own:

*Decision loop and threads*

- The two mode comparisons of `_execute` (`engine.py:869`, `:876`) let a switch from Advisory to
  Shadow execute a change that was never Live: mode Advisory, an approval passes the first
  comparison with Shadow, an administrator sets Shadow, and the second comparison, with
  Advisory, falls through to the write (`NeverLiveNeverTouched`; `engine.py:863` says
  "Shadow: log only").
- Two approvals verified on one snapshot of the bookings (`safety.py:131`) exceed the limit of
  five changes (PRD_v2.md:303; `R6Budget` with two request threads). `OverrunBounded` says by
  how much.
- A rollback of a settled plan under a newer one leaves an extension behind
  (`RollbackLeavesNothingBehind`, README.md:384).
- The language model may name a signal in two operations, and the plan then lists it twice
  (`copilot.py:268-294`). `verify` applies both operations once and judges the result
  (`safety.py:149-176`); `_execute` applies both of them at each of the two mentions and keeps as
  `previous[target]` what the second mention found (`engine.py:887-903`). So the street runs a
  timing nobody verified, which may break R1-R5 without any rollback (`TimingWithinRules` on
  `plan_bookings`: one plan `<<i2, i2>>` with headroom 2, executed, rolled back to what its first
  visit left, proposed and executed again; `LegalOrConfigured` on `timing_rules`), and a rollback
  leaves the first application behind (`RevertRestoresPrior`, `RollbackLeavesNothingBehind`;
  README.md:384). The breach stays that of a single plan: `RulesBrokenOnlyByRepeats`.
- Approving a plan of a resolved incident reopens the incident
  (`OneActiveIncidentPerKind`, `engine.py:296`).
- Settled plans are never pruned (`PlanTableBounded`, `engine.py:953`).
- A reject racing an approve strands a live change; two approvals and a rollback of one plan
  leak a booking (`WatchedCanBeRolledBack`, `NothingLeaks` with two threads).
- A rollback shortens green while an emergency vehicle depends on the signal
  (`EmsPriorityKept`, MASTER_PROMPT.md:51).
- R4 is checked pair by pair (`rulepacks.py:158-183`), so three mutually conflicting phases
  may pass without fitting the cycle.

*Settings, evidence, reports*

- Two administrators may order memory and store differently (`QuietIsDurable` with two
  threads). A store write that raises leaves the new value in force, answers 500 and records
  nothing in the audit trail.
- With `NEXUS_CERT_KEY` set, a rotation followed by a restart goes back to the variable's key
  and forgets the fresh one, which was never retired: its certificates no longer verify
  (`certs.py:16-17`; set `EnvKey` to a key in `evidence_chain.cfg`).
- The trail is loaded but not re-verified on restart (`audit.py:16`); after one failed append
  the first record after every later start is refused for its duplicate `seq`.
- A report may duplicate an incident added while the vision model was thinking
  (`ReportsNeverDuplicate`, `community.py:14-15`); two moderators may publish one report
  twice; two detecting threads may raise one incident twice.

*Recommendation*

- `cascading_impact` returns "nearest-first" (`graph.py:161-162`) only up to two hops: it sorts by
  minutes, and with its default of three hops a gridlocked intersection three hops away comes
  before a free one two hops away. The copilot asks for two.
- The weather is never absent, so the verdict for missing provenance cannot be reached; a feed
  that never reported is cited as if it had just done so (`copilot.py:172-177`).
- Coverage is scored for the copilot's targets, not for those the model puts in their place
  (`copilot.py:291`).

*Sensing*

- A fix that the feed does not date is stamped with the time of the poll (`adapters.py:381`), at
  every poll that gets it. The cache answers with its last value while the feed fails
  (`livedata.py:325-337`), so through an outage such a fix is as new as can be: its vehicle is not
  pruned, its speed is ingested again, and an estimate made of it keeps the edge sensors out for as
  long as the outage lasts. `EvidenceBounded` bounds the age of stamps, not of such fixes.
- The offline adapter's simulated buses, which replace a live feed without fixes, are ingested
  as probes like real ones, and their estimates keep the edge sensors out.
- A bus at rest contributes nothing and its maximum is kept for a window (`congestion.py:151-163`),
  so a queue of standing buses looks like the traffic before it; the maximum may be older than
  the window, because the time of a sample advances with every reading.
- `tick` refreshes the feed's freshness whether or not the poll brought anything, which hides an
  outage from the gate's freshness check.
- An anomaly's congestion is overwritten in the same tick by an estimate that still stands.
- One loop detector, at weight 3, is an estimate of its own although `min_samples` is
  documented as a number of distinct sources.

*Access, push, handover*

- `/api/events` is closed to citizens, so the community page's `EventSource` never connects, and
  its poll is all it has (README.md:272: "every signed-in console").
- `GET` handlers do not map `PermissionDenied`; `get_audit` of `/mcp` is refused to operators
  although `GET /api/audit` answers them.
- The report's `resolved_in_window` is filtered on the time of detection (`server.py:888-905`),
  so an incident detected before the window and resolved in it is in neither list; nor is one
  reopened between the two looks, or one beyond the page of fifty, which counts active incidents
  as well. These are the cases `HandoverOmissions` allows.
- Only the incident queue has a sequence number: the status and the grid may step back.

## 6. What is not modelled

- *Telemetry bus*: `publish` calls its handlers in a loop; its dead letters are read by nobody
  the platform starts.
- *Language model client, parsers of the other feeds, loading of a topology, SQL, rendering,
  token cryptography, NTCIP and evidence exports*: I/O or pure conversion with no state that
  others depend on. What the language and the vision model answer is a free choice among the
  outcomes the code distinguishes; whether an assertion verifies is one Boolean.
- *Simulation, analytics, road geometry*: numeric estimates that are shown and used by nothing.
- *Of the decision loop*: notes, contacts, history sampling, the list of alerts. *Of the
  community*: the throttle, comments, profiles their owner edits, the nearby feed. *Of the
  copilot*: texts, injection patterns, and the history of outcomes behind its accuracy, which
  is a free choice in `Recommendation`. *Of the gate*: counters of the verification metrics.
- *Payloads of read routes* beyond the handover report.
- *Floating point*: durations are whole tenths and scores whole thousandths, as every operation
  the planner makes is; comparisons within a rounding error of an edge are out of reach.
- *Dictionary iteration raising* when another thread inserts, except in `LiveSensing`, where it
  decides whether a tick gets to its end.

Hazards no property covers are in `PROJECT.json` with a note; the traces behind them are above.

## 7. Plan

Done: `GovernedSignals`, `PlanLifecycle` with its proofs and refinement; `ApprovalThreads`;
`GovernedSettings`; `TimingRules` and `SignalTiming`; `EvidenceChain`; `IncidentReports`; then
`Recommendation` over `VisionSweep`; `LiveSensing` over `FeedCache` and `CongestionEstimator`;
`AccessGateway`, `RequestRoutes`, `RequestLimits`, `PushChannel` and `ShiftHandover`.

Next, extending the model: the community throttle and comments; a second kind of incident and
a second place in `IncidentReports`, at fewer uploads; the accuracy of past recommendations
as a function of outcomes, composed with `PlanLifecycle`; several feeds in `LiveSensing`;
lists of mixed operations at several mentions in `SignalTiming`, should a planner come to make them.

Next, proving: that `ApprovalThreads` with one request thread implements `GovernedSignals`, for
platforms that are not switched between Shadow and Advisory while a change is executed; and
`NothingForgotten` of the trail.
