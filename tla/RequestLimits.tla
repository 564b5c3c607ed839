---------------------------- MODULE RequestLimits ---------------------------
(***************************************************************************)
(* How much of it is let in: the token bucket of a client address, which   *)
(* every API request except the event stream pays into (platform/nexus/    *)
(* security.py, IPRateLimiter; server.py, _rate_ok), and the sliding       *)
(* window in which an operator may ask the copilot so many questions       *)
(* (copilot.py, _enforce_rate_limit).                                      *)
(*                                                                         *)
(* A bucket counts in units of 1/Window of a request, so that a step of    *)
(* the clock brings Capacity units and a request costs Window.  Addresses  *)
(* share nothing but the pruning of idle buckets: address is one of them,  *)
(* and the others are the Prune they cause.  What happened at which time   *)
(* is kept as counts: counts[t] is how many are at most t steps old.       *)
(***************************************************************************)
EXTENDS Integers

CONSTANTS
  Capacity,     \* RATE_GENERAL_CAPACITY
  Window,       \* RATE_GENERAL_WINDOW_S, in steps of the clock
  PruneEvery,   \* 60 s, likewise
  IdleWindows,  \* windows after which an idle bucket is dropped: 4
  QueryWindow,  \* RATE_LIMIT_WINDOW_S, in steps of the clock
  MaxQueries    \* RATE_LIMIT_MAX_QUERIES

ASSUME LimitAssumption ==
  {Capacity, Window, PruneEvery, IdleWindows, QueryWindow, MaxQueries}
    \subseteq Nat \ {0}

VARIABLES
  units,       \* in the bucket when it was last read; full without a bucket
  idle,        \* time since then, up to one over the pruning limit
  sincePrune,  \* time since _last_prune, up to PruneEvery
  admitted,    \* ghost: the requests let in, counted up to Window
  asked,       \* _query_times, counted; all of them at the age Ever
  answered     \* ghost: the questions answered, counted up to QueryWindow

limitVars == <<units, idle, sincePrune, admitted, asked, answered>>

Full == Capacity * Window
Stale == IdleWindows * Window
Ever == QueryWindow + 1

(* One more, just now. *)
Counted(counts) == [t \in DOMAIN counts |-> counts[t] + 1]

(* A step later. *)
Older(counts) ==
  [t \in DOMAIN counts |-> IF t = 0 THEN 0 ELSE counts[t - 1]]

LimitsInit ==
  /\ units = Full /\ idle = 0 /\ sincePrune = PruneEvery
  /\ admitted = [t \in 0..Window |-> 0]
  /\ asked = [t \in 0..Ever |-> 0]
  /\ answered = [t \in 0..QueryWindow |-> 0]

-----------------------------------------------------------------------------
AtMost(n, m) == IF n < m THEN n ELSE m

(* _maybe_prune: a dropped bucket is full when its address comes back.     *)
BadForgotten(n) == n > 0
Forgotten(n) == n > Stale

PruneDue == sincePrune >= PruneEvery

Kept == IF PruneDue /\ Forgotten(idle) THEN Full ELSE units

(* _refill, up to now                                                      *)
Refilled(n, t) == AtMost(Full, n + t * Capacity)

Level == Refilled(Kept, idle)

Pruned == sincePrune' = IF PruneDue THEN 0 ELSE sincePrune

Admit ==
  /\ Level >= Window
  /\ units' = Level - Window /\ idle' = 0
  /\ admitted' = Counted(admitted)
  /\ Pruned
  /\ UNCHANGED <<asked, answered>>

(* 429, with the time to wait for in Retry-After                           *)
Refuse ==
  /\ Level < Window
  /\ units' = Level /\ idle' = 0
  /\ Pruned
  /\ UNCHANGED <<admitted, asked, answered>>

(* A request of another address                                            *)
Prune ==
  /\ PruneDue
  /\ units' = Kept
  /\ idle' = IF Forgotten(idle) THEN 0 ELSE idle
  /\ Pruned
  /\ UNCHANGED <<admitted, asked, answered>>

-----------------------------------------------------------------------------
(* The times that have left the window are dropped from the front.         *)
Recent(times) == [times EXCEPT ![Ever] = times[QueryWindow]]

(* A question is counted before it is looked at: one that is refused as an *)
(* injection has used its place.                                           *)
Query ==
  /\ Recent(asked)[Ever] < MaxQueries
  /\ asked' = Counted(Recent(asked))
  /\ \/ answered' = Counted(answered)
     \/ UNCHANGED answered
  /\ UNCHANGED <<units, idle, sincePrune, admitted>>

QueryRefused ==
  /\ Recent(asked)[Ever] >= MaxQueries
  /\ asked' = Recent(asked)
  /\ UNCHANGED <<units, idle, sincePrune, admitted, answered>>

-----------------------------------------------------------------------------
Tick ==
  /\ idle' = AtMost(Stale + 1, idle + 1)
  /\ sincePrune' = AtMost(PruneEvery, sincePrune + 1)
  /\ admitted' = Older(admitted)
  /\ asked' = [Older(asked) EXCEPT ![Ever] = asked[Ever]]
  /\ answered' = Older(answered)
  /\ UNCHANGED units

LimitsNext == Admit \/ Refuse \/ Prune \/ Query \/ QueryRefused \/ Tick

LimitsSpec == LimitsInit /\ [][LimitsNext]_limitVars

-----------------------------------------------------------------------------
(* "general per-IP allowance" (security.py:29-31), whatever the requests,  *)
(* the refusals and the dropped buckets in between: no span of t steps     *)
(* lets in more than a full bucket and what t steps refill; and no span of *)
(* the query window gets more answers than the copilot allows.             *)
AdmissionsBounded ==
  /\ \A t \in 0..Window :
       Window * admitted[t] <= Full + t * Capacity
  /\ answered[QueryWindow] <= MaxQueries
=============================================================================
