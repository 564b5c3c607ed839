-------------------------- MODULE GovernedSettings ---------------------------
(***************************************************************************)
(* The operating mode and the confidence threshold: what the running       *)
(* engine uses, what the store keeps for the next start, and the calls of  *)
(* administrators that change both (platform/nexus/engine.py, set_mode and *)
(* set_confidence_threshold).  Each call writes memory first and the store *)
(* afterwards; two calls, or a call and a crash, interleave between them,  *)
(* and the write to the store may raise.                                   *)
(*                                                                         *)
(* The two handlers have the same shape and are one here, for a setting s: *)
(* values outside Governed[s] are refused (every mode is inside).          *)
(***************************************************************************)
EXTENDS Naturals

CONSTANTS
  Admin,      \* threads that serve administrators' requests
  Setting,    \* "mode" and "threshold"
  Value,      \* Value[s]: what a request may carry for setting s
  Governed,   \* Governed[s]: the values setting s may take
  Default     \* Default[s]: the value of a platform that was never set up

NoRow == "no row"

ASSUME SettingAssumption == "threshold" \in Setting /\ "none" \notin Setting
ASSUME DefaultAssumption ==
  /\ DOMAIN Default = Setting
  /\ \A s \in Setting : Default[s] \in Governed[s] /\ NoRow \notin Governed[s]

VARIABLES
  process,     \* "up", "down", or "failed": the last start raised
  memory,      \* engine.mode, safety.confidence_threshold
  stored,      \* the store's kv rows
  call,        \* per thread: the setting and value a call has yet to store
  unsaved      \* settings whose latest write to the store raised

vars == <<process, memory, stored, call, unsaved>>

None == [setting |-> "none", value |-> "none"]
Call == [setting : Setting, value : UNION {Value[s] : s \in Setting}]

TypeOK ==
  /\ process \in {"up", "down", "failed"}
  /\ DOMAIN memory = Setting /\ DOMAIN stored = Setting
  /\ \A s \in Setting : /\ memory[s] \in Governed[s]
                        /\ stored[s] \in Governed[s] \union {NoRow}
  /\ call \in [Admin -> Call \union {None}]
  /\ unsaved \subseteq Setting

(* What a start reads for setting s: the row, or the default without one. *)
BadRestored(s) == Default[s]

Restored(s) == IF stored[s] = NoRow THEN Default[s] ELSE stored[s]

(* A new store; what an earlier process leaves in it, Crash and Start show. *)
Init ==
  /\ process = "down"
  /\ stored = [s \in Setting |-> NoRow]
  /\ memory = Default
  /\ call = [a \in Admin |-> None]
  /\ unsaved = {}

BadInRange(s, v) == TRUE

(* CONFIDENCE_THRESHOLD_MIN .. MAX; OperatingMode(...) for a mode. *)
InRange(s, v) == v \in Governed[s]

(* The value takes effect, under the lock; an illegal one is refused.      *)
Apply(a, s, v) ==
  /\ process = "up" /\ call[a] = None
  /\ InRange(s, v)
  /\ memory' = [memory EXCEPT ![s] = v]
  /\ call' = [call EXCEPT ![a] = [setting |-> s, value |-> v]]
  /\ UNCHANGED <<process, stored, unsaved>>

(* set_kv, and the call returns. *)
Persist(a) ==
  /\ call[a] # None
  /\ stored' = [stored EXCEPT ![call[a].setting] = call[a].value]
  /\ unsaved' = unsaved \ {call[a].setting}
  /\ call' = [call EXCEPT ![a] = None]
  /\ UNCHANGED <<process, memory>>

(* set_kv raises; the request is answered 500, and nothing takes the value *)
(* back out of memory.                                                     *)
PersistFails(a) ==
  /\ call[a] # None
  /\ unsaved' = unsaved \union {call[a].setting}
  /\ call' = [call EXCEPT ![a] = None]
  /\ UNCHANGED <<process, memory, stored>>

(* The process dies with whatever calls it was serving. *)
Crash ==
  /\ process = "up"
  /\ process' = "down"
  /\ call' = [a \in Admin |-> None]
  /\ UNCHANGED <<memory, stored, unsaved>>

(* NexusEngine.__init__ assigns a stored threshold to the gate's property  *)
(* confidence_threshold, which has a getter and no setter: the assignment  *)
(* raises and the engine is not built.                                     *)
RestoreRaises == stored["threshold"] # NoRow

Start ==
  /\ process \in {"down", "failed"}
  /\ IF RestoreRaises
     THEN process' = "failed" /\ UNCHANGED <<memory, unsaved>>
     ELSE /\ process' = "up" /\ unsaved' = {}
          /\ memory' = [s \in Setting |-> Restored(s)]
  /\ UNCHANGED <<stored, call>>

Next ==
  \/ \E a \in Admin, s \in Setting : \E v \in Value[s] : Apply(a, s, v)
  \/ \E a \in Admin : Persist(a) \/ PersistFails(a)
  \/ Crash
  \/ Start

Spec == Init /\ [][Next]_vars

-----------------------------------------------------------------------------
(* No call is changing setting s. *)
Quiet(s) == \A a \in Admin : call[a].setting # s

(* "we restore exactly what an Admin last authorized" (engine.py:95-98):   *)
(* while the platform runs and no call is under way, the store would bring *)
(* back exactly the values in force, also after a crash in the middle of   *)
(* an earlier call.  Only a setting whose last call was answered with the  *)
(* store's error may differ.                                               *)
QuietIsDurable ==
  process = "up" =>
    \A s \in Setting \ unsaved : Quiet(s) =>
      memory[s] = IF stored[s] = NoRow THEN Default[s] ELSE stored[s]

(* "operating mode and confidence threshold are restored exactly as the    *)
(* last Admin authorized them" (README.md:268): no store an administrator  *)
(* leaves behind makes the next start of the platform fail.                *)
StartsAgain == process # "failed"
=============================================================================
