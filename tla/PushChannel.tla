----------------------------- MODULE PushChannel ----------------------------
(***************************************************************************)
(* How a change reaches a console (platform/nexus/engine.py, emit_event    *)
(* and wait_for_event; server.py, _sse_stream; platform/ui/index.html): a  *)
(* handler changes state and later signals it, a stream thread wakes and   *)
(* writes, the browser coalesces what it is told into one refresh, and     *)
(* several refreshes may be on their way at once, answered in any order.   *)
(*                                                                         *)
(* Of a refresh only the incident queue is here, and of the state only how *)
(* many changes there were.  The keep-alive every 20 s changes nothing.    *)
(***************************************************************************)
EXTENDS Integers, Sequences, SequencesExt

CONSTANTS
  MaxChanges,   \* bound on the changes
  MaxFlights,   \* bound on the refreshes under way
  MaxDrops      \* bound on the connections lost

ASSUME PushAssumption ==
  {MaxChanges, MaxFlights, MaxDrops} \subseteq Nat

VARIABLES
  version,    \* changes made
  owed,       \* changes made and not yet signalled
  stream,     \* "off"; "waiting" in wait_for_event; "writing" a frame
  news,       \* event_seq > last_seq
  message,    \* a data frame is on its way to the browser
  queued,     \* refreshQueued
  flights,    \* refreshes, in the order of their requests: what each read
  latest,     \* the last of them bears the number queueReqSeq
  shown,      \* the version the queue shows
  drops,
  newest,     \* ghost: the newest version a response brought
  promised    \* ghost: the newest change made under a standing stream

pushVars == <<version, owed, stream, news, message, queued, flights, latest,
              shown, drops, newest, promised>>
console == <<message, queued, flights, latest, shown, newest>>

NotYet == -1

(* connectEvents(); refresh()                                              *)
PushInit ==
  /\ version = 0 /\ owed = 0 /\ stream = "off" /\ news = FALSE
  /\ message = FALSE /\ queued = FALSE
  /\ flights = <<NotYet>> /\ latest = TRUE
  /\ shown = 0 /\ drops = 0 /\ newest = 0 /\ promised = 0

-----------------------------------------------------------------------------
Change ==
  /\ version < MaxChanges
  /\ version' = version + 1 /\ owed' = owed + 1
  /\ promised' = IF stream = "off" THEN promised ELSE version'
  /\ UNCHANGED <<stream, news, console, drops>>

Emit ==
  /\ owed > 0 /\ owed' = owed - 1
  /\ news' = TRUE
  /\ UNCHANGED <<version, stream, console, drops, promised>>

(* The stream starts from the events of that moment.                       *)
Connect ==
  /\ stream = "off" /\ stream' = "waiting"
  /\ news' = FALSE
  /\ UNCHANGED <<version, owed, console, drops, promised>>

(* wait_for returns at once for an event of before the wait.               *)
Wake ==
  /\ stream = "waiting" /\ news
  /\ stream' = "writing" /\ news' = FALSE
  /\ UNCHANGED <<version, owed, console, drops, promised>>

Write ==
  /\ stream = "writing" /\ stream' = "waiting"
  /\ message' = TRUE
  /\ UNCHANGED <<version, owed, news, queued, flights, latest, shown, drops,
                 newest, promised>>

(* The connection is lost with what is on it; the browser connects again.  *)
Disconnect ==
  /\ stream # "off" /\ drops < MaxDrops
  /\ drops' = drops + 1 /\ stream' = "off"
  /\ message' = FALSE
  /\ promised' = 0
  /\ UNCHANGED <<version, owed, news, queued, flights, latest, shown, newest>>

-----------------------------------------------------------------------------
BadCoalesced == queued \/ flights # <<>>
Coalesced == queued

OnMessage ==
  /\ message /\ message' = FALSE
  /\ queued' = (queued \/ ~Coalesced)
  /\ UNCHANGED <<version, owed, stream, news, flights, latest, shown, drops,
                 newest, promised>>

Request ==
  /\ Len(flights) < MaxFlights
  /\ flights' = Append(flights, NotYet) /\ latest' = TRUE
  /\ UNCHANGED <<version, owed, stream, news, message, shown, drops, newest,
                 promised>>

(* The 400 ms are over: from here on a message queues another refresh.     *)
Timer == queued /\ queued' = FALSE /\ Request

(* setInterval(refresh, 15000)                                             *)
Poll == Request /\ UNCHANGED queued

(* The server reads the incidents.                                         *)
Read ==
  \E n \in DOMAIN flights :
    /\ flights[n] = NotYet
    /\ flights' = [flights EXCEPT ![n] = version]
    /\ UNCHANGED <<version, owed, stream, news, message, queued, latest,
                   shown, drops, newest, promised>>

(* mySeq === queueReqSeq                                                   *)
BadCurrent(n) == TRUE
Current(n) == latest /\ n = Len(flights)

Arrive ==
  \E n \in DOMAIN flights :
    /\ flights[n] # NotYet
    /\ flights' = RemoveAt(flights, n)
    /\ latest' = (latest /\ n # Len(flights))
    /\ shown' = IF Current(n) THEN flights[n] ELSE shown
    /\ newest' = IF flights[n] > newest THEN flights[n] ELSE newest
    /\ UNCHANGED <<version, owed, stream, news, message, queued, drops,
                   promised>>

PushNext ==
  \/ Change \/ Emit \/ Connect \/ Wake \/ Write \/ Disconnect
  \/ OnMessage \/ Timer \/ Poll \/ Read \/ Arrive

PushSpec == PushInit /\ [][PushNext]_pushVars

-----------------------------------------------------------------------------
(* Threads that are not stopped go on, the browser's timers fire, and what *)
(* is requested is answered; nobody has to poll, connect or change.        *)
PushFairness ==
  /\ WF_pushVars(Emit) /\ WF_pushVars(Wake) /\ WF_pushVars(Write)
  /\ WF_pushVars(OnMessage) /\ WF_pushVars(Timer)
  /\ WF_pushVars(Read) /\ WF_pushVars(Arrive)

(* The queue never goes back to an older state (index.html:1533-1536), in  *)
(* whatever order refreshes are read and answered.                         *)
QueueNeverGoesBack == [][shown' >= shown]_pushVars

(* "incidents, plans, mode changes, and grid ticks push to every signed-in *)
(* console" (README.md:272): a change made under a standing stream is      *)
(* fetched without any poll, also one signalled while the stream was       *)
(* writing, the timer ran or an earlier refresh was under way.             *)
ChangeIsFetched ==
  \A n \in 1..MaxChanges : promised >= n ~> (newest >= n \/ promised < n)
=============================================================================
