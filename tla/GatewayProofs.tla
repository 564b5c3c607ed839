---------------------------- MODULE GatewayProofs ---------------------------
(***************************************************************************)
(* What the platform guarantees whoever asks and whoever is told.          *)
(*                                                                         *)
(* The gateway: the cached keys follow the identity provider, only         *)
(* administrators of the role lists change what is in force, and, with one *)
(* administrators' thread, what is in force is what the next start would   *)
(* restore.                                                                *)
(*                                                                         *)
(* The push channel: the incident queue of a console never goes back.  The *)
(* sequence guard shows one answer only, that of the refresh requested     *)
(* last, and it was read after everything shown: what is shown was read at *)
(* some time, versions only grow, and the last request is not answered yet *)
(* or was read since.                                                      *)
(*                                                                         *)
(* The handover report's omissions.  The property looks at a written       *)
(* report; inductive is what holds of one whose first half is read: an     *)
(* incident it did not list as open was resolved then, and stays so,       *)
(* leaves memory, or is among the reopened.                                *)
(*                                                                         *)
(* Citizens are confined to the community routes, and the rate limits hold:*)
(* a bucket's content and what was let in are paid for by a full bucket    *)
(* and the refill, and dropping an idle bucket takes nothing from that.    *)
(***************************************************************************)
EXTENDS AccessGateway, RequestRoutes, RequestLimits, PushChannel,
        ShiftHandover, TLAPS

-----------------------------------------------------------------------------
(* A key the provider no longer serves was still served when the cache was *)
(* last filled with it, so it is withdrawn no longer than the cache is old.*)
KeysTyped ==
  /\ published \subseteq Kid
  /\ withdrawn \in [Kid -> 0..Ttl]
  /\ serves \in BOOLEAN
  /\ jwks \subseteq Kid
  /\ jwksAge \in 0..Ttl

CacheKnewKey ==
  \A k \in Kid : IF k \in published THEN withdrawn[k] = 0
                 ELSE k \in jwks => withdrawn[k] <= jwksAge

KeysInv == KeysTyped /\ CacheKnewKey

LEMMA KeysStart == KeysInit => KeysInv
BY KeyAssumption DEF KeysInit, KeysInv, KeysTyped, CacheKnewKey

LEMMA LookUpKeepsKeys ==
  ASSUME KeysInv, NEW k, LookUp(k)
  PROVE  KeysInv'
<1>1. CASE Fetches(k)
  BY <1>1, KeyAssumption
     DEF LookUp, Loaded, KeysInv, KeysTyped, CacheKnewKey
<1>2. CASE ~Fetches(k)
  BY <1>2 DEF LookUp, Loaded, KeysInv, KeysTyped, CacheKnewKey
<1> QED BY <1>1, <1>2

LEMMA LaterBounded ==
  ASSUME NEW n \in 0..Ttl
  PROVE  /\ Later(n) \in 0..Ttl
         /\ \A m \in 0..Ttl : n <= m => Later(n) <= Later(m)
BY KeyAssumption DEF Later

LEMMA AgeKeepsKeys == KeysInv /\ KeysAge => KeysInv'
<1> SUFFICES ASSUME KeysInv, KeysAge
             PROVE  KeysInv'
  OBVIOUS
<1>1. /\ jwksAge' = Later(jwksAge)
      /\ withdrawn' = [k \in Kid |->
                         IF k \in published THEN 0 ELSE Later(withdrawn[k])]
      /\ UNCHANGED <<published, serves, jwks>>
  BY DEF KeysAge
<1>2. KeysTyped'
  BY <1>1, LaterBounded, KeyAssumption DEF KeysInv, KeysTyped
<1>3. CacheKnewKey'
  BY <1>1, LaterBounded, KeyAssumption DEF KeysInv, KeysTyped, CacheKnewKey
<1> QED BY <1>2, <1>3 DEF KeysInv

LEMMA RotateKeepsKeys == KeysInv /\ Rotate => KeysInv'
BY KeyAssumption DEF Rotate, KeysInv, KeysTyped, CacheKnewKey

LEMMA KeysStep == KeysInv /\ [GatewayNext]_gatewayVars => KeysInv'
<1> SUFFICES ASSUME KeysInv, [GatewayNext]_gatewayVars
             PROVE  KeysInv'
  OBVIOUS
<1>1. ASSUME NEW a, NEW t, NEW s, NEW v, Authenticate(a, t, s, v)
      PROVE  KeysInv'
  BY <1>1, LookUpKeepsKeys DEF Authenticate
<1>7. ASSUME NEW t, Identify(t)
      PROVE  KeysInv'
  BY <1>7, LookUpKeepsKeys DEF Identify
<1>2. CASE UNCHANGED keyVars
  BY <1>2 DEF keyVars, KeysInv, KeysTyped, CacheKnewKey
<1>3. ASSUME NEW a, Govern(a)
      PROVE  KeysInv'
  BY <1>2, <1>3 DEF Govern
<1>4. CASE GatewayCrash
  BY <1>4, KeyAssumption
     DEF GatewayCrash, KeysInv, KeysTyped, CacheKnewKey
<1>5. CASE Outage
  BY <1>5 DEF Outage, KeysInv, KeysTyped, CacheKnewKey
<1>6. CASE UNCHANGED gatewayVars
  BY <1>2, <1>6 DEF gatewayVars
<1> QED
  BY <1>1, <1>2, <1>3, <1>4, <1>5, <1>6, <1>7, RotateKeepsKeys, AgeKeepsKeys
     DEF GatewayNext

LEMMA KeysInvFollows == KeysInv => KeysFollowProvider
<1> SUFFICES ASSUME KeysInv, NEW k \in Kid
             PROVE  /\ Accepted(k) /\ withdrawn[k] >= Ttl => ~serves
                    /\ k \in published /\ serves => Accepted(k)
  BY DEF KeysFollowProvider
<1>1. k \in published => withdrawn[k] = 0
  BY DEF KeysInv, CacheKnewKey
<1>2. CASE Fetches(k)
  BY <1>1, <1>2, KeyAssumption DEF Fetches, Accepted, Loaded
<1>3. CASE ~Fetches(k) /\ serves
  <2>1. k \in jwks /\ jwksAge < Ttl /\ Loaded(k) = jwks
    BY <1>3 DEF Fetches, Asks, Fresh, Loaded
  <2>2. withdrawn[k] < Ttl
    BY <1>1, <2>1, KeyAssumption DEF KeysInv, KeysTyped, CacheKnewKey
  <2> QED BY <2>1, <2>2, KeyAssumption DEF Accepted, KeysInv, KeysTyped
<1>4. CASE ~serves
  BY <1>4
<1> QED BY <1>2, <1>3, <1>4 DEF KeysInv, KeysTyped

(* A key withdrawn for a TTL is accepted only while nothing can be         *)
(* fetched, and a served key never refused when it can (cfaccess.py:187-   *)
(* 241), for any keys, TTL and rotations, restarts of the platform         *)
(* included.                                                               *)
THEOREM KeysAreFollowed == GatewaySpec => []KeysFollowProvider
<1>1. GatewayInit => KeysInv
  BY KeysStart DEF GatewayInit
<1> QED BY <1>1, KeysStep, KeysInvFollows, PTL DEF GatewaySpec

-----------------------------------------------------------------------------
(* The table of users holds the role the lists give, or none; requests     *)
(* come from subjects.                                                     *)
Registered == \A w \in Subject : users[w] \in {NoRole, RoleFor(w)}

RequestsFromSubjects ==
  \A a \in Admin : request[a] # Nobody =>
    request[a].who \in Subject /\ request[a].setting \in Setting

GovernInv ==
  /\ DOMAIN memory = Setting /\ DOMAIN users = Subject
  /\ DOMAIN request = Admin
  /\ Registered /\ RequestsFromSubjects

LEMMA RoleNeedsSubject ==
  ASSUME NEW w, RoleFor(w) # NoRole
  PROVE  w \in Subject
BY KeyAssumption DEF RoleFor

LEMMA GovernStarts == GatewayInit => GovernInv
BY DefaultAssumption
   DEF GatewayInit, Init, GovernInv, Registered, RequestsFromSubjects

LEMMA EnteredRegistered ==
  ASSUME GovernInv, NEW t
  PROVE  /\ DOMAIN Entered(t) = Subject
         /\ \A w \in Subject : Entered(t)[w] \in {NoRole, RoleFor(w)}
<1>1. CASE Verified(t) = NoRole
  BY <1>1 DEF Entered, GovernInv, Registered
<1>2. CASE Verified(t) # NoRole
  <2>1. Verified(t) = RoleFor(t.who) /\ t.who \in Subject
    BY <1>2, RoleNeedsSubject DEF Verified
  <2> QED BY <1>2, <2>1 DEF Entered, GovernInv, Registered
<1> QED BY <1>1, <1>2

LEMMA AuthenticateRegisters ==
  ASSUME GovernInv, NEW a \in Admin, NEW t, NEW s \in Setting, NEW v,
         Authenticate(a, t, s, v)
  PROVE  GovernInv'
<1>1. memory' = memory
  BY DEF Authenticate, vars
<1>2. DOMAIN users' = Subject /\ Registered'
  BY EnteredRegistered DEF Authenticate, Registered
<1>3. CASE Verified(t) = NoRole
  BY <1>1, <1>2, <1>3 DEF Authenticate, GovernInv, RequestsFromSubjects
<1>4. CASE Verified(t) # NoRole
  <2>1. t.who \in Subject
    BY <1>4, RoleNeedsSubject DEF Verified
  <2>2. \/ request' = request
        \/ request' = [request EXCEPT
             ![a] = [who |-> t.who, setting |-> s, value |-> v]]
    BY DEF Authenticate
  <2>3. DOMAIN request' = Admin /\ RequestsFromSubjects'
    BY <2>1, <2>2 DEF GovernInv, RequestsFromSubjects
  <2> QED BY <1>1, <1>2, <2>3 DEF GovernInv
<1> QED BY <1>3, <1>4

LEMMA IdentifyRegisters ==
  ASSUME GovernInv, NEW t, Identify(t)
  PROVE  GovernInv'
<1>1. UNCHANGED <<memory, request>>
  BY DEF Identify, vars
<1>2. DOMAIN users' = Subject /\ Registered'
  BY EnteredRegistered DEF Identify, Registered
<1> QED BY <1>1, <1>2 DEF GovernInv, RequestsFromSubjects

LEMMA GovernKeeps ==
  ASSUME GovernInv, NEW a \in Admin, Govern(a)
  PROVE  GovernInv'
<1>1. users' = users /\ request' = [request EXCEPT ![a] = Nobody]
  BY DEF Govern
<1>2. DOMAIN memory' = Setting
  BY DEF Govern, Apply, vars, GovernInv
<1> QED BY <1>1, <1>2 DEF GovernInv, Registered, RequestsFromSubjects

LEMMA GovernSteps == GovernInv /\ [GatewayNext]_gatewayVars => GovernInv'
<1> SUFFICES ASSUME GovernInv, [GatewayNext]_gatewayVars
             PROVE  GovernInv'
  OBVIOUS
<1>1. CASE UNCHANGED <<memory, users, request>>
  BY <1>1 DEF GovernInv, Registered, RequestsFromSubjects
<1>2. ASSUME NEW a \in Admin, Persist(a) \/ PersistFails(a),
             UNCHANGED <<users, request>>
      PROVE  GovernInv'
  BY <1>1, <1>2 DEF Persist, PersistFails
<1>3. CASE Start /\ UNCHANGED <<users, request>>
  BY <1>3 DEF Start, GovernInv, Registered, RequestsFromSubjects
<1>4. CASE GatewayCrash
  BY <1>4
     DEF GatewayCrash, Crash, GovernInv, Registered, RequestsFromSubjects
<1>5. CASE (Rotate \/ Outage \/ KeysAge) /\ UNCHANGED <<vars, users, request>>
  BY <1>1, <1>5 DEF vars
<1>6. CASE UNCHANGED gatewayVars
  BY <1>1, <1>6 DEF gatewayVars, vars
<1> QED
  BY <1>2, <1>3, <1>4, <1>5, <1>6, AuthenticateRegisters, IdentifyRegisters,
     GovernKeeps
     DEF GatewayNext

(* One step of a running platform changes a setting only where a request   *)
(* of an administrator asks for it.                                        *)
GovernedStep ==
  \A s \in Setting :
    process = "up" /\ memory'[s] # memory[s] =>
      \E a \in Admin : /\ request[a].setting = s
                       /\ RoleFor(request[a].who) = "admin"

LEMMA StepsAreGoverned ==
  GovernInv /\ [GatewayNext]_gatewayVars => GovernedStep
<1> SUFFICES ASSUME GovernInv, [GatewayNext]_gatewayVars,
                    NEW s \in Setting, process = "up", memory'[s] # memory[s]
             PROVE  \E a \in Admin : /\ request[a].setting = s
                                     /\ RoleFor(request[a].who) = "admin"
  BY DEF GovernedStep
<1>1. PICK a \in Admin : Govern(a)
  BY DEF GatewayNext, gatewayVars, vars, Authenticate, Identify, Persist,
         PersistFails, Start, GatewayCrash, Crash
<1>2. ~Refused(request[a])
  BY <1>1 DEF Govern, vars
<1>3. Apply(a, request[a].setting, request[a].value)
  BY <1>1, <1>2 DEF Govern
<1>4. request[a].setting = s
  BY <1>3 DEF Apply, GovernInv
<1>5. request[a].who \in Subject /\ users[request[a].who] = "admin"
  BY <1>1, <1>2 DEF Govern, Refused, MayGovern, GovernInv, RequestsFromSubjects
<1>6. RoleFor(request[a].who) = "admin"
  BY <1>5 DEF GovernInv, Registered, NoRole
<1> QED BY <1>4, <1>6

(* "Mode transitions require Admin authorization" (engine.py:215), over    *)
(* the table of users that every request rewrites, for any role lists,     *)
(* assertions and interleavings.                                           *)
THEOREM AdminsGovern == GatewaySpec => OnlyAdminsGovern
<1>1. GovernInv /\ [GatewayNext]_gatewayVars => [GovernedStep]_gatewayVars
  BY StepsAreGoverned
<1>2. GatewaySpec => [][GovernedStep]_gatewayVars
  BY <1>1, GovernStarts, GovernSteps, PTL DEF GatewaySpec
<1> QED BY <1>2 DEF OnlyAdminsGovern, GovernedStep

-----------------------------------------------------------------------------
(* What a start would bring back.                                          *)
Restores(s) == IF stored[s] = NoRow THEN Default[s] ELSE stored[s]

(* A call under way belongs to a running process and has put its value     *)
(* into memory already; one thread at most has one.                        *)
CallsApplied ==
  \A a \in Admin : call[a] # None =>
    /\ process = "up"
    /\ call[a].setting \in Setting
    /\ call[a].value \in Governed[call[a].setting]
    /\ memory[call[a].setting] = call[a].value

DurableInv ==
  /\ DOMAIN memory = Setting /\ DOMAIN stored = Setting
  /\ DOMAIN call = Admin
  /\ CallsApplied /\ QuietIsDurable

LEMMA DurableStarts == GatewayInit => DurableInv
BY DefaultAssumption
   DEF GatewayInit, Init, DurableInv, CallsApplied, QuietIsDurable

LEMMA ApplyKeepsDurable ==
  ASSUME DurableInv, \A a, b \in Admin : a = b,
         NEW a \in Admin, NEW s \in Setting, NEW v, Apply(a, s, v)
  PROVE  DurableInv'
<1>1. /\ process = "up" /\ call[a] = None /\ v \in Governed[s]
      /\ memory' = [memory EXCEPT ![s] = v]
      /\ call' = [call EXCEPT ![a] = [setting |-> s, value |-> v]]
      /\ UNCHANGED <<process, stored, unsaved>>
  BY DEF Apply, InRange
<1>2. call'[a] = [setting |-> s, value |-> v] /\ memory'[s] = v
  BY <1>1 DEF DurableInv
<1>3. CallsApplied'
  BY <1>1, <1>2 DEF CallsApplied
<1>4. QuietIsDurable'
  <2> SUFFICES ASSUME NEW r \in Setting \ unsaved, Quiet(r)'
               PROVE  memory'[r] = Restores(r)
    BY <1>1 DEF QuietIsDurable, Restores
  <2>1. r # s
    BY <1>2 DEF Quiet
  <2>2. Quiet(r)
    BY <1>1, SettingAssumption DEF Quiet, None
  <2> QED BY <1>1, <2>1, <2>2 DEF DurableInv, QuietIsDurable, Restores
<1> QED BY <1>1, <1>3, <1>4 DEF DurableInv

LEMMA PersistKeepsDurable ==
  ASSUME DurableInv, \A a, b \in Admin : a = b, NEW a \in Admin,
         Persist(a) \/ PersistFails(a)
  PROVE  DurableInv'
<1> DEFINE s == call[a].setting
<1>1. /\ call[a] # None /\ process = "up" /\ s \in Setting
      /\ call[a].value \in Governed[s] /\ memory[s] = call[a].value
  BY DEF Persist, PersistFails, DurableInv, CallsApplied
<1>2. /\ call' = [call EXCEPT ![a] = None] /\ call'[a] = None
      /\ UNCHANGED <<process, memory>>
  BY DEF Persist, PersistFails, DurableInv
<1>3. CallsApplied'
  BY <1>2 DEF CallsApplied
<1>4. \A r \in Setting : r # s => Quiet(r)
  BY DEF Quiet
<1>5. CASE Persist(a)
  <2>1. /\ stored' = [stored EXCEPT ![s] = call[a].value]
        /\ unsaved' = unsaved \ {s}
    BY <1>5 DEF Persist
  <2>2. stored'[s] = memory[s] /\ memory[s] # NoRow
    BY <1>1, <2>1, DefaultAssumption DEF DurableInv
  <2>3. ASSUME NEW r \in Setting \ unsaved'
        PROVE  memory[r] = Restores(r)'
    <3>1. CASE r = s
      BY <2>2, <3>1 DEF Restores
    <3>2. CASE r # s
      <4>1. stored'[r] = stored[r] /\ r \notin unsaved
        BY <2>1, <3>2 DEF DurableInv
      <4>2. memory[r] = Restores(r)
        BY <1>1, <1>4, <3>2, <4>1 DEF DurableInv, QuietIsDurable, Restores
      <4> QED BY <4>1, <4>2 DEF Restores
    <3> QED BY <3>1, <3>2
  <2>4. QuietIsDurable'
    BY <1>2, <2>3 DEF QuietIsDurable, Restores
  <2> QED BY <1>2, <1>3, <2>1, <2>4 DEF DurableInv
<1>6. CASE PersistFails(a)
  <2>1. unsaved' = unsaved \union {s} /\ stored' = stored
    BY <1>6 DEF PersistFails
  <2>2. QuietIsDurable'
    BY <1>1, <1>2, <1>4, <2>1 DEF DurableInv, QuietIsDurable
  <2> QED BY <1>2, <1>3, <2>1, <2>2 DEF DurableInv
<1> QED BY <1>5, <1>6

LEMMA DurableSteps ==
  ASSUME DurableInv, GovernInv, \A a, b \in Admin : a = b,
         [GatewayNext]_gatewayVars
  PROVE  DurableInv'
<1>1. CASE UNCHANGED vars
  BY <1>1 DEF vars, DurableInv, CallsApplied, QuietIsDurable, Quiet
<1>2. ASSUME NEW a \in Admin, Govern(a)
      PROVE  DurableInv'
  <2>1. CASE Refused(request[a])
    BY <1>1, <1>2, <2>1 DEF Govern
  <2>2. CASE ~Refused(request[a])
    <3>1. Apply(a, request[a].setting, request[a].value)
      BY <1>2, <2>2 DEF Govern
    <3>2. request[a].setting \in Setting
      BY <1>2 DEF Govern, GovernInv, RequestsFromSubjects
    <3> QED BY <3>1, <3>2, ApplyKeepsDurable
  <2> QED BY <2>1, <2>2
<1>3. CASE Start
  BY <1>3 DEF Start, Restored, DurableInv, CallsApplied, QuietIsDurable
<1>4. CASE Crash
  BY <1>4 DEF Crash, DurableInv, CallsApplied, QuietIsDurable
<1> QED
  BY <1>1, <1>2, <1>3, <1>4, PersistKeepsDurable
     DEF GatewayNext, gatewayVars, Authenticate, Identify, GatewayCrash

(* While the platform runs and no call is under way, a restart would bring *)
(* back what is in force, except where the store's error was answered      *)
(* (engine.py:95-106, 214-243), with one administrators' thread: two may   *)
(* write memory in one order and the store in the other.                   *)
THEOREM GovernedIsDurable ==
  ASSUME \A a, b \in Admin : a = b
  PROVE  GatewaySpec => []QuietIsDurable
<1>1. DurableInv /\ GovernInv /\ [GatewayNext]_gatewayVars => DurableInv'
  BY DurableSteps
<1>2. DurableInv => QuietIsDurable
  BY DEF DurableInv
<1> QED
  BY <1>1, <1>2, DurableStarts, GovernStarts, GovernSteps, PTL
     DEF GatewaySpec

-----------------------------------------------------------------------------
(* The push channel. *)

Answers == Nat \cup {NotYet}

PushTyped ==
  /\ version \in Nat /\ shown \in Nat
  /\ flights \in Seq(Answers)
  /\ latest \in BOOLEAN

ReadFromThePast ==
  /\ shown <= version
  /\ \A n \in DOMAIN flights : flights[n] <= version

LastIsNewest ==
  latest => /\ Len(flights) > 0
            /\ flights[Len(flights)] # NotYet => shown <= flights[Len(flights)]

QueueInv == PushTyped /\ ReadFromThePast /\ LastIsNewest

(* Taking out an answer keeps the others in their order.                   *)
LEMMA TakenOut ==
  ASSUME NEW s \in Seq(Answers), NEW n \in DOMAIN s
  PROVE  /\ RemoveAt(s, n) \in Seq(Answers)
         /\ Len(RemoveAt(s, n)) = Len(s) - 1
         /\ \A i \in DOMAIN RemoveAt(s, n) :
              RemoveAt(s, n)[i] = IF i < n THEN s[i] ELSE s[i + 1]
<1> DEFINE front == SubSeq(s, 1, n - 1)
           back  == SubSeq(s, n + 1, Len(s))
<1>1. n \in 1..Len(s) /\ Len(s) \in Nat
  OBVIOUS
<1>2. front \in Seq(Answers) /\ Len(front) = n - 1
      /\ \A i \in 1..(n - 1) : front[i] = s[i]
  BY <1>1
<1>3. back \in Seq(Answers) /\ Len(back) = Len(s) - n
      /\ \A i \in 1..(Len(s) - n) : back[i] = s[n + i]
  BY <1>1
<1>4. RemoveAt(s, n) = front \o back
  BY DEF RemoveAt
<1> HIDE DEF front, back
<1>5. front \o back \in Seq(Answers) /\ Len(front \o back) = Len(s) - 1
  BY <1>1, <1>2, <1>3
<1>6. ASSUME NEW i \in 1..(Len(s) - 1)
      PROVE  (front \o back)[i] = IF i < n THEN s[i] ELSE s[i + 1]
  <2>1. CASE i < n
    BY <1>1, <1>2, <1>3, <2>1
  <2>2. CASE i >= n
    <3>1. (front \o back)[i] = back[i - (n - 1)]
      BY <1>1, <1>2, <1>3, <2>2
    <3>2. i - (n - 1) \in 1..(Len(s) - n) /\ n + (i - (n - 1)) = i + 1
      BY <1>1, <2>2
    <3> QED BY <1>1, <1>3, <2>2, <3>1, <3>2
  <2>3. i < n \/ i >= n
    BY <1>1
  <2>4. (i < n) # (i >= n)
    BY <1>1
  <2> QED BY <2>1, <2>2, <2>3, <2>4, Zenon
<1>7. DOMAIN (front \o back) = 1..(Len(s) - 1)
  BY <1>5
<1> QED BY <1>4, <1>5, <1>6, <1>7, Zenon

-----------------------------------------------------------------------------
LEMMA QueueStarts == PushInit => QueueInv
BY DEF PushInit, QueueInv, PushTyped, ReadFromThePast, LastIsNewest, Answers,
       NotYet

LEMMA RequestKeepsQueue == QueueInv /\ Request => QueueInv'
<1> SUFFICES ASSUME QueueInv, Request
             PROVE  QueueInv'
  OBVIOUS
<1>1. flights' = Append(flights, NotYet) /\ latest' = TRUE
      /\ UNCHANGED <<version, shown>>
  BY DEF Request
<1>2. /\ flights' \in Seq(Answers) /\ Len(flights') = Len(flights) + 1
      /\ flights'[Len(flights')] = NotYet
      /\ \A n \in DOMAIN flights' : n # Len(flights') =>
           n \in DOMAIN flights /\ flights'[n] = flights[n]
  BY <1>1 DEF QueueInv, PushTyped, Answers
<1>3. ReadFromThePast'
  BY <1>1, <1>2 DEF QueueInv, PushTyped, ReadFromThePast, NotYet
<1>4. LastIsNewest' /\ PushTyped'
  BY <1>1, <1>2 DEF QueueInv, PushTyped, LastIsNewest
<1> QED BY <1>3, <1>4 DEF QueueInv

LEMMA ReadKeepsQueue == QueueInv /\ Read => QueueInv'
<1> SUFFICES ASSUME QueueInv, Read
             PROVE  QueueInv'
  OBVIOUS
<1>1. PICK n \in DOMAIN flights :
        /\ flights' = [flights EXCEPT ![n] = version]
        /\ UNCHANGED <<version, shown, latest>>
  BY DEF Read
<1>2. /\ flights' \in Seq(Answers) /\ Len(flights') = Len(flights)
      /\ \A i \in DOMAIN flights' :
           flights'[i] = IF i = n THEN version ELSE flights[i]
  BY <1>1 DEF QueueInv, PushTyped, Answers
<1>3. PushTyped' /\ ReadFromThePast'
  BY <1>1, <1>2 DEF QueueInv, PushTyped, ReadFromThePast
<1>4. LastIsNewest'
  BY <1>1, <1>2 DEF QueueInv, PushTyped, ReadFromThePast, LastIsNewest
<1> QED BY <1>3, <1>4 DEF QueueInv

(* An answer is shown only when it is the last request's.                  *)
LEMMA ArrivalKeepsQueue == QueueInv /\ Arrive => QueueInv' /\ shown' >= shown
<1> SUFFICES ASSUME QueueInv, Arrive
             PROVE  QueueInv' /\ shown' >= shown
  OBVIOUS
<1>1. PICK n \in DOMAIN flights :
        /\ flights[n] # NotYet
        /\ flights' = RemoveAt(flights, n)
        /\ latest' = (latest /\ n # Len(flights))
        /\ shown' = IF Current(n) THEN flights[n] ELSE shown
        /\ UNCHANGED version
  BY DEF Arrive
<1>2. n \in 1..Len(flights) /\ Len(flights) \in Nat /\ flights[n] \in Nat
  BY <1>1 DEF QueueInv, PushTyped, Answers
<1>3. /\ flights' \in Seq(Answers) /\ Len(flights') = Len(flights) - 1
      /\ \A i \in DOMAIN flights' :
           flights'[i] = IF i < n THEN flights[i] ELSE flights[i + 1]
  BY <1>1, TakenOut DEF QueueInv, PushTyped
<1>4. shown' \in Nat /\ shown' >= shown /\ shown' <= version
  <2>1. CASE Current(n)
    BY <1>1, <1>2, <2>1
       DEF Current, QueueInv, PushTyped, ReadFromThePast, LastIsNewest
  <2>2. CASE ~Current(n)
    BY <1>1, <2>2 DEF QueueInv, PushTyped, ReadFromThePast
  <2> QED BY <2>1, <2>2
<1>5. PushTyped'
  BY <1>1, <1>3, <1>4 DEF QueueInv, PushTyped
<1>6. ReadFromThePast'
  <2>1. ASSUME NEW i \in DOMAIN flights'
        PROVE  flights'[i] <= version
    <3>1. i \in 1..(Len(flights) - 1)
      BY <1>2, <1>3
    <3>2. i \in DOMAIN flights /\ i + 1 \in DOMAIN flights
      BY <1>2, <3>1
    <3> QED BY <1>2, <1>3, <3>1, <3>2 DEF QueueInv, ReadFromThePast
  <2> QED BY <1>1, <1>4, <2>1 DEF ReadFromThePast
<1>7. LastIsNewest'
  <2> SUFFICES ASSUME latest'
               PROVE  /\ Len(flights') > 0
                      /\ flights'[Len(flights')] # NotYet =>
                           shown' <= flights'[Len(flights')]
    BY DEF LastIsNewest
  <2>1. latest /\ n < Len(flights) /\ shown' = shown
    <3>1. latest /\ n # Len(flights)
      BY <1>1, Zenon
    <3>2. ~Current(n)
      BY <3>1, Zenon DEF Current
    <3> QED BY <1>1, <1>2, <3>1, <3>2
  <2>2. Len(flights') > 0 /\ Len(flights') \in DOMAIN flights'
        /\ Len(flights') >= n
    BY <1>2, <1>3, <2>1
  <2>3. flights'[Len(flights')] = flights[Len(flights)]
    BY <1>2, <1>3, <2>2
  <2> QED BY <2>1, <2>2, <2>3 DEF QueueInv, LastIsNewest
<1> QED BY <1>4, <1>5, <1>6, <1>7 DEF QueueInv

LEMMA QueueSteps ==
  QueueInv /\ [PushNext]_pushVars => QueueInv' /\ [shown' >= shown]_pushVars
<1> SUFFICES ASSUME QueueInv, [PushNext]_pushVars
             PROVE  QueueInv' /\ [shown' >= shown]_pushVars
  OBVIOUS
<1>1. shown >= shown
  BY DEF QueueInv, PushTyped
<1>2. CASE UNCHANGED <<version, flights, latest, shown>>
  BY <1>1, <1>2 DEF QueueInv, PushTyped, ReadFromThePast, LastIsNewest
<1>3. CASE Change
  <2>1. version' = version + 1 /\ UNCHANGED <<flights, latest, shown>>
    BY <1>3 DEF Change, console
  <2>2. ReadFromThePast'
    <3>1. \A n \in DOMAIN flights : flights[n] \in Answers
      BY DEF QueueInv, PushTyped
    <3> QED BY <2>1, <3>1
            DEF QueueInv, PushTyped, ReadFromThePast, Answers, NotYet
  <2> QED BY <1>1, <2>1, <2>2 DEF QueueInv, PushTyped, LastIsNewest
<1>4. CASE Emit \/ Connect \/ Wake \/ Write \/ Disconnect \/ OnMessage
  BY <1>2, <1>4
     DEF Emit, Connect, Wake, Write, Disconnect, OnMessage, console
<1>5. CASE Request
  BY <1>1, <1>5, RequestKeepsQueue DEF Request
<1>6. CASE Read
  BY <1>1, <1>6, ReadKeepsQueue DEF Read
<1>7. CASE Arrive
  BY <1>7, ArrivalKeepsQueue
<1>8. CASE UNCHANGED pushVars
  BY <1>2, <1>8 DEF pushVars
<1> QED
  BY <1>3, <1>4, <1>5, <1>6, <1>7, <1>8 DEF PushNext, Timer, Poll

(* In whatever order refreshes are read and answered, a console never      *)
(* replaces what it shows by an older state (index.html:1533-1545).        *)
THEOREM QueueMovesOn == PushSpec => QueueNeverGoesBack
<1>1. QueueInv /\ [PushNext]_pushVars => QueueInv'
  BY QueueSteps
<1>2. QueueInv /\ [PushNext]_pushVars => [shown' >= shown]_pushVars
  BY QueueSteps
<1> QED BY <1>1, <1>2, QueueStarts, PTL DEF PushSpec, QueueNeverGoesBack

-----------------------------------------------------------------------------
(* The handover report. *)

Typed ==
  /\ DOMAIN state = Incident
  /\ step \in {"idle", "opened", "written"}
  /\ since \in Int
  /\ known \subseteq Incident

(* An incident once seen never becomes undetected.                         *)
KnownDetected == \A i \in known : state[i] # "none"

(* Between the two looks: what the first did not list as open.             *)
UnlistedResolved ==
  step = "opened" =>
    \A i \in known : InMemory(i) /\ i \notin open =>
      state[i] = "resolved" \/ i \in reopened

HandoverInv ==
  /\ Typed /\ KnownDetected /\ UnlistedResolved /\ HandoverOmissions

-----------------------------------------------------------------------------
LEMMA HandoverStarts == HandoverInit => HandoverInv
BY DEF HandoverInit, HandoverInv, Typed, KnownDetected, UnlistedResolved,
       HandoverOmissions

(* A change of one incident, as the report in the making sees it: it goes  *)
(* on from a known state to another one, and when it stops being resolved  *)
(* and stays in memory it is noted as reopened.                            *)
LEMMA IncidentMoves ==
  ASSUME HandoverInv, NEW i \in Incident, NEW s,
         state' = [state EXCEPT ![i] = s],
         UNCHANGED report,
         s # "none",
         i \in known => InMemory(i),
         reopened \subseteq reopened',
         state[i] = "resolved" =>
           s \in {"resolved", "dropped"} \/ i \in reopened'
  PROVE  HandoverInv'
<1> USE DEF report, InMemory
<1>1. Typed'
  BY DEF HandoverInv, Typed
<1>2. \A j \in Incident : state'[j] = IF j = i THEN s ELSE state[j]
  BY DEF HandoverInv, Typed
<1>3. known' = known /\ known \subseteq Incident
  BY DEF HandoverInv, Typed
<1>4. KnownDetected'
  BY <1>2, <1>3 DEF HandoverInv, KnownDetected
<1>5. \A j \in known : InMemory(j)' => InMemory(j)
  BY <1>2, <1>3
<1>6. UnlistedResolved'
  <2> SUFFICES ASSUME step' = "opened", NEW j \in known', InMemory(j)',
                      j \notin open'
               PROVE  state'[j] = "resolved" \/ j \in reopened'
    BY DEF UnlistedResolved
  <2>1. state[j] = "resolved" \/ j \in reopened
    BY <1>3, <1>5 DEF HandoverInv, UnlistedResolved
  <2>2. CASE j # i
    BY <1>2, <1>3, <2>1, <2>2
  <2>3. CASE j = i
    BY <1>2, <1>3, <2>1, <2>3
  <2> QED BY <2>2, <2>3
<1>7. HandoverOmissions'
  <2> SUFFICES ASSUME step' = "written", NEW j \in known', InMemory(j)',
                      j \notin open' \cup resolved'
               PROVE  \/ j < since' /\ state'[j] = "resolved"
                      \/ j \in reopened' \cup cut'
    BY DEF HandoverOmissions
  <2>1. (j < since /\ state[j] = "resolved") \/ j \in reopened \cup cut
    BY <1>3, <1>5 DEF HandoverInv, HandoverOmissions
  <2>2. state'[j] = IF j = i THEN s ELSE state[j]
    BY <1>2, <1>3
  <2> QED BY <2>1, <2>2
<1> QED BY <1>1, <1>4, <1>6, <1>7 DEF HandoverInv

LEMMA HandoverSteps == HandoverInv /\ [HandoverNext]_handoverVars => HandoverInv'
<1> SUFFICES ASSUME HandoverInv, [HandoverNext]_handoverVars
             PROVE  HandoverInv'
  OBVIOUS
<1>1. CASE Detect
  <2>1. PICK i \in Incident : /\ state[i] = "none"
                              /\ state' = [state EXCEPT ![i] = "detected"]
                              /\ UNCHANGED <<report, reopened>>
    BY <1>1 DEF Detect
  <2>2. i \notin known
    BY <2>1 DEF HandoverInv, KnownDetected
  <2> QED BY <2>1, <2>2, IncidentMoves
<1>2. ASSUME NEW i \in Incident, Resolve(i)
      PROVE  HandoverInv'
  BY <1>2, IncidentMoves DEF Resolve
<1>3. ASSUME NEW i \in Incident, Execute(i)
      PROVE  HandoverInv'
  BY <1>3, IncidentMoves DEF Execute
<1>4. ASSUME NEW i \in Incident, Drop(i)
      PROVE  HandoverInv'
  <2>1. InMemory(i)
    BY <1>4 DEF Drop, InMemory
  <2> QED BY <1>4, <2>1, IncidentMoves DEF Drop
<1>5. CASE ReadOpen
  BY <1>5 DEF ReadOpen, HandoverInv, Typed, KnownDetected, UnlistedResolved,
              HandoverOmissions, InMemory, Active
<1>6. CASE ReadResolved
  <2>1. /\ step = "opened" /\ step' = "written"
        /\ resolved' = {i \in Page : state[i] = "resolved"}
        /\ cut' = Matched \ Page
        /\ UNCHANGED <<state, since, open, known, reopened>>
    BY <1>6 DEF ReadResolved
  <2>2. Typed' /\ KnownDetected' /\ UnlistedResolved'
    BY <2>1 DEF HandoverInv, Typed, KnownDetected, UnlistedResolved
  <2>3. HandoverOmissions'
    <3> SUFFICES ASSUME NEW i \in known, InMemory(i),
                        i \notin open \cup resolved'
                 PROVE  \/ i < since /\ state[i] = "resolved"
                        \/ i \in reopened \cup cut'
      BY <2>1 DEF HandoverOmissions, InMemory
    <3>1. state[i] = "resolved" \/ i \in reopened
      BY <2>1 DEF HandoverInv, UnlistedResolved
    <3>2. i >= since => i \in Matched
      BY DEF Matched, HandoverInv, Typed
    <3>3. i < since \/ i >= since
      BY DEF HandoverInv, Typed, Incident
    <3> QED BY <2>1, <3>1, <3>2, <3>3
  <2> QED BY <2>2, <2>3 DEF HandoverInv
<1>7. CASE Deliver
  BY <1>7 DEF Deliver, HandoverInv, Typed, KnownDetected, UnlistedResolved,
              HandoverOmissions
<1>8. CASE UNCHANGED handoverVars
  BY <1>8 DEF handoverVars, HandoverInv, Typed, KnownDetected,
              UnlistedResolved, HandoverOmissions, InMemory
<1> QED BY <1>1, <1>2, <1>3, <1>4, <1>5, <1>6, <1>7, <1>8 DEF HandoverNext

(* Whatever happens between the report's two looks at the incidents        *)
(* (server.py:871-892), of those still in memory it omits only the         *)
(* resolved ones detected before its window, those reopened in between and *)
(* those beyond its page.                                                  *)
THEOREM ReportComplete == HandoverSpec => []HandoverOmissions
<1>1. HandoverInv => HandoverOmissions
  BY DEF HandoverInv
<1> QED BY <1>1, HandoverStarts, HandoverSteps, PTL DEF HandoverSpec

-----------------------------------------------------------------------------
(* A citizen is answered by the pages, the two exceptions and the community *)
(* routes that do not ask for a moderator.                                 *)
LEMMA CitizenRoutes ==
  ASSUME NEW method \in {"GET", "POST"}, NEW route \in Routes(method),
         ~CitizenBlocked("citizen", method, route),
         ~Reserved("citizen", method, route)
  PROVE  \/ route \in {"/api/whoami", "/api/logout"}
         \/ /\ route \in Community
            /\ route \notin {"/api/community/pending",
                             "/api/community/moderate"}
<1>1. route \in Community \cup {"/api/whoami", "/api/logout"}
  BY DEF CitizenBlocked, Extra
<1>2. CASE route = "/api/community/pending"
  <2>1. method = "GET"
    BY <1>2 DEF Routes, Writes, EngineWrites, OtherWrites, Decisions, Governance
  <2> QED BY <1>2, <2>1 DEF Reserved, ReadersOf, Crew
<1>3. CASE route = "/api/community/moderate"
  <2>1. method = "POST"
    BY <1>3 DEF Routes, Reads, CityReads, RecordReads, CrewReads
  <2> QED BY <1>3, <2>1 DEF Reserved, WritersOf, Crew
<1> QED BY <1>1, <1>2, <1>3

LEMMA AnswersConfined == CitizensConfined /\ [RoutesNext]_reply => CitizensConfined'
<1> SUFFICES ASSUME CitizensConfined, [RoutesNext]_reply
             PROVE  CitizensConfined'
  OBVIOUS
<1>1. CASE UNCHANGED reply
  BY <1>1 DEF CitizensConfined
<1>2. CASE ServePage
  BY <1>2 DEF ServePage, Answer, CitizensConfined
<1>3. CASE Unidentified
  BY <1>3 DEF Unidentified, Answer, Stranger, CitizensConfined
<1>4. CASE Forbidden
  <2>1. reply'.code \in {403, 400}
    BY <1>4 DEF Forbidden, Answer, BadInput
  <2> QED BY <2>1 DEF CitizensConfined
<1>5. CASE Handle
  BY <1>5, CitizenRoutes DEF Handle, Answer, CitizensConfined
<1>6. CASE HandleMcp
  <2>1. reply'.role # "citizen"
    BY <1>6 DEF HandleMcp, Answer, CitizenBlocked, Extra, Community
  <2> QED BY <2>1 DEF CitizensConfined
<1> QED BY <1>1, <1>2, <1>3, <1>4, <1>5, <1>6 DEF RoutesNext

(* "Citizens are hard-gated to the Community Watch API only" (server.py:   *)
(* 474-475): whatever is asked in whatever order, no answer to a citizen   *)
(* that is not an error comes from another route, or from a moderator's.   *)
THEOREM CitizensAreConfined == RoutesSpec => []CitizensConfined
<1>1. RoutesInit => CitizensConfined
  BY DEF RoutesInit, Stranger, CitizensConfined
<1> QED BY <1>1, AnswersConfined, PTL DEF RoutesSpec

-----------------------------------------------------------------------------
(* What a bucket would hold now.  Dropping it changes nothing: it is only  *)
(* dropped when it would be full.                                          *)
Filled == AtMost(Full, units + idle * Capacity)

BucketTyped ==
  /\ units \in 0..Full /\ idle \in Nat
  /\ admitted \in [0..Window -> Int]

(* Whatever was let in in the last t steps was in the bucket before them,  *)
(* or was refilled in them, and what it holds now was not let in.          *)
BucketPays ==
  \A t \in 0..Window : Window * admitted[t] + Filled <= Full + t * Capacity

(* Every answer was counted, and is counted as long as it is recent.       *)
QueriesCounted ==
  /\ asked \in [0..Ever -> Nat] /\ answered \in [0..QueryWindow -> Int]
  /\ \A t \in 0..QueryWindow : answered[t] <= asked[t] /\ asked[t] <= asked[t + 1]
  /\ asked[Ever] <= MaxQueries

LimitsInv == BucketTyped /\ BucketPays /\ QueriesCounted

LEMMA Limits ==
  /\ Capacity \in Nat /\ Window \in Nat /\ QueryWindow \in Nat /\ MaxQueries \in Nat
  /\ Capacity > 0 /\ Window > 0 /\ QueryWindow > 0 /\ MaxQueries > 0
  /\ Full \in Nat /\ Stale \in Nat /\ Stale >= Window
<1>1. \A n \in {Capacity, Window, IdleWindows, QueryWindow, MaxQueries} :
        n \in Nat /\ n > 0
  BY LimitAssumption
<1>2. \A m, n \in Nat : m > 0 => m * n \in Nat /\ m * n >= n
  OBVIOUS
<1> QED BY <1>1, <1>2 DEF Full, Stale

LEMMA ForgottenIsFull ==
  ASSUME NEW n \in Nat, n >= Stale
  PROVE  n * Capacity \in Nat /\ n * Capacity >= Full
<1>1. \A a, b, c \in Nat : a <= b => a * c \in Nat /\ b * c \in Nat /\ a * c <= b * c
  OBVIOUS
<1>2. Window * Capacity = Full
  BY Limits DEF Full
<1> QED BY <1>1, <1>2, Limits

LEMMA LevelIsFilled ==
  ASSUME BucketTyped
  PROVE  /\ Level = Filled /\ Filled \in 0..Full
         /\ Forgotten(idle) => Filled = Full
<1>1. idle * Capacity \in Nat
  <2>1. \A m, n \in Nat : m * n \in Nat
    OBVIOUS
  <2> QED BY <2>1, Limits DEF BucketTyped
<1>2. Filled \in 0..Full
  BY <1>1, Limits DEF BucketTyped, Filled, AtMost
<1>3. Forgotten(idle) => idle * Capacity >= Full
  BY Limits, ForgottenIsFull DEF BucketTyped, Forgotten
<1>4. Forgotten(idle) => Filled = Full
  BY <1>1, <1>3, Limits DEF BucketTyped, Filled, AtMost
<1>5. CASE PruneDue /\ Forgotten(idle)
  <2>1. Level = AtMost(Full, Full + idle * Capacity)
    BY <1>5 DEF Level, Refilled, Kept
  <2>2. Level = Full
    BY <1>1, <2>1, Limits DEF AtMost
  <2> QED BY <1>2, <1>4, <1>5, <2>2
<1>6. CASE ~(PruneDue /\ Forgotten(idle))
  BY <1>2, <1>4, <1>6 DEF Level, Refilled, Kept, Filled
<1> QED BY <1>2, <1>4, <1>5, <1>6

LEMMA FilledFits ==
  ASSUME NEW n \in 0..Full, NEW t \in Nat
  PROVE  AtMost(Full, n + t * Capacity) \in 0..Full
<1>1. \A i, j \in Nat : i * j \in Nat
  OBVIOUS
<1>2. t * Capacity \in Nat
  BY <1>1, Limits
<1> QED BY <1>2, Limits DEF AtMost

(* Reading the bucket: it holds n then.                                    *)
LEMMA FilledAt ==
  ASSUME NEW n \in 0..Full, units' = n, idle' = 0
  PROVE  Filled' = n
<1>1. 0 * Capacity = 0
  BY Limits
<1> QED BY <1>1, Limits DEF Filled, AtMost, Full

LEMMA AdmitPays == LimitsInv /\ Admit => (BucketTyped /\ BucketPays)'
<1> SUFFICES ASSUME LimitsInv, Admit
             PROVE  (BucketTyped /\ BucketPays)'
  OBVIOUS
<1>1. Filled >= Window /\ Filled \in 0..Full /\ BucketTyped
  BY LevelIsFilled DEF LimitsInv, Admit
<1>2. units' = Filled - Window /\ idle' = 0 /\ units' \in 0..Full
  BY <1>1, Limits, LevelIsFilled DEF Admit
<1>3. Filled' = Filled - Window
  BY <1>2, FilledAt
<1>4. \A t \in 0..Window : admitted'[t] = admitted[t] + 1 /\ admitted[t] \in Int
  BY <1>1 DEF Admit, Counted, BucketTyped
<1>5. admitted' \in [0..Window -> Int]
  BY <1>1 DEF Admit, Counted, BucketTyped
<1>6. ASSUME NEW t \in 0..Window
      PROVE  Window * admitted'[t] + Filled' <= Full + t * Capacity
  <2>1. \A w, n \in Int : w * (n + 1) = w * n + w /\ w * n \in Int
    OBVIOUS
  <2>2. Window * admitted'[t] = Window * admitted[t] + Window
        /\ Window * admitted[t] \in Int
    BY <1>4, <2>1, Limits
  <2>3. Window * admitted[t] + Filled <= Full + t * Capacity
    BY DEF LimitsInv, BucketPays
  <2> QED BY <1>1, <1>3, <2>2, <2>3, Limits
<1>7. Window' = Window /\ Full' = Full /\ Capacity' = Capacity
  BY DEF Full
<1> QED BY <1>2, <1>5, <1>6, <1>7 DEF BucketTyped, BucketPays

(* A refusal and the prune of another address read the bucket only.        *)
LEMMA ReadPays == LimitsInv /\ (Refuse \/ Prune) => (BucketTyped /\ BucketPays)'
<1> SUFFICES ASSUME LimitsInv, Refuse \/ Prune
             PROVE  (BucketTyped /\ BucketPays)'
  OBVIOUS
<1>0. BucketTyped /\ Filled \in 0..Full
  BY LevelIsFilled DEF LimitsInv
<1>1. Filled' = Filled /\ units' \in 0..Full /\ idle' \in Nat
  <2>1. CASE Refuse
    BY <1>0, <2>1, LevelIsFilled, FilledAt DEF Refuse
  <2>2. CASE Prune /\ Forgotten(idle)
    <3>1. units' = Full /\ idle' = 0 /\ Full \in 0..Full
      BY <2>2, Limits DEF Prune, Kept
    <3> QED BY <1>0, <2>2, <3>1, LevelIsFilled, FilledAt
  <2>3. CASE Prune /\ ~Forgotten(idle)
    BY <1>0, <2>3 DEF Prune, Kept, Filled, BucketTyped
  <2> QED BY <2>1, <2>2, <2>3
<1>2. admitted' = admitted
  BY DEF Refuse, Prune
<1> QED BY <1>0, <1>1, <1>2 DEF BucketTyped, BucketPays, LimitsInv, Full

LEMMA TickPays == LimitsInv /\ Tick => (BucketTyped /\ BucketPays)'
<1> SUFFICES ASSUME LimitsInv, Tick
             PROVE  (BucketTyped /\ BucketPays)'
  OBVIOUS
<1>0. BucketTyped /\ Filled \in 0..Full
  BY LevelIsFilled DEF LimitsInv
<1>1. units' = units /\ idle' \in Nat
  BY <1>0, Limits DEF Tick, AtMost, BucketTyped
<1>2. BucketTyped'
  BY <1>0, <1>1, Limits DEF BucketTyped, Full, Tick, Older
<1>4. Filled' \in 0..Full
  BY <1>0, <1>1, FilledFits DEF Filled, BucketTyped
<1>3. Filled' <= Filled + Capacity
  <2>1. CASE idle < Stale + 1
    <3>1. idle' = idle + 1
      BY <2>1, <1>0, Limits DEF Tick, AtMost, BucketTyped
    <3>2. \A m, c \in Nat : (m + 1) * c = m * c + c /\ m * c \in Nat
      OBVIOUS
    <3>3. idle' * Capacity = idle * Capacity + Capacity /\ idle * Capacity \in Nat
      BY <1>0, <3>1, <3>2, Limits DEF BucketTyped
    <3> DEFINE a == idle * Capacity
               b == idle' * Capacity
    <3>4. Filled = AtMost(Full, units + a) /\ Filled' = AtMost(Full, units + b)
      BY <1>1 DEF Filled
    <3>5. b = a + Capacity /\ a \in Nat /\ units \in Nat
      BY <1>0, <3>3 DEF BucketTyped
    <3> HIDE DEF a, b
    <3> QED
      BY <3>4, <3>5, Limits DEF AtMost
  <2>2. CASE idle >= Stale + 1
    <3>1. Filled = Full
      BY <1>0, <2>2, LevelIsFilled, Limits DEF Forgotten, BucketTyped
    <3> QED BY <1>4, <3>1, Limits
  <2> QED BY <1>0, <2>1, <2>2, Limits DEF BucketTyped
<1>5. ASSUME NEW t \in 0..Window
      PROVE  Window * admitted'[t] + Filled' <= Full + t * Capacity
  <2>1. CASE t = 0
    <3>1. admitted'[t] = 0
      BY <1>0, <2>1, Limits DEF Tick, Older, BucketTyped
    <3>2. Window * 0 = 0 /\ 0 * Capacity = 0
      BY Limits
    <3>3. Window * admitted'[t] = 0 /\ t * Capacity = 0
      BY <2>1, <3>1, <3>2
    <3> QED BY <1>4, <3>3, Limits
  <2>2. CASE t # 0
    <3> DEFINE s == t - 1
    <3>1. s \in 0..Window /\ admitted'[t] = admitted[s] /\ admitted[s] \in Int
      BY <1>0, <2>2, Limits DEF Tick, Older, BucketTyped
    <3>2. Window * admitted[s] + Filled <= Full + s * Capacity
      BY <3>1 DEF LimitsInv, BucketPays
    <3>3. \A m \in Nat, c \in Nat : m > 0 => /\ (m - 1) * c \in Nat /\ m * c \in Nat
                                           /\ m * c = (m - 1) * c + c
      OBVIOUS
    <3>4. t * Capacity = s * Capacity + Capacity /\ s * Capacity \in Nat
      BY <2>2, <3>3, Limits
    <3>5. \A w, n \in Int : w * n \in Int
      OBVIOUS
    <3>6. Window * admitted[s] \in Int
      BY <3>1, <3>5, Limits
    <3> QED BY <1>0, <1>3, <1>4, <3>1, <3>2, <3>4, <3>6, Limits
  <2> QED BY <2>1, <2>2
<1>6. Window' = Window /\ Full' = Full /\ Capacity' = Capacity
  BY DEF Full
<1> QED BY <1>2, <1>5, <1>6 DEF BucketPays

LEMMA QueriesStayCounted == LimitsInv /\ [LimitsNext]_limitVars => QueriesCounted'
<1> SUFFICES ASSUME LimitsInv, [LimitsNext]_limitVars
             PROVE  QueriesCounted'
  OBVIOUS
<1>1. CASE UNCHANGED <<asked, answered>>
  BY <1>1 DEF LimitsInv, QueriesCounted, Ever
<1>2. CASE Query
  <2> DEFINE recent == Recent(asked)
  <2>1. /\ recent \in [0..Ever -> Nat] /\ recent[Ever] < MaxQueries
        /\ \A t \in 0..QueryWindow : recent[t] = asked[t]
        /\ \A t \in 0..QueryWindow : recent[t] <= recent[t + 1]
    BY <1>2, Limits DEF LimitsInv, QueriesCounted, Ever, Query, Recent
  <2>2. asked' = [t \in 0..Ever |-> recent[t] + 1]
    BY <1>2, <2>1 DEF Query, Counted
  <2>3. answered' \in [0..QueryWindow -> Int]
        /\ \A t \in 0..QueryWindow : answered'[t] <= answered[t] + 1
    <3>1. answered \in [0..QueryWindow -> Int]
      BY DEF LimitsInv, QueriesCounted
    <3>2. answered' = answered \/ answered' = [t \in 0..QueryWindow |-> answered[t] + 1]
      BY <1>2, <3>1 DEF Query, Counted
    <3>3. CASE answered' = answered
      BY <3>1, <3>3
    <3>4. CASE answered' = [t \in 0..QueryWindow |-> answered[t] + 1]
      <4>1. \A t \in 0..QueryWindow : answered[t] + 1 \in Int
        BY <3>1
      <4> QED BY <3>4, <4>1
    <3> QED BY <3>2, <3>3, <3>4
  <2>4. \A t \in 0..QueryWindow : /\ answered[t] \in Int /\ answered[t] <= asked[t]
                                  /\ asked[t] \in Int /\ answered'[t] \in Int
                                  /\ t \in 0..Ever /\ t + 1 \in 0..Ever
    BY <2>3, Limits DEF LimitsInv, QueriesCounted, Ever
  <2>5. Ever \in 0..Ever
    BY Limits DEF Ever
  <2> HIDE DEF recent
  <2>6. asked' \in [0..Ever -> Nat] /\ asked'[Ever] <= MaxQueries
    BY <2>1, <2>2, <2>5, Limits
  <2>7. \A t \in 0..QueryWindow : answered'[t] <= asked'[t] /\ asked'[t] <= asked'[t + 1]
    BY <2>1, <2>2, <2>3, <2>4
  <2> QED BY <2>3, <2>6, <2>7 DEF QueriesCounted, Ever
<1>3. CASE QueryRefused
  BY <1>3, Limits DEF LimitsInv, QueriesCounted, Ever, QueryRefused, Recent
<1>4. CASE Tick
  <2>1. /\ asked \in [0..Ever -> Nat] /\ answered \in [0..QueryWindow -> Int]
        /\ \A t \in 0..QueryWindow : answered[t] <= asked[t] /\ asked[t] <= asked[t + 1]
        /\ asked[Ever] <= MaxQueries
    BY DEF LimitsInv, QueriesCounted
  <2>2. answered' = [t \in 0..QueryWindow |-> IF t = 0 THEN 0 ELSE answered[t - 1]]
    BY <1>4, <2>1 DEF Tick, Older
  <2>3. asked' = [t \in 0..Ever |-> IF t = Ever THEN asked[Ever]
                                   ELSE IF t = 0 THEN 0 ELSE asked[t - 1]]
    BY <1>4, <2>1 DEF Tick, Older
  <2>4. Ever = QueryWindow + 1 /\ QueryWindow \in Nat /\ Ever \in 0..Ever /\ Ever # 0
    BY Limits DEF Ever
  <2>5. asked' \in [0..Ever -> Nat] /\ asked'[Ever] = asked[Ever]
    BY <2>1, <2>3, <2>4
  <2>6. answered' \in [0..QueryWindow -> Int]
    BY <2>1, <2>2, <2>4
  <2>7. ASSUME NEW t \in 0..QueryWindow
        PROVE  answered'[t] <= asked'[t] /\ asked'[t] <= asked'[t + 1]
    <3>1. t \in 0..Ever /\ t + 1 \in 0..Ever /\ t # Ever /\ t + 1 # 0 /\ t + 1 - 1 = t
      BY <2>4
    <3>2. asked'[t + 1] = IF t + 1 = Ever THEN asked[Ever] ELSE asked[t]
      BY <2>3, <3>1
    <3>3. asked[t] <= asked[t + 1] /\ asked[t] \in Nat
      BY <2>1, <3>1
    <3>4. asked'[t + 1] >= asked[t] /\ asked'[t + 1] \in Nat
      BY <2>1, <2>4, <3>1, <3>2, <3>3
    <3>5. CASE t = 0
      <4>1. answered'[t] = 0 /\ asked'[t] = 0
        BY <2>2, <2>3, <3>1, <3>5
      <4> QED BY <3>4, <3>3, <4>1
    <3>6. CASE t # 0
      <4>1. t - 1 \in 0..QueryWindow /\ t - 1 + 1 = t
        BY <2>4, <3>6
      <4>2. answered'[t] = answered[t - 1] /\ asked'[t] = asked[t - 1]
        BY <2>2, <2>3, <3>1, <3>6
      <4>3. answered[t - 1] <= asked[t - 1] /\ asked[t - 1] <= asked[t]
        BY <2>1, <4>1
      <4>4. asked[t - 1] \in Int /\ asked'[t + 1] \in Int
        BY <2>1, <2>5, <3>1, <4>1, <2>4
      <4> QED BY <3>3, <3>4, <4>2, <4>3, <4>4
    <3> QED BY <3>5, <3>6
  <2> QED BY <2>1, <2>5, <2>6, <2>7 DEF QueriesCounted, Ever
<1> QED
  BY <1>1, <1>2, <1>3, <1>4 DEF LimitsNext, limitVars, Admit, Refuse, Prune

LEMMA LimitSteps == LimitsInv /\ [LimitsNext]_limitVars => LimitsInv'
<1> SUFFICES ASSUME LimitsInv, [LimitsNext]_limitVars
             PROVE  (BucketTyped /\ BucketPays)'
  BY QueriesStayCounted DEF LimitsInv
<1>1. CASE Query \/ QueryRefused \/ UNCHANGED limitVars
  BY <1>1 DEF Query, QueryRefused, limitVars, LimitsInv, BucketTyped, BucketPays,
              Filled, Full
<1> QED BY <1>1, AdmitPays, ReadPays, TickPays DEF LimitsNext

(* "general per-IP allowance" (security.py:29-31), for any capacity,       *)
(* window and pruning: no span of t steps lets in more than a full bucket  *)
(* and what t steps refill, and the copilot answers no more questions in   *)
(* its window than it allows.                                              *)
THEOREM AdmissionsAreBounded == LimitsSpec => []AdmissionsBounded
<1>1. LimitsInit => LimitsInv
  <2> SUFFICES ASSUME LimitsInit PROVE LimitsInv
    OBVIOUS
  <2>1. /\ units = Full /\ idle = 0 /\ Full \in 0..Full
        /\ admitted = [t \in 0..Window |-> 0]
    BY Limits DEF LimitsInit
  <2>2. BucketTyped
    BY <2>1 DEF BucketTyped
  <2>3. Filled = Full
    BY <2>1, Limits DEF Filled, AtMost
  <2>4. \A t \in 0..Window : t * Capacity \in Nat
    <3>1. \A m, n \in Nat : m * n \in Nat
      OBVIOUS
    <3> QED BY <3>1, Limits
  <2>5. BucketPays
    BY <2>1, <2>3, <2>4, Limits DEF BucketPays
  <2>6. QueriesCounted
    BY Limits DEF LimitsInit, QueriesCounted, Ever
  <2> QED BY <2>2, <2>5, <2>6 DEF LimitsInv
<1>2. LimitsInv => AdmissionsBounded
  <2> SUFFICES ASSUME LimitsInv PROVE AdmissionsBounded
    OBVIOUS
  <2>1. Filled \in 0..Full /\ BucketTyped
    BY LevelIsFilled DEF LimitsInv
  <2>2. \A t \in 0..Window : /\ Window * admitted[t] \in Int
                             /\ t * Capacity \in Nat
    <3>1. \A w, n \in Int : w * n \in Int
      OBVIOUS
    <3>2. \A m, n \in Nat : m * n \in Nat
      OBVIOUS
    <3> QED BY <2>1, <3>1, <3>2, Limits DEF BucketTyped
  <2>3. answered[QueryWindow] <= MaxQueries
    <3>1. QueryWindow \in 0..QueryWindow /\ QueryWindow + 1 = Ever
      BY Limits DEF Ever
    <3> QED BY <3>1, Limits DEF LimitsInv, QueriesCounted, Ever
  <2> QED BY <2>1, <2>2, <2>3, Limits DEF LimitsInv, BucketPays, AdmissionsBounded
<1> QED BY <1>1, <1>2, LimitSteps, PTL DEF LimitsSpec
=============================================================================
