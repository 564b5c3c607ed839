---------------------------- MODULE AccessGateway ---------------------------
(***************************************************************************)
(* A request that changes the operating mode or the threshold, from the    *)
(* assertion it carries to the store (platform/nexus/server.py, _principal *)
(* and do_POST; engine.py, _require and the two setters): AccessKeys says  *)
(* whom to believe, GovernedSettings what the call then does.  Between its *)
(* steps keys rotate, the provider fails, the store fails, the process     *)
(* dies, time passes, and requests of other routes fetch keys and rewrite  *)
(* the table of users.                                                     *)
(*                                                                         *)
(* The offline identity of NEXUS_DEV_IDENTITY is left out: a platform has  *)
(* one or the other, and refuses to start with both or neither.            *)
(***************************************************************************)
EXTENDS GovernedSettings, AccessKeys

CONSTANT Token   \* assertions that may arrive, each [kid, who, good]

VARIABLES
  users,     \* engine.users: the role of each subject seen so far
  request    \* per thread: the subject of the request it serves, and its wish

gatewayVars == <<vars, keyVars, users, request>>

Nobody == [who |-> "nobody", setting |-> "none", value |-> "none"]

GatewayInit ==
  /\ Init /\ KeysInit
  /\ users = [w \in Subject |-> NoRole]
  /\ request = [a \in Admin |-> Nobody]

Free(a) == process = "up" /\ request[a] = Nobody /\ call[a] = None

(* Citizens are kept to the community routes, and these are not.           *)
KeptOut(role) == role = "citizen"

(* _principal: a verified subject is entered with its role, also when the  *)
(* request is then refused; an unverified one is answered 401.             *)
Entered(t) ==
  IF Verified(t) = NoRole THEN users
  ELSE [users EXCEPT ![t.who] = Verified(t)]

(* A request of any other route, on a thread of its own.                   *)
Identify(t) ==
  /\ process = "up"
  /\ LookUp(t.kid)
  /\ users' = Entered(t)
  /\ UNCHANGED <<vars, request>>

Authenticate(a, t, s, v) ==
  /\ Free(a)
  /\ LookUp(t.kid)
  /\ users' = Entered(t)
  /\ request' = IF Verified(t) = NoRole \/ KeptOut(Verified(t)) THEN request
                ELSE [request EXCEPT
                        ![a] = [who |-> t.who, setting |-> s, value |-> v]]
  /\ UNCHANGED vars

(* _require(user_id, Role.ADMIN)                                           *)
BadMayGovern(w) == users[w] # NoRole
MayGovern(w) == users[w] = "admin"

Refused(r) == ~MayGovern(r.who) \/ ~InRange(r.setting, r.value)

(* set_mode, set_confidence_threshold: the value takes effect, or the      *)
(* request is answered 403 or 400.                                         *)
Govern(a) ==
  /\ process = "up" /\ request[a] # Nobody
  /\ request' = [request EXCEPT ![a] = Nobody]
  /\ IF Refused(request[a]) THEN UNCHANGED vars
     ELSE Apply(a, request[a].setting, request[a].value)
  /\ UNCHANGED <<keyVars, users>>

(* A dying process takes its requests, its users and its cache along.      *)
GatewayCrash ==
  /\ Crash
  /\ request' = [a \in Admin |-> Nobody]
  /\ users' = [w \in Subject |-> NoRole]
  /\ jwks' = {} /\ jwksAge' = Ttl
  /\ UNCHANGED <<published, withdrawn, serves>>

GatewayNext ==
  \/ \E a \in Admin, t \in Token, s \in Setting :
       \E v \in Value[s] : Authenticate(a, t, s, v)
  \/ \E t \in Token : Identify(t)
  \/ \E a \in Admin : Govern(a)
  \/ /\ Start \/ \E a \in Admin : Persist(a) \/ PersistFails(a)
     /\ UNCHANGED <<keyVars, users, request>>
  \/ GatewayCrash
  \/ /\ Rotate \/ Outage \/ KeysAge
     /\ UNCHANGED <<vars, users, request>>

GatewaySpec == GatewayInit /\ [][GatewayNext]_gatewayVars

-----------------------------------------------------------------------------
(* "Mode transitions require Admin authorization" (engine.py:215): while   *)
(* the platform runs nothing is in force but what an administrator of the  *)
(* role lists asked for, through the cached keys, the table of users that  *)
(* any request rewrites, the governed range and any restarts.              *)
OnlyAdminsGovern ==
  [][\A s \in Setting :
       process = "up" /\ memory'[s] # memory[s] =>
         \E a \in Admin : /\ request[a].setting = s
                          /\ RoleFor(request[a].who) = "admin"]_gatewayVars
=============================================================================
