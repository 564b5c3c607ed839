----------------------------- MODULE AccessKeys -----------------------------
(***************************************************************************)
(* Whom the platform believes (platform/nexus/cfaccess.py): the cached     *)
(* signing keys of the identity provider, their refresh and rotation, and  *)
(* the role a verified assertion gives its subject.                        *)
(*                                                                         *)
(* The cryptography is whether an assertion is signed with the key it      *)
(* names and carries valid times, issuer and audience: the field good.     *)
(* _load_jwks holds the lock over its fetch, so a verification is a step.  *)
(***************************************************************************)
EXTENDS Naturals, FiniteSets, Roles

CONSTANTS
  Kid,         \* key ids
  Ttl,         \* JWKS_TTL_S, in steps of the clock
  Subject,     \* e-mail addresses and service tokens
  Service,     \* the service tokens, which have no e-mail address
  Listed,      \* Listed[r]: the addresses of NEXUS_CF_ACCESS_<R>S
  ServiceRole, \* NEXUS_CF_ACCESS_SERVICE_ROLES, a partial function
  DefaultRole  \* NEXUS_CF_ACCESS_DEFAULT_ROLE

NoRole == "no role"

ASSUME KeyAssumption ==
  /\ Ttl \in Nat \ {0}
  /\ Service \subseteq Subject
  /\ Listed \in [Role -> SUBSET (Subject \ Service)]
  /\ DOMAIN ServiceRole \subseteq Service
  /\ DefaultRole \in Role

VARIABLES
  published,   \* keys the provider serves now
  withdrawn,   \* per key: time since the provider last served it, up to Ttl
  serves,      \* a fetch brings the keys; else it fails or brings none
  jwks,        \* _jwks
  jwksAge      \* time since _jwks_at, up to Ttl

keyVars == <<published, withdrawn, serves, jwks, jwksAge>>

KeysInit ==
  /\ published \in SUBSET Kid \ {{}}
  /\ withdrawn = [k \in Kid |-> IF k \in published THEN 0 ELSE Ttl]
  /\ serves \in BOOLEAN
  /\ jwks = {} /\ jwksAge = Ttl

-----------------------------------------------------------------------------
Fresh == jwks # {} /\ jwksAge < Ttl

(* Looking up key k asks the provider when the cache is old, and once more *)
(* when it does not hold k.                                                *)
BadAsks(k) == k \notin jwks
Asks(k) == ~Fresh \/ k \notin jwks

Fetches(k) == Asks(k) /\ serves

(* The look-up leaves the fetched keys, or what it has when there are none.*)
Loaded(k) == IF Fetches(k) THEN published ELSE jwks

Accepted(k) == k \in Loaded(k)

LookUp(k) ==
  /\ jwks' = Loaded(k)
  /\ jwksAge' = IF Fetches(k) THEN 0 ELSE jwksAge
  /\ UNCHANGED <<published, withdrawn, serves>>

(* The lists are read from the lowest role up, and a later one wins.       *)
AddressRole(w) ==
  CASE w \in Listed["admin"]    -> "admin"
    [] w \in Listed["operator"] -> "operator"
    [] w \in Listed["analyst"]  -> "analyst"
    [] w \in Listed["viewer"]   -> "viewer"
    [] w \in Listed["citizen"]  -> "citizen"
    [] OTHER                    -> DefaultRole

(* A service token is never a citizen: such an entry of the map is dropped.*)
TokenRole(w) ==
  IF w \in DOMAIN ServiceRole /\ ServiceRole[w] \in Role \ {"citizen"}
  THEN ServiceRole[w] ELSE "viewer"

RoleFor(w) ==
  CASE w \in Service           -> TokenRole(w)
    [] w \in Subject \ Service -> AddressRole(w)
    [] OTHER                   -> NoRole

(* The role an assertion earns; none for an identity that is neither.      *)
Verified(t) == IF Accepted(t.kid) /\ t.good THEN RoleFor(t.who) ELSE NoRole

-----------------------------------------------------------------------------
(* The provider rotates its keys, and is sometimes out of reach.           *)
Rotate ==
  /\ \E P \in SUBSET Kid \ {{}} :
       /\ P # published
       /\ published' = P
       /\ withdrawn' = [k \in Kid |-> IF k \in P THEN 0 ELSE withdrawn[k]]
  /\ UNCHANGED <<serves, jwks, jwksAge>>

Outage ==
  /\ serves' = ~serves
  /\ UNCHANGED <<published, withdrawn, jwks, jwksAge>>

Later(n) == IF n < Ttl THEN n + 1 ELSE Ttl

KeysAge ==
  /\ jwksAge' = Later(jwksAge)
  /\ withdrawn' = [k \in Kid |->
                     IF k \in published THEN 0 ELSE Later(withdrawn[k])]
  /\ UNCHANGED <<published, serves, jwks>>

KeysNext == (\E k \in Kid : LookUp(k)) \/ Rotate \/ Outage \/ KeysAge

-----------------------------------------------------------------------------
(* The cached keys follow the provider (cfaccess.py:57, 235-239): a key    *)
(* the provider withdrew at least a TTL ago is accepted only while nothing *)
(* can be fetched, and a key it serves is never refused when it can.       *)
KeysFollowProvider ==
  \A k \in Kid :
    /\ Accepted(k) /\ withdrawn[k] >= Ttl => ~serves
    /\ k \in published /\ serves => Accepted(k)
=============================================================================
