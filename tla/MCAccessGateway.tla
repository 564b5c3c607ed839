--------------------------- MODULE MCAccessGateway --------------------------
(***************************************************************************)
(* What the platform answers and tells: five machines that share no state, *)
(* side by side.  A behaviour runs one of them, the part it begins with,   *)
(* and the others stay in their first state.                               *)
(***************************************************************************)
EXTENDS AccessGateway, RequestRoutes, RequestLimits, PushChannel,
        ShiftHandover

VARIABLE part

handles == <<reply, limitVars>>
tells == <<pushVars, handoverVars>>
mcVars == <<part, gatewayVars, handles, tells>>

Part == {"govern", "routes", "limits", "push", "handover"}

MCValue == [mode |-> {"auto", "manual"}, threshold |-> {"legal", "illegal"}]
MCGoverned == [mode |-> {"auto", "manual"}, threshold |-> {"legal", "default"}]
MCDefault == [mode |-> "manual", threshold |-> "default"]
MCListed == [r \in Role |-> CASE r = "admin" -> {"chief"}
                              [] r = "citizen" -> {"neighbour"}
                              [] OTHER -> {}]
MCServiceRole == [robot |-> "citizen"]
MCToken ==
  [kid : Kid, who : {"chief", "visitor"}, good : {TRUE}]
    \cup [kid : {CHOOSE k \in Kid : TRUE}, who : {"neighbour", "robot"}, good : {TRUE}]
    \cup [kid : {CHOOSE k \in Kid : TRUE}, who : {"chief"}, good : {FALSE}]

MCInit ==
  /\ part \in Part
  /\ GatewayInit
  /\ part # "govern" => published = Kid /\ serves
  /\ RoutesInit /\ LimitsInit /\ PushInit /\ HandoverInit

MCNext ==
  /\ UNCHANGED part
  /\ \/ part = "govern" /\ GatewayNext /\ UNCHANGED <<handles, tells>>
     \/ part = "routes" /\ RoutesNext
        /\ UNCHANGED <<gatewayVars, limitVars, tells>>
     \/ part = "limits" /\ LimitsNext /\ UNCHANGED <<gatewayVars, reply, tells>>
     \/ part = "push" /\ PushNext
        /\ UNCHANGED <<gatewayVars, handles, handoverVars>>
     \/ part = "handover" /\ HandoverNext
        /\ UNCHANGED <<gatewayVars, handles, pushVars>>

MCSpec == MCInit /\ [][MCNext]_mcVars /\ (part = "push" => PushFairness)
=============================================================================
