---------------------------- MODULE RequestRoutes ---------------------------
(***************************************************************************)
(* Which requests are answered, and how (platform/nexus/server.py, do_GET  *)
(* and do_POST; mcp.py): the host a request is for, the pages anybody may  *)
(* read, the identity, the gate for citizens, the roles a route asks for,  *)
(* and the ways it may fail: a table gives each error code the routes      *)
(* whose handlers answer with it.                                          *)
(*                                                                         *)
(* Bodies and payloads are left out, and so are the 500 of an unexpected   *)
(* error, and a body above the limit.  What routes change is in the        *)
(* modules of what they change; the rate gate is in RequestLimits.         *)
(***************************************************************************)
EXTENDS Naturals, Roles

Stranger == "stranger"   \* no assertion, or one that does not verify
Crew == {"operator", "admin"}

-----------------------------------------------------------------------------
Public == {"/healthz", "/landing", "/community", "/", "/landing-assets/"}

CityReads ==
  {"/api/status", "/api/events", "/api/grid", "/api/cities", "/api/camera",
   "/api/vision/status", "/api/livehealth", "/api/traveltimes",
   "/api/analytics", "/api/emergencies"}

RecordReads ==
  {"/api/audit", "/api/audit/export", "/api/whoami", "/api/cascade",
   "/api/incidents", "/api/incident/report", "/api/plan/instruction"}

CrewReads ==
  {"/api/community/profile", "/api/community/pending", "/api/handover",
   "/api/community/nearby", "/api/community/incident", "/api/incident/frame",
   "/api/community/photo"}

Reads == CityReads \cup RecordReads \cup CrewReads \cup {"elsewhere"}

Decisions == {"/api/incident/ack", "/api/incident/contact",
              "/api/incident/resolve", "/api/plan/approve",
              "/api/plan/reject", "/api/plan/rollback"}

EngineWrites ==
  Decisions \cup {"/api/incident/notes", "/api/recommend", "/api/scenario",
                 "/api/logout", "/api/tick", "/api/incident/analyze"}

Governance == {"/api/mode", "/api/threshold"}

OtherWrites ==
  Governance \cup
  {"/api/copilot/query", "/api/v1/verify", "/api/v1/certs/verify",
   "/api/community/profile", "/api/community/confirm",
   "/api/community/comment", "/api/community/report",
   "/api/community/moderate", "/mcp"}

Writes == EngineWrites \cup OtherWrites \cup {"elsewhere"}

Routes(method) == IF method = "GET" THEN Reads ELSE Writes

(* The routes whose handlers answer with an error code, by the code.       *)
BadInput == 400
Errors == {400, 403, 404, 429, 503}

ReadErrors(code) ==
  CASE code = 400 -> {"/api/analytics", "/api/emergencies", "/api/incidents",
                      "/api/plan/instruction", "/api/handover",
                      "/api/community/nearby"}
    [] code = 404 -> {"/api/camera", "/api/cascade", "/api/incident/report",
                      "/api/plan/instruction", "/api/community/incident",
                      "/api/incident/frame", "/api/community/photo", "elsewhere"}
    [] code = 503 -> {"/api/camera"}
    [] code = 403 -> {"/api/community/photo"}   \* not yet moderated
    [] OTHER -> {}

WriteErrors(code) ==
  CASE code = 400 -> (Decisions \ {"/api/incident/ack"}) \cup Governance \cup
                     {"/api/scenario", "/api/v1/verify", "/api/v1/certs/verify",
                      "/api/community/profile", "/api/community/confirm",
                      "/api/community/comment", "/api/community/report",
                      "/api/community/moderate"}
    [] code = 404 -> Decisions \cup
                     {"/api/incident/notes", "/api/recommend", "/api/scenario",
                      "/api/incident/analyze", "/api/community/confirm",
                      "/api/community/comment", "/api/community/moderate",
                      "elsewhere"}
    [] code = 429 -> {"/api/copilot/query", "/api/community/confirm",
                      "/api/community/comment", "/api/community/report"}
    [] code = 503 -> {"/api/incident/analyze"}
    [] OTHER -> {}

FailsWith(method, code) ==
  IF method = "GET" THEN ReadErrors(code) ELSE WriteErrors(code)

-----------------------------------------------------------------------------
(* route.startswith("/api/community/") or an extra one                     *)
Community == {"/api/community/profile", "/api/community/nearby",
  "/api/community/incident", "/api/community/pending",
  "/api/community/photo", "/api/community/confirm", "/api/community/report",
  "/api/community/comment", "/api/community/moderate"}

Extra(method) == IF method = "GET" THEN {"/api/whoami"} ELSE {"/api/logout"}

BadCitizenBlocked(role, method, route) ==
  role = "citizen" /\ method = "POST" /\ route \notin Community \cup Extra("POST")

CitizenBlocked(role, method, route) ==
  role = "citizen" /\ route \notin Community \cup Extra(method)

(* The roles a handler asks for itself or through the engine's _require.   *)
ReadersOf(route) ==
  CASE route = "/api/audit/export"      -> {"admin", "analyst"}
    [] route = "/api/community/pending" -> Crew \cup {"analyst"}
    [] OTHER                            -> Role

WritersOf(route) ==
  CASE route \in Decisions \cup {"/api/community/moderate"} -> Crew
    [] route = "/api/incident/notes" -> Crew \cup {"analyst"}
    [] route \in Governance          -> {"admin"}
    [] OTHER                         -> Role

Reserved(role, method, route) ==
  role \notin IF method = "GET" THEN ReadersOf(route) ELSE WritersOf(route)

(* Moderators see photos nobody has decided about yet.                     *)
Codes(role, method, route) ==
  (IF route = "elsewhere" THEN {} ELSE {200}) \cup
    {code \in Errors :
       /\ route \in FailsWith(method, code)
       /\ code = 403 => role \notin Crew \cup {"analyst"}}

(* The tools of /mcp read; one of them, the audit trail, for two roles.    *)
Tools == {"list_incidents", "get_plan", "get_audit", "attempt_action"}
Listings == {"initialize", "tools/list"}

ToolAnswers(role, tool) ==
  IF tool = "get_audit" /\ role \notin {"analyst", "admin"}
  THEN {"permission denied"}
  ELSE {"result", "invalid params", "internal error"}

McpAnswers(role, call) ==
  {"invalid request", "invalid params"} \cup
    CASE call \in Listings -> {"result"}
      [] call \in Tools    -> ToolAnswers(role, call)
      [] OTHER             -> {"method not found"}

-----------------------------------------------------------------------------
NoTool == <<"none", "none">>

VARIABLE reply   \* the last answer: [role, method, route, code, tool]

RoutesInit ==
  reply = [role |-> Stranger, method |-> "GET", route |-> "/", code |-> 200,
           tool |-> NoTool]

Answer(role, method, route, code, tool) ==
  reply' = [role |-> role, method |-> method, route |-> route, code |-> code,
            tool |-> tool]

(* Pages that need no identity; the landing host has no others.            *)
ServePage ==
  \E role \in Role \cup {Stranger}, route \in Public :
    \E code \in {200} \cup (IF route = "/landing-assets/" THEN {404} ELSE {}) :
      Answer(role, "GET", route, code, NoTool)

Unidentified ==
  \E method \in {"GET", "POST"} : \E route \in Routes(method) :
    Answer(Stranger, method, route, 401, NoTool)

(* A mode or a threshold is parsed before its route looks at the role.     *)
Forbidden ==
  \E role \in Role, method \in {"GET", "POST"} :
    \E route \in Routes(method) :
      \/ /\ CitizenBlocked(role, method, route)
         /\ Answer(role, method, route, 403, NoTool)
      \/ /\ ~CitizenBlocked(role, method, route)
         /\ Reserved(role, method, route)
         /\ \E code \in {403} \cup (IF route \in Governance THEN {BadInput} ELSE {}) :
              Answer(role, method, route, code, NoTool)

Handle ==
  \E role \in Role, method \in {"GET", "POST"} :
    \E route \in Routes(method) :
      /\ ~CitizenBlocked(role, method, route)
      /\ ~Reserved(role, method, route)
      /\ \E code \in Codes(role, method, route) :
           Answer(role, method, route, code, NoTool)

(* /mcp answers 200 whatever its tool says.                                *)
HandleMcp ==
  \E role \in Role, call \in Tools \cup Listings \cup {"another"} :
    /\ ~CitizenBlocked(role, "POST", "/mcp")
    /\ \E tool \in McpAnswers(role, call) :
         Answer(role, "POST", "/mcp", 200, <<call, tool>>)

RoutesNext == ServePage \/ Unidentified \/ Forbidden \/ Handle \/ HandleMcp

RoutesSpec == RoutesInit /\ [][RoutesNext]_reply

-----------------------------------------------------------------------------
(* "Citizens are hard-gated to the Community Watch API only - no operator  *)
(* data plane, no governance actions" (server.py:474-475), over the gate's *)
(* prefix, the exceptions of either method, the roles of single routes and *)
(* the tools for agents; and of the community routes a citizen never gets  *)
(* the moderators'.                                                        *)
CitizensConfined ==
  reply.role = "citizen" /\ reply.code < 400 =>
    \/ reply.route \in Public \cup {"/api/whoami", "/api/logout"}
    \/ /\ reply.route \in Community
       /\ reply.route \notin {"/api/community/pending",
                              "/api/community/moderate"}
=============================================================================
