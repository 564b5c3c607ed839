-------------------------------- MODULE Roles -------------------------------
(***************************************************************************)
(* The roles of the platform (platform/nexus/models.py, Role).             *)
(***************************************************************************)
Role == {"citizen", "viewer", "analyst", "operator", "admin"}
=============================================================================
