-------------------------- MODULE ServerRegistryMC --------------------------
(* Small instances of ServerRegistry for TLC. *)
EXTENDS ServerRegistry

CONSTANTS ss1

\* Two runs of the same server.
OneServer == <<ss1, ss1>>
=============================================================================
