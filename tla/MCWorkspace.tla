---------------------------- MODULE MCWorkspace ----------------------------
(* The page with two personas, of which the second has no conversation yet. *)
EXTENDS Workspace

CONSTANTS a, b   \* the personas
=============================================================================
