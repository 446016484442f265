---------------------------- MODULE MCSidecar ----------------------------
(* The sidecar with concurrent callers, as concurrent_start_allows_only_     *)
(* one_spawn_decision and the comment in start_sidecar foresee them.         *)
EXTENDS SidecarLifecycle

CONSTANTS c1, c2, p1
============================================================================
