----------------------------- MODULE MCPodCache -----------------------------
(* Small instances of PodCache for TLC. *)
EXTENDS PodCache
=============================================================================
