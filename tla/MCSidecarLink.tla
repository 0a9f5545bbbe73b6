----------------------------- MODULE MCSidecarLink -----------------------------
(* Model checking of SidecarLink: either client alone on the socket, and   *)
(* the two heartbeats that are really started on it.                       *)
EXTENDS SidecarLink
=============================================================================
