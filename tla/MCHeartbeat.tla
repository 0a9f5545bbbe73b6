------------------------------ MODULE MCHeartbeat ------------------------------
(* Model checking of Heartbeat.                                            *)
EXTENDS Heartbeat
=============================================================================
