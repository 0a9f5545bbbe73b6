----------------------------- MODULE MCExpertCache -----------------------------
(* Model checking of ExpertCache.                                          *)
EXTENDS ExpertCache
=============================================================================
