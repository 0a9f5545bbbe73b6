----------------------------- MODULE MCSpecDecode -----------------------------
(* Model checking of SpecDecode with a vocabulary of three tokens.         *)
EXTENDS SpecDecode
=============================================================================
