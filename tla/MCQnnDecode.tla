------------------------------ MODULE MCQnnDecode ------------------------------
(* Model checking of QnnDecode with one token and an end of text.         *)
EXTENDS QnnDecode
=============================================================================
