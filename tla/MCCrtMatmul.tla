----------------------------- MODULE MCCrtMatmul -----------------------------
(***************************************************************************)
(* Model checking of CrtMatmul, on words of 7 bits: M1 = 63, M2 = 53 and   *)
(* a signed range of -1669 .. 1669.  With this pair the shader's sum can   *)
(* wrap, as it can with the code's: (-17) * (-2) makes it.  QMax is 31 for *)
(* one product and 26, the limit tried here, for two.  450 * (-2) twice is *)
(* out of range, and the calibration of the ggml hook lets it through;     *)
(* 450 * 26, which leaves the range several times over, an expert's does.  *)
(***************************************************************************)
EXTENDS CrtMatmul

MCLeft == {-17, 450}
MCRight == {-2, 26}
=============================================================================
