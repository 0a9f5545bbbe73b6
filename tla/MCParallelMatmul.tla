--------------------------- MODULE MCParallelMatmul ---------------------------
(* Model checking of ParallelMatmul; the proofs' assumptions are evaluated *)
(* too.                                                                    *)
EXTENDS ParallelMatmul

ASSUME OneDriver
=============================================================================
