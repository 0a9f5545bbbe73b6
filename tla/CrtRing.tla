-------------------------------- MODULE CrtRing --------------------------------
(***************************************************************************)
(* The integer arithmetic of the dual-ring matrix product                  *)
(* (desktop/crt/sp_crt.h, sp_crt.c, sp_crt_cuda.cu and the compute shader  *)
(* sp_crt_matmul_mod.comp): a sum of products is computed modulo M1 on one *)
(* device and modulo M2 on another, and the host joins the two residues.   *)
(*                                                                         *)
(* The code's word sizes are parameters.  There B = 2^31, Gap = 19 and     *)
(* GarnerC = 2028178983; a 32-bit word, which the shader computes in,      *)
(* holds the numbers below 2 * B.                                          *)
(***************************************************************************)
EXTENDS Integers

CONSTANTS B,        \* 2^31: the Mersenne ring is M1 = B - 1
          Gap,      \* the second ring is M2 = B - Gap
          GarnerC   \* the inverse of M1 modulo M2

ASSUME RingAssumption ==
    /\ B \in Nat /\ B > 3
    /\ Gap \in Nat /\ 1 < Gap /\ Gap * Gap <= 2 * B

M1 == B - 1
M2 == B - Gap

(* SP_CRT_GARNER_C is "verified: M1*C mod M2 == 1".                        *)
ASSUME GarnerAssumption ==
    /\ GarnerC \in 0 .. M2 - 1
    /\ (M1 * GarnerC) % M2 = 1

----------------------------------------------------------------------------
(***************************************************************************)
(* sp_crt_mersenne_reduce: fold the high bits down, once or twice, and     *)
(* subtract M1 at most once.                                               *)
(***************************************************************************)
Fold(x) == (x % B) + (x \div B)

MersenneReduce(x) ==
    LET r == IF Fold(x) >= B THEN Fold(Fold(x)) ELSE Fold(x)
    IN  IF r >= M1 THEN r - M1 ELSE r

MersenneStep(acc, a, b) == MersenneReduce(acc + a * b)
GenericStep(acc, a, b) == (acc + a * b) % M2

(***************************************************************************)
(* The shader's product: it has no 64-bit integers, so it splits the       *)
(* product at the word and replaces 2 * B by its residue, 2 * Gap (38 in   *)
(* the code).  Every intermediate sum is taken in one word.                *)
(***************************************************************************)
Word == 2 * B
WordResidue == 2 * Gap

ShaderSum(a, b) ==
    LET high == ((a * b) \div Word) % M2
        low  == ((a * b) % Word) % M2
        part == high * WordResidue
    IN  (part \div Word) * WordResidue + ((part % Word) % M2) + low

SumWraps(a, b) == ShaderSum(a, b) >= Word

ShaderMul(a, b) == (ShaderSum(a, b) % Word) % M2

ShaderStep(acc, a, b) == ((acc + ShaderMul(a, b)) % Word) % M2

----------------------------------------------------------------------------
(* Mutant: the remainder keeps the sign of the number, as % does in C.     *)
SignedRemainder(q, m) == IF q >= 0 THEN q % m ELSE - ((-q) % m)

(* sp_crt_quantize_symmetric, from the rounded number q on: a negative     *)
(* number becomes the ring's modular negative.                             *)
Residue(q, m) ==
    IF q >= 0 THEN q % m
    ELSE LET pos == (-q) % m IN IF pos = 0 THEN 0 ELSE m - pos

(* sp_crt_garner_signed: the number whose residues are r1 and r2, taken    *)
(* negative when it lies in the upper half of the combined range.          *)
Lift(r1, r2) ==
    LET s == r1 % M2
        diff == IF r2 >= s THEN r2 - s ELSE M2 - s + r2
    IN  r1 + ((diff * GarnerC) % M2) * M1

GarnerSigned(r1, r2) ==
    LET raw == Lift(r1, r2)
    IN  IF 2 * raw > M1 * M2 THEN raw - M1 * M2 ELSE raw

(* The number of the signed range that has the residues of x: x itself, or *)
(* x less a multiple of the range when x is outside it.                    *)
Wrapped(x) ==
    LET raw == x % (M1 * M2)
    IN  IF 2 * raw > M1 * M2 THEN raw - M1 * M2 ELSE raw
=============================================================================
