---------------------------- MODULE CrtMatmulProofs ----------------------------
(***************************************************************************)
(* Proofs about CrtRing and CrtMatmul, for every word size the assumptions *)
(* allow - the code's own 2^31 among them, of which a model checker's      *)
(* 32-bit integers only see small relatives - and for every dimension, all *)
(* operands and any number of calls and of failing operations.             *)
(*                                                                         *)
(* First the arithmetic of a step, then the sums over the inner dimension, *)
(* by induction, then the state machine of a call.                         *)
(***************************************************************************)
EXTENDS CrtMatmul, WellFoundedInduction, TLAPS

LEMMA DivMod ==
    ASSUME NEW x \in Int, NEW b \in Nat \ {0}
    PROVE  /\ x \div b \in Int
           /\ (x % b) \in 0 .. b - 1
           /\ x = b * (x \div b) + (x % b)
BY Z3

LEMMA ModUnique ==
    ASSUME NEW b \in Nat \ {0}, NEW q \in Int, NEW r \in 0 .. b - 1
    PROVE  ((b * q + r) % b) = r
BY Z3

LEMMA Moduli ==
    /\ B \in Nat \ {0} /\ M1 \in Nat /\ M1 > 2
    /\ M2 \in Nat /\ M2 > 1 /\ M2 < M1
    /\ GarnerC \in Nat
<1>1. Gap < B
  <2>1. SUFFICES ASSUME Gap >= B PROVE FALSE
    BY RingAssumption
  <2>2. Gap * Gap >= B * B
    BY <2>1, RingAssumption, Z3
  <2>3. B * B > 2 * B
    BY RingAssumption, Z3
  <2> QED  BY <2>2, <2>3, RingAssumption
<1>2. M2 > 1
  <2>1. SUFFICES ASSUME Gap = B - 1 PROVE FALSE
    BY <1>1, RingAssumption DEF M2
  <2>2. (B - 1) * (B - 1) <= 2 * B
    BY <2>1, RingAssumption
  <2>3. CASE B = 4
    BY <2>2, <2>3, Z3
  <2>4. CASE B > 4
    BY <2>2, <2>4, RingAssumption, Z3
  <2> QED  BY <2>3, <2>4, RingAssumption
<1> QED  BY <1>1, <1>2, RingAssumption, GarnerAssumption DEF M1, M2

(***************************************************************************)
(* Adding a multiple of the modulus does not change the residue.           *)
(***************************************************************************)
LEMMA ModShift ==
    ASSUME NEW b \in Nat \ {0}, NEW x \in Int, NEW k \in Int
    PROVE  ((x + b * k) % b) = (x % b)
<1> DEFINE d == x \div b
           r == x % b
<1>1. d \in Int /\ r \in 0 .. b - 1 /\ x = b * d + r
  BY DivMod
<1>2. x + b * k = b * (d + k) + r
  BY <1>1, Z3
<1>3. d + k \in Int
  BY <1>1
<1> HIDE DEF d, r
<1>4. ((b * (d + k) + r) % b) = r
  BY <1>1, <1>3, ModUnique
<1> QED  BY <1>2, <1>4 DEF r

(***************************************************************************)
(* The shift-and-add reduction of the Mersenne ring is the remainder, for  *)
(* every accumulator the comment of sp_crt_mersenne_reduce allows ("Input: *)
(* x < 2^63"): two folds and one subtraction are enough.                   *)
(***************************************************************************)
THEOREM MersenneIsMod == \A x \in 0 .. 2 * B * B - 1 : MersenneReduce(x) = x % M1
<1> SUFFICES ASSUME NEW x \in 0 .. 2 * B * B - 1
             PROVE  MersenneReduce(x) = x % M1
  OBVIOUS
<1> DEFINE hi == x \div B
           lo == x % B
<1>1. /\ B \in Nat \ {0} /\ B > 3 /\ M1 = B - 1 /\ M1 \in Nat \ {0}
      /\ x \in Int /\ x >= 0 /\ x < 2 * B * B
  BY Moduli, RingAssumption DEF M1
<1>2. hi \in Int /\ lo \in 0 .. B - 1 /\ x = B * hi + lo
  BY <1>1, DivMod
<1>3. hi \in 0 .. 2 * B - 1
  <2>1. hi >= 0
    BY <1>1, <1>2, Z3
  <2>2. hi < 2 * B
    BY <1>1, <1>2, Z3
  <2> QED  BY <1>1, <1>2, <2>1, <2>2
<1> DEFINE f == hi + lo
<1>4. Fold(x) = f
  BY <1>2, <1>3 DEF Fold
<1>5. f \in 0 .. 3 * B - 2
  BY <1>1, <1>2, <1>3
<1>6. x = M1 * hi + f
  <2> HIDE DEF hi, lo
  <2>1. (B - 1) * hi = B * hi - hi
    BY <1>1, <1>2, Z3
  <2> QED  BY <1>1, <1>2, <2>1
<1> HIDE DEF hi, lo, f
<1> DEFINE r == IF f >= B THEN Fold(f) ELSE f
<1>7. MersenneReduce(x) = (IF r >= M1 THEN r - M1 ELSE r)
  BY <1>4 DEF MersenneReduce
<1>8. \E k \in Int : f = M1 * k + r
  <2>1. CASE f < B
    <3>1. r = f
      BY <1>1, <1>5, <2>1
    <3>2. f = M1 * 0 + f
      BY <1>1, <1>5
    <3> QED  BY <3>1, <3>2
  <2>2. CASE f >= B
    <3> DEFINE u == f \div B
               v == f % B
    <3>1. u \in Int /\ v \in 0 .. B - 1 /\ f = B * u + v
      BY <1>1, <1>5, DivMod
    <3>2. Fold(f) = v + u
      BY DEF Fold
    <3>3. f = M1 * u + (v + u)
      BY <1>1, <3>1, Z3
    <3> QED  BY <2>2, <3>1, <3>2, <3>3
  <2> QED  BY <1>1, <1>5, <2>1, <2>2
<1>9. r \in 0 .. B
  <2>1. CASE f < B
    BY <1>1, <1>5, <2>1
  <2>2. CASE f >= B
    <3> DEFINE u == f \div B
               v == f % B
    <3>1. u \in Int /\ v \in 0 .. B - 1 /\ f = B * u + v
      BY <1>1, <1>5, DivMod
    <3>2. Fold(f) = v + u
      BY DEF Fold
    <3> HIDE DEF u, v
    <3>3. u = 1 \/ u = 2
      BY <1>1, <1>5, <2>2, <3>1, Z3
    <3>4. v + u \in 0 .. B
      BY <1>1, <1>5, <3>1, <3>3
    <3> QED  BY <2>2, <3>2, <3>4
  <2> QED  BY <1>1, <1>5, <2>1, <2>2
<1> HIDE DEF r
<1>10. PICK k \in Int : f = M1 * k + r
  BY <1>8
<1>11. CASE r >= M1
  <2>1. r - M1 \in 0 .. M1 - 1
    BY <1>1, <1>9, <1>11
  <2>2. x = M1 * (hi + k + 1) + (r - M1)
    BY <1>1, <1>3, <1>6, <1>9, <1>10, Z3
  <2>3. hi + k + 1 \in Int
    BY <1>3, <1>10
  <2>4. ((M1 * (hi + k + 1) + (r - M1)) % M1) = r - M1
    BY <1>1, <2>1, <2>3, ModUnique
  <2> QED  BY <1>7, <1>11, <2>2, <2>4
<1>12. CASE r < M1
  <2>1. r \in 0 .. M1 - 1
    BY <1>1, <1>9, <1>12
  <2>2. x = M1 * (hi + k) + r
    BY <1>1, <1>3, <1>6, <1>9, <1>10, Z3
  <2>3. hi + k \in Int
    BY <1>3, <1>10
  <2>4. ((M1 * (hi + k) + r) % M1) = r
    BY <1>1, <2>1, <2>3, ModUnique
  <2>5. ~ (r >= M1)
    BY <1>1, <1>9, <1>12
  <2> QED  BY <1>7, <2>2, <2>4, <2>5
<1> QED  BY <1>1, <1>9, <1>11, <1>12

-----------------------------------------------------------------------------
(* Splitting a negative number with "M - |q|" is taking its residue.       *)
LEMMA ResidueIsMod ==
    ASSUME NEW q \in Int, NEW m \in Nat \ {0}
    PROVE  Residue(q, m) = q % m
<1>1. CASE q >= 0
  BY <1>1 DEF Residue
<1>2. CASE q < 0
  <2> DEFINE d == (-q) \div m
             pos == (-q) % m
  <2>1. d \in Int /\ pos \in 0 .. m - 1 /\ -q = m * d + pos
    <3>1. -q \in Int
      OBVIOUS
    <3>2. \A n \in Int : /\ n \div m \in Int
                         /\ (n % m) \in 0 .. m - 1
                         /\ n = m * (n \div m) + (n % m)
      BY DivMod
    <3> QED  BY <3>1, <3>2
  <2>2. Residue(q, m) = (IF pos = 0 THEN 0 ELSE m - pos)
    BY <1>2 DEF Residue
  <2> HIDE DEF d, pos
  <2>3. CASE pos = 0
    <3>1. q = m * (-d) + 0
      BY <2>1, <2>3, Z3
    <3>2. ((m * (-d) + 0) % m) = 0
      BY <2>1, ModUnique
    <3> QED  BY <2>2, <2>3, <3>1, <3>2
  <2>4. CASE pos # 0
    <3>1. q = m * (-d - 1) + (m - pos)
      BY <2>1, Z3
    <3>2. m - pos \in 0 .. m - 1 /\ -d - 1 \in Int
      BY <2>1, <2>4
    <3>3. ((m * (-d - 1) + (m - pos)) % m) = m - pos
      BY <3>2, ModUnique
    <3> QED  BY <2>2, <2>4, <3>1, <3>3
  <2> QED  BY <2>3, <2>4
<1> QED  BY <1>1, <1>2

(* One multiply-and-add on residues is one multiply-and-add on numbers.    *)
LEMMA ProductOfResidues ==
    ASSUME NEW m \in Nat \ {0}, NEW s \in Int, NEW p \in Int, NEW q \in Int
    PROVE  (((s % m) + (p % m) * (q % m)) % m) = ((s + p * q) % m)
<1> DEFINE ks == s \div m  rs == s % m
           kp == p \div m  rp == p % m
           kq == q \div m  rq == q % m
<1>1. /\ ks \in Int /\ rs \in Int /\ s = m * ks + rs
      /\ kp \in Int /\ rp \in Int /\ p = m * kp + rp
      /\ kq \in Int /\ rq \in Int /\ q = m * kq + rq
  <2>1. ks \in Int /\ rs \in 0 .. m - 1 /\ s = m * ks + rs
    BY DivMod
  <2>2. kp \in Int /\ rp \in 0 .. m - 1 /\ p = m * kp + rp
    BY DivMod
  <2>3. kq \in Int /\ rq \in 0 .. m - 1 /\ q = m * kq + rq
    BY DivMod
  <2> HIDE DEF ks, rs, kp, rp, kq, rq
  <2> QED  BY <2>1, <2>2, <2>3
<1> HIDE DEF ks, rs, kp, rp, kq, rq
<1> DEFINE k == ks + kp * q + rp * kq
<1>2. p * q = rp * rq + m * (kp * q + rp * kq)
  <2>1. p * q = m * kp * q + rp * q
    BY <1>1, Z3
  <2>2. rp * q = m * (rp * kq) + rp * rq
    BY <1>1, Z3
  <2> QED  BY <1>1, <2>1, <2>2, Z3
<1>3. s + p * q = (rs + rp * rq) + m * k
  BY <1>1, <1>2, Z3
<1>4. kp * q \in Int /\ rp * kq \in Int /\ rs + rp * rq \in Int
  BY <1>1, Z3
<1>5. k \in Int
  BY <1>1, <1>4
<1> HIDE DEF k
<1>6. (((rs + rp * rq) + m * k) % m) = ((rs + rp * rq) % m)
  BY <1>4, <1>5, ModShift
<1> QED  BY <1>3, <1>6 DEF rs, rp, rq

(***************************************************************************)
(* Reducing after every multiplication, as both rings' kernels and both    *)
(* host loops do, keeps the accumulator equal to the residue of the exact  *)
(* sum: the step of the induction over the inner dimension, for signed     *)
(* numbers p and q of any size.                                            *)
(***************************************************************************)
THEOREM StepsKeepResidues ==
    \A s, p, q \in Int :
        /\ MersenneStep(s % M1, Residue(p, M1), Residue(q, M1)) = (s + p * q) % M1
        /\ GenericStep(s % M2, Residue(p, M2), Residue(q, M2)) = (s + p * q) % M2
<1> SUFFICES ASSUME NEW s \in Int, NEW p \in Int, NEW q \in Int
             PROVE  /\ MersenneStep(s % M1, Residue(p, M1), Residue(q, M1))
                         = (s + p * q) % M1
                    /\ GenericStep(s % M2, Residue(p, M2), Residue(q, M2))
                         = (s + p * q) % M2
  OBVIOUS
<1>1. M1 \in Nat \ {0} /\ M2 \in Nat \ {0} /\ B \in Nat /\ M1 = B - 1
  BY Moduli DEF M1
<1>2. /\ Residue(p, M1) = p % M1 /\ Residue(q, M1) = q % M1
      /\ Residue(p, M2) = p % M2 /\ Residue(q, M2) = q % M2
  BY <1>1, ResidueIsMod
<1>3. MersenneStep(s % M1, p % M1, q % M1) = (s + p * q) % M1
  <2> DEFINE x == (s % M1) + (p % M1) * (q % M1)
  <2>1. (s % M1) \in 0 .. M1 - 1 /\ (p % M1) \in 0 .. M1 - 1 /\ (q % M1) \in 0 .. M1 - 1
    BY <1>1, DivMod
  <2>2. x \in 0 .. 2 * B * B - 1
    <3>1. (p % M1) * (q % M1) >= 0 /\ (p % M1) * (q % M1) <= B * B
      <4> DEFINE u == p % M1
                 v == q % M1
      <4>1. u \in 0 .. B /\ v \in 0 .. B
        BY <1>1, <2>1
      <4> HIDE DEF u, v
      <4>2. u * v >= 0 /\ u * v <= B * B
        BY <1>1, <4>1, Z3
      <4> QED  BY <4>2 DEF u, v
    <3>2. B <= B * B /\ B > 0 /\ (s % M1) < B
      <4>1. B > 0
        BY Moduli
      <4>2. B <= B * B
        BY <1>1, <4>1, Z3
      <4> QED  BY <1>1, <2>1, <4>1, <4>2
    <3> DEFINE u == p % M1
               v == q % M1
               t == s % M1
    <3>3. t + u * v >= 0 /\ t + u * v < 2 * B * B /\ t + u * v \in Int
      <4> DEFINE w == u * v
      <4>1. w \in Int /\ w >= 0 /\ w <= B * B /\ t \in Int /\ t >= 0 /\ t < B
        BY <1>1, <2>1, <3>1, <3>2
      <4> HIDE DEF w, t
      <4>2. t + w < 2 * B * B
        BY <1>1, <3>2, <4>1, Z3
      <4> QED  BY <4>1, <4>2 DEF w
    <3> QED  BY <1>1, <3>3
  <2>3. MersenneReduce(x) = x % M1
    BY <2>2, MersenneIsMod
  <2>4. (x % M1) = ((s + p * q) % M1)
    BY <1>1, ProductOfResidues, ZenonT(30)
  <2> QED  BY <2>3, <2>4 DEF MersenneStep
<1>4. GenericStep(s % M2, p % M2, q % M2) = (s + p * q) % M2
  BY <1>1, ProductOfResidues, ZenonT(30) DEF GenericStep
<1> QED  BY <1>2, <1>3, <1>4

-----------------------------------------------------------------------------
(* A number below 2 * w is w more than its remainder by w, or equal to it. *)
LEMMA OneWrap ==
    ASSUME NEW w \in Nat \ {0}, NEW n \in 0 .. 2 * w - 1
    PROVE  (n % w) = (IF n >= w THEN n - w ELSE n)
<1>1. CASE n >= w
  <2>1. n = w * 1 + (n - w) /\ n - w \in 0 .. w - 1
    BY <1>1
  <2>2. ((w * 1 + (n - w)) % w) = n - w
    BY <2>1, ModUnique
  <2> QED  BY <1>1, <2>1, <2>2
<1>2. CASE n < w
  <2>1. n = w * 0 + n /\ n \in 0 .. w - 1
    BY <1>2
  <2>2. ((w * 0 + n) % w) = n
    BY <2>1, ModUnique
  <2> QED  BY <1>2, <2>1, <2>2
<1> QED  BY <1>1, <1>2

(***************************************************************************)
(* The shader's product of two residues is the product modulo M2, except   *)
(* when the one sum it does not reduce passes the 32-bit word: then it is  *)
(* exactly 2 * Gap (38) too small.  So nothing else in the shader's        *)
(* reduction can go wrong, and this can.                                   *)
(***************************************************************************)
THEOREM ShaderMulUpToWrap ==
    \A a, b \in 0 .. M2 - 1 :
        ShaderMul(a, b) = IF SumWraps(a, b) THEN (a * b - WordResidue) % M2
                                            ELSE (a * b) % M2
<1> SUFFICES ASSUME NEW a \in 0 .. M2 - 1, NEW b \in 0 .. M2 - 1
             PROVE  ShaderMul(a, b) = IF SumWraps(a, b)
                                        THEN (a * b - WordResidue) % M2
                                        ELSE (a * b) % M2
  OBVIOUS
<1> DEFINE P == a * b
           hi == P \div Word       lo == P % Word
           k1 == hi \div M2        high == hi % M2
           k2 == lo \div M2        low == lo % M2
           part == high * WordResidue
           ph == part \div Word    pl == part % Word
           k3 == pl \div M2        rest == pl % M2
           S == ShaderSum(a, b)
<1>1. /\ M2 \in Nat \ {0} /\ M2 < B /\ B \in Nat \ {0} /\ Gap \in Nat /\ Gap > 1
      /\ Word = 2 * B /\ Word \in Nat \ {0} /\ WordResidue = 2 * Gap
      /\ Word = 2 * M2 + WordResidue /\ Gap * Gap <= 2 * B
  BY Moduli, RingAssumption DEF M1, M2, Word, WordResidue
<1>2. P \in Int /\ P >= 0 /\ P < B * B
  <2>1. P >= 0
    BY <1>1, Z3
  <2>2. P <= (B - 1) * (B - 1)
    <3>1. a <= B - 1 /\ b <= B - 1 /\ a \in Nat /\ b \in Nat
      BY <1>1
    <3> QED  BY <1>1, <3>1, Z3
  <2>3. (B - 1) * (B - 1) < B * B
    BY <1>1, Z3
  <2> QED  BY <1>1, <2>1, <2>2, <2>3
<1> HIDE DEF P
<1>3. hi \in Int /\ lo \in 0 .. Word - 1 /\ P = Word * hi + lo
  BY <1>1, <1>2, DivMod
<1>4. hi >= 0 /\ 2 * hi < B
  <2> HIDE DEF hi, lo
  <2>1. hi >= 0
    BY <1>1, <1>2, <1>3, Z3
  <2>2. B * (2 * hi) < B * B
    BY <1>1, <1>2, <1>3, Z3
  <2> QED  BY <1>1, <1>3, <2>1, <2>2, Z3
<1>5. k1 \in Int /\ high \in 0 .. M2 - 1 /\ hi = M2 * k1 + high
  <2> HIDE DEF hi
  <2> QED  BY <1>1, <1>3, DivMod
<1>6. high <= hi
  <2> HIDE DEF hi, k1, high
  <2>1. k1 >= 0
    BY <1>1, <1>3, <1>4, <1>5, Z3
  <2> QED  BY <1>1, <1>3, <1>5, <2>1, Z3
<1>7. k2 \in Int /\ low \in 0 .. M2 - 1 /\ lo = M2 * k2 + low
  <2>1. lo \in Int
    BY <1>1, <1>3
  <2> HIDE DEF lo
  <2> QED  BY <1>1, <2>1, DivMod
<1> HIDE DEF hi, lo, k1, high, k2, low
<1>8. part \in Int /\ part >= 0 /\ part < Gap * B
  <2>1. high \in Int /\ high >= 0 /\ 2 * high < B
    BY <1>1, <1>3, <1>4, <1>5, <1>6
  <2>2. part = Gap * (2 * high)
    BY <1>1, <2>1, Z3
  <2>3. Gap * (2 * high) >= 0 /\ Gap * (2 * high) < Gap * B
    BY <1>1, <2>1, Z3
  <2> QED  BY <1>1, <2>1, <2>2, <2>3
<1> HIDE DEF part
<1>9. ph \in Int /\ pl \in 0 .. Word - 1 /\ part = Word * ph + pl
  BY <1>1, <1>8, DivMod
<1>10. k3 \in Int /\ rest \in 0 .. M2 - 1 /\ pl = M2 * k3 + rest
  <2>1. pl \in Int
    BY <1>1, <1>9
  <2> HIDE DEF pl
  <2> QED  BY <1>1, <2>1, DivMod
<1>11. S = ph * WordResidue + rest + low
  BY DEF ShaderSum, P, hi, lo, high, low, part
<1> HIDE DEF ph, pl, k3, rest, S
<1>12. ph >= 0 /\ 2 * ph < Gap
  <2>1. ph >= 0
    BY <1>1, <1>8, <1>9, Z3
  <2>2. B * (2 * ph) < B * Gap
    BY <1>1, <1>8, <1>9, Z3
  <2> QED  BY <1>1, <1>9, <2>1, <2>2, Z3
<1>13. S \in 0 .. 2 * Word - 1
  <2>1. ph * WordResidue = (2 * ph) * Gap
    BY <1>1, <1>9, Z3
  <2>2. (2 * ph) * Gap >= 0 /\ (2 * ph) * Gap <= Gap * Gap
    BY <1>1, <1>9, <1>12, Z3
  <2>3. (2 * ph) * Gap \in Int
    BY <1>1, <1>9
  <2> QED  BY <1>1, <1>5, <1>7, <1>10, <1>11, <2>1, <2>2, <2>3
<1> DEFINE k == 2 * hi + WordResidue * k1 + k2 + 2 * ph + k3
<1>14. P = S + M2 * k
  <2>1. Word * hi = 2 * (M2 * hi) + WordResidue * hi
    BY <1>1, <1>3, Z3
  <2>2. WordResidue * hi = M2 * (WordResidue * k1) + part
    <3>1. WordResidue * hi = WordResidue * (M2 * k1) + WordResidue * high
      BY <1>1, <1>3, <1>5, Z3
    <3>2. WordResidue * (M2 * k1) = M2 * (WordResidue * k1)
      BY <1>1, <1>5, Z3
    <3>3. WordResidue * high = part
      BY <1>1, <1>5 DEF part
    <3> QED  BY <3>1, <3>2, <3>3
  <2>3. Word * ph = 2 * (M2 * ph) + WordResidue * ph
    BY <1>1, <1>9, Z3
  <2>4. M2 * k = 2 * (M2 * hi) + M2 * (WordResidue * k1) + M2 * k2
                 + 2 * (M2 * ph) + M2 * k3
    <3> DEFINE e == WordResidue * k1
    <3>1. e \in Int
      BY <1>1, <1>5
    <3> HIDE DEF e
    <3>2. M2 * (2 * hi + e + k2 + 2 * ph + k3)
            = 2 * (M2 * hi) + M2 * e + M2 * k2 + 2 * (M2 * ph) + M2 * k3
      BY <1>1, <1>3, <1>7, <1>9, <1>10, <3>1, Z3
    <3> QED  BY <3>2 DEF e
  <2> DEFINE x1 == M2 * hi  x2 == M2 * (WordResidue * k1)  x3 == M2 * k2
             x4 == M2 * ph  x5 == M2 * k3  x6 == WordResidue * ph
             x7 == WordResidue * hi  x8 == M2 * k
             x9 == Word * hi  x10 == Word * ph
  <2>5. /\ x1 \in Int /\ x2 \in Int /\ x3 \in Int /\ x4 \in Int /\ x5 \in Int
        /\ x6 \in Int /\ x6 = ph * WordResidue
    BY <1>1, <1>3, <1>5, <1>7, <1>9, <1>10
  <2>6. /\ x9 = 2 * x1 + x7 /\ x7 = x2 + part /\ x10 = 2 * x4 + x6
        /\ x8 = 2 * x1 + x2 + x3 + 2 * x4 + x5
        /\ P = x9 + lo /\ lo = x3 + low /\ part = x10 + pl /\ pl = x5 + rest
    BY <1>3, <1>7, <1>9, <1>10, <2>1, <2>2, <2>3, <2>4
  <2>7. S = x6 + rest + low
    BY <1>11, <2>5
  <2> HIDE DEF x1, x2, x3, x4, x5, x6, x7, x8, x9, x10
  <2>8. P = S + x8
    BY <1>1, <1>2, <1>3, <1>7, <1>8, <1>9, <1>10, <2>5, <2>6, <2>7
  <2> QED  BY <2>8 DEF x8
<1>15. k \in Int
  BY <1>1, <1>3, <1>5, <1>7, <1>9, <1>10
<1> HIDE DEF k
<1>16. (S % Word) = (IF S >= Word THEN S - Word ELSE S)
  BY <1>1, <1>13, OneWrap
<1>17. ShaderMul(a, b) = (S % Word) % M2
  BY DEF ShaderMul, S
<1>18. CASE S >= Word
  <2>1. P - WordResidue = (S - Word) + M2 * (k + 2)
    <3>1. M2 * (k + 2) = M2 * k + 2 * M2
      BY <1>1, <1>15, Z3
    <3>2. M2 * k \in Int
      BY <1>1, <1>15
    <3> QED  BY <1>1, <1>2, <1>13, <1>14, <3>1, <3>2
  <2>2. (((S - Word) + M2 * (k + 2)) % M2) = ((S - Word) % M2)
    <3>1. S - Word \in Int /\ k + 2 \in Int
      BY <1>1, <1>13, <1>15
    <3> QED  BY <1>1, <3>1, ModShift
  <2>3. SumWraps(a, b)
    BY <1>18 DEF SumWraps, S
  <2> QED  BY <1>16, <1>17, <1>18, <2>1, <2>2, <2>3 DEF P
<1>19. CASE S < Word
  <2>1. ((S + M2 * k) % M2) = (S % M2)
    <3>1. S \in Int
      BY <1>1, <1>13
    <3> QED  BY <1>1, <1>15, <3>1, ModShift
  <2>2. ~ (S >= Word)
    BY <1>1, <1>13, <1>19
  <2>3. ~ SumWraps(a, b)
    BY <2>2 DEF SumWraps, S
  <2> QED  BY <1>14, <1>16, <1>17, <2>1, <2>2, <2>3 DEF P
<1> QED  BY <1>1, <1>13, <1>18, <1>19

-----------------------------------------------------------------------------
(* Garner's formula recovers any number of the combined range.             *)
LEMMA LiftInverts ==
    ASSUME NEW X \in 0 .. M1 * M2 - 1
    PROVE  Lift(X % M1, X % M2) = X
<1> DEFINE t == X \div M1    r1 == X % M1
           v == X \div M2    r2 == X % M2
           w == r1 \div M2   s == r1 % M2
           u == (M1 * GarnerC) \div M2
           diff == IF r2 >= s THEN r2 - s ELSE M2 - s + r2
<1>1. /\ M1 \in Nat \ {0} /\ M2 \in Nat \ {0} /\ GarnerC \in Nat
      /\ M1 * M2 \in Nat /\ M1 * GarnerC \in Nat /\ X \in Nat
  BY Moduli
<1>2. t \in Int /\ r1 \in 0 .. M1 - 1 /\ X = M1 * t + r1
  BY <1>1, DivMod
<1>3. v \in Int /\ r2 \in 0 .. M2 - 1 /\ X = M2 * v + r2
  BY <1>1, DivMod
<1>4. r1 \in Int
  BY <1>1, <1>2
<1>5. w \in Int /\ s \in 0 .. M2 - 1 /\ r1 = M2 * w + s
  <2> HIDE DEF r1
  <2> QED  BY <1>1, <1>4, DivMod
<1>6. u \in Int /\ M1 * GarnerC = M2 * u + 1
  BY <1>1, DivMod, GarnerAssumption
<1>7. Lift(r1, r2) = r1 + ((diff * GarnerC) % M2) * M1
  BY DEF Lift
<1> HIDE DEF t, r1, v, r2, w, s, u
<1>8. t \in 0 .. M2 - 1
  <2>1. t >= 0
    BY <1>1, <1>2, Z3
  <2>2. M1 * t < M1 * M2
    <3>1. M1 * t \in Int
      BY <1>1, <1>2
    <3> QED  BY <1>1, <1>2, <3>1
  <2>3. t < M2
    BY <1>1, <1>2, <2>2, Z3
  <2> QED  BY <1>1, <1>2, <2>1, <2>3
<1>9. PICK e \in Int : diff = r2 - s + M2 * e
  <2>1. CASE r2 >= s
    BY <1>1, <1>3, <1>5, <2>1, r2 - s = r2 - s + M2 * 0
  <2>2. CASE r2 < s
    <3>1. diff = r2 - s + M2 * 1
      BY <1>1, <1>3, <1>5, <2>2
    <3> QED  BY <3>1
  <2> QED  BY <1>1, <1>3, <1>5, <2>1, <2>2
<1> HIDE DEF diff
<1> DEFINE g == w - v + e
<1>10. g \in Int /\ diff = M1 * t + M2 * g
  <2>1. M2 * g = M2 * w - M2 * v + M2 * e
    BY <1>1, <1>3, <1>5, <1>9, Z3
  <2> DEFINE x1 == M2 * w  x2 == M2 * v  x3 == M2 * e  x4 == M1 * t  x5 == M2 * g
  <2>2. x1 \in Int /\ x2 \in Int /\ x3 \in Int /\ x4 \in Int
    BY <1>1, <1>2, <1>3, <1>5, <1>9
  <2>3. /\ x5 = x1 - x2 + x3 /\ X = x4 + r1 /\ X = x2 + r2 /\ r1 = x1 + s
        /\ diff = r2 - s + x3
    BY <1>2, <1>3, <1>5, <1>9, <2>1
  <2> HIDE DEF x1, x2, x3, x4, x5
  <2>4. diff = x4 + x5
    BY <1>1, <1>2, <1>3, <1>5, <2>2, <2>3
  <2> QED  BY <1>3, <1>5, <1>9, <2>4 DEF x4, x5
<1> HIDE DEF g
<1>11. diff * GarnerC = M2 * (u * t + g * GarnerC) + t
  <2>1. diff * GarnerC = (M1 * t) * GarnerC + (M2 * g) * GarnerC
    BY <1>1, <1>2, <1>10, Z3
  <2>2. (M1 * t) * GarnerC = (M1 * GarnerC) * t
    BY <1>1, <1>2, Z3
  <2>3. (M1 * GarnerC) * t = M2 * (u * t) + t
    <3> DEFINE c == M1 * GarnerC
    <3>1. c = M2 * u + 1 /\ c \in Int
      BY <1>1, <1>6
    <3> HIDE DEF c
    <3>2. c * t = M2 * (u * t) + t
      BY <1>1, <1>2, <1>6, <3>1, Z3
    <3> QED  BY <3>2 DEF c
  <2>4. (M2 * g) * GarnerC = M2 * (g * GarnerC)
    BY <1>1, <1>10, Z3
  <2>5. u * t \in Int /\ g * GarnerC \in Int
    BY <1>1, <1>2, <1>6, <1>10
  <2>6. M2 * (u * t + g * GarnerC) = M2 * (u * t) + M2 * (g * GarnerC)
    BY <1>1, <2>5, Z3
  <2> DEFINE y1 == M2 * (u * t)  y2 == M2 * (g * GarnerC)
             y3 == (M1 * t) * GarnerC  y4 == (M2 * g) * GarnerC
             y5 == diff * GarnerC  y6 == M2 * (u * t + g * GarnerC)
  <2>7. y1 \in Int /\ y2 \in Int
    BY <1>1, <2>5
  <2>8. y5 = y3 + y4 /\ y3 = y1 + t /\ y4 = y2 /\ y6 = y1 + y2
    BY <2>1, <2>2, <2>3, <2>4, <2>6
  <2> HIDE DEF y1, y2, y3, y4, y5, y6
  <2>9. y5 = y6 + t
    BY <1>2, <2>7, <2>8
  <2> QED  BY <2>9 DEF y5, y6
<1>12. ((diff * GarnerC) % M2) = t
  <2>1. u * t + g * GarnerC \in Int
    BY <1>1, <1>2, <1>6, <1>10
  <2>2. ((M2 * (u * t + g * GarnerC) + t) % M2) = t
    BY <1>1, <1>8, <2>1, ModUnique
  <2> QED  BY <1>11, <2>2
<1>13. Lift(r1, r2) = r1 + t * M1
  BY <1>7, <1>12
<1>14. r1 + t * M1 = X
  BY <1>1, <1>2
<1> QED  BY <1>13, <1>14 DEF r1, r2

(***************************************************************************)
(* The join of sp_crt_garner_signed inverts the split: every number of the *)
(* signed half of the combined range is recovered, sign included, from its *)
(* two residues.                                                           *)
(***************************************************************************)
THEOREM JoinInvertsSplit ==
    \A X \in Int : - (M1 * M2) < 2 * X /\ 2 * X <= M1 * M2
                     => GarnerSigned(X % M1, X % M2) = X
<1> SUFFICES ASSUME NEW X \in Int, - (M1 * M2) < 2 * X, 2 * X <= M1 * M2
             PROVE  GarnerSigned(X % M1, X % M2) = X
  OBVIOUS
<1> DEFINE R == M1 * M2
<1>1. M1 \in Nat \ {0} /\ M2 \in Nat \ {0} /\ R \in Nat /\ R > 1
  <2>1. M1 \in Nat /\ M1 > 2 /\ M2 \in Nat /\ M2 > 1
    BY Moduli
  <2>2. R > 1
    BY <2>1, Z3
  <2> QED  BY <2>1, <2>2
<1>2. CASE X >= 0
  <2>1. X \in 0 .. M1 * M2 - 1
    BY <1>1, <1>2
  <2>2. Lift(X % M1, X % M2) = X
    BY <2>1, LiftInverts
  <2>3. ~ (2 * X > M1 * M2)
    BY <1>1
  <2> QED  BY <2>2, <2>3 DEF GarnerSigned
<1>3. CASE X < 0
  <2> DEFINE Y == X + R
  <2>1. Y \in 0 .. M1 * M2 - 1
    BY <1>1, <1>3
  <2>2. (Y % M1) = (X % M1) /\ (Y % M2) = (X % M2)
    <3> M1 \in Int /\ M2 \in Int
      BY <1>1
    <3>1. ((X + M1 * M2) % M1) = (X % M1)
      BY <1>1, ModShift, Zenon
    <3>2. ((X + M2 * M1) % M2) = (X % M2)
      BY <1>1, ModShift, Zenon
    <3>3. M2 * M1 = M1 * M2
      BY <1>1
    <3> QED  BY <3>1, <3>2, <3>3
  <2>3. Lift(X % M1, X % M2) = Y
    BY <2>1, <2>2, LiftInverts
  <2>4. 2 * Y > M1 * M2
    BY <1>1
  <2>5. Y - M1 * M2 = X
    BY <1>1
  <2> QED  BY <2>3, <2>4, <2>5 DEF GarnerSigned
<1> QED  BY <1>2, <1>3

-----------------------------------------------------------------------------
(***************************************************************************)
(* Induction over the numbers, for a set: the induction theorems of the    *)
(* library take an operator, which no prover here instantiates; that the   *)
(* numbers are well founded it states for sets.                            *)
(***************************************************************************)
LEMMA SetInduction ==
  ASSUME NEW S, 0 \in S, \A n \in Nat : n \in S => n + 1 \in S
  PROVE  Nat \subseteq S
<1> DEFINE T == Nat \ S
           R == OpToRel(<, Nat)
<1> SUFFICES ASSUME T # {} PROVE FALSE
  OBVIOUS
<1>1. PICK x \in T : \A y \in T : ~ (<<y, x>> \in R)
  <2> HIDE DEF R
  <2>1. IsWellFoundedOn(R, Nat)
    BY NatLessThanWellFounded DEF R
  <2>2. T \subseteq Nat
    OBVIOUS
  <2> HIDE DEF T
  <2> QED  BY <2>1, <2>2, WFMin, Zenon
<1>2. x \in Nat /\ x \notin S /\ x # 0
  OBVIOUS
<1>3. x - 1 \in Nat /\ (x - 1) + 1 = x
  BY <1>2
<1>4. x - 1 \notin S
  BY <1>2, <1>3
<1>5. <<x - 1, x>> \in R
  BY <1>2, <1>3 DEF OpToRel
<1> QED  BY <1>1, <1>3, <1>4, <1>5

\* A bounded set of numbers has a largest one.
LEMMA MaxInSet ==
  ASSUME NEW n \in Nat, NEW S, S \subseteq 0 .. n, S # {}
  PROVE  Max(S) \in S
<1> DEFINE T == {n - x : x \in S}
           R == OpToRel(<, Nat)
<1>1. T \subseteq Nat /\ T # {}
  <2>1. \A x \in S : n - x \in Nat
    OBVIOUS
  <2> QED  BY <2>1
<1>2. PICK t \in T : \A y \in T : ~ (<<y, t>> \in R)
  <2> HIDE DEF R
  <2>1. IsWellFoundedOn(R, Nat)
    BY NatLessThanWellFounded DEF R
  <2> HIDE DEF T
  <2> QED  BY <1>1, <2>1, WFMin, Zenon
<1>3. PICK x \in S : t = n - x
  OBVIOUS
<1>4. \A y \in S : x >= y
  <2> SUFFICES ASSUME NEW y \in S, x < y PROVE FALSE
    OBVIOUS
  <2>1. n - y \in T /\ n - y < t /\ n - y \in Nat /\ t \in Nat
    BY <1>3
  <2>2. <<n - y, t>> \in R
    BY <2>1 DEF OpToRel
  <2> QED  BY <1>2, <2>1, <2>2
<1> QED  BY <1>4 DEF Max

-----------------------------------------------------------------------------
(* The two sums, by the equations they are chosen for.                     *)

IsSum(f, c, k) == f = [i \in 0 .. k |-> IF i = 0 THEN 0 ELSE f[i - 1] + c.a[i] * c.b[i]]

IsAcc(f, r, a, b, k) ==
  f = [i \in 0 .. k |-> IF i = 0 THEN 0 ELSE Step(r, f[i - 1], a[i], b[i])]

\* The exact sum of a call is the last of its partial sums.
LEMMA ExactIsSum ==
  ASSUME NEW c, c.k \in Nat
  PROVE  \E f : IsSum(f, c, c.k) /\ Exact(c) = f[c.k]
<1> DEFINE S == {k \in Nat : \E f : IsSum(f, c, k)}
<1>1. 0 \in S
  <2>1. IsSum([i \in 0 .. 0 |-> 0], c, 0)
    BY DEF IsSum
  <2> QED  BY <2>1
<1>2. ASSUME NEW n \in Nat, n \in S PROVE n + 1 \in S
  <2>1. PICK f : IsSum(f, c, n)
    BY <1>2
  <2> DEFINE g == [i \in 0 .. n + 1 |-> IF i = n + 1 THEN f[n] + c.a[n + 1] * c.b[n + 1]
                                                     ELSE f[i]]
  <2>2. IsSum(g, c, n + 1)
    BY <2>1 DEF IsSum
  <2> QED  BY <2>2
<1> HIDE DEF S
<1>3. Nat \subseteq S
  BY <1>1, <1>2, SetInduction, Zenon
<1>4. \E f : IsSum(f, c, c.k)
  BY <1>3 DEF S
<1>5. Exact(c) = (CHOOSE f : IsSum(f, c, c.k))[c.k]
  BY DEF Exact, IsSum
<1> QED  BY <1>4, <1>5, Zenon

\* The product of a ring is the last value of its accumulator.
LEMMA RingProductIsAcc ==
  ASSUME NEW r, NEW a, NEW b, NEW k \in Nat,
         \A i \in 1 .. k : a[i] # Noise /\ b[i] # Noise
  PROVE  \E f : IsAcc(f, r, a, b, k) /\ RingProduct(r, a, b, k) = f[k]
<1> DEFINE S == {n \in Nat : \E f : IsAcc(f, r, a, b, n)}
<1>1. 0 \in S
  <2>1. IsAcc([i \in 0 .. 0 |-> 0], r, a, b, 0)
    BY DEF IsAcc
  <2> QED  BY <2>1
<1>2. ASSUME NEW n \in Nat, n \in S PROVE n + 1 \in S
  <2>1. PICK f : IsAcc(f, r, a, b, n)
    BY <1>2
  <2> DEFINE g == [i \in 0 .. n + 1 |-> IF i = n + 1 THEN Step(r, f[n], a[n + 1], b[n + 1])
                                                     ELSE f[i]]
  <2>2. IsAcc(g, r, a, b, n + 1)
    BY <2>1 DEF IsAcc
  <2> QED  BY <2>2
<1> HIDE DEF S
<1>3. Nat \subseteq S
  BY <1>1, <1>2, SetInduction, Zenon
<1>4. \E f : IsAcc(f, r, a, b, k)
  BY <1>3 DEF S
<1>5. RingProduct(r, a, b, k) = (CHOOSE f : IsAcc(f, r, a, b, k))[k]
  <2>1. ~\E i \in 1 .. k : Noise \in {a[i], b[i]}
    OBVIOUS
  <2> QED  BY <2>1, Zenon DEF RingProduct, IsAcc
<1> QED  BY <1>4, <1>5, Zenon

-----------------------------------------------------------------------------
(* What a step and a product leave in a ring.                              *)

LEMMA RingsHaveModuli ==
  \A r \in Rings : Modulus(r) \in Nat \ {0}
BY Moduli DEF Rings, Modulus

LEMMA ResidueInRing ==
  ASSUME NEW r \in Rings, NEW q \in Int
  PROVE  Residue(q, Modulus(r)) \in 0 .. Modulus(r) - 1
<1>1. Modulus(r) \in Nat \ {0}
  BY RingsHaveModuli
<1>2. (q % Modulus(r)) \in 0 .. Modulus(r) - 1
  BY <1>1, DivMod
<1> QED  BY <1>1, <1>2, ResidueIsMod

\* Every step ends below the modulus, the shader's too, whether it wraps or not.
LEMMA StepInRing ==
  ASSUME NEW r \in Rings, NEW acc \in 0 .. Modulus(r) - 1,
         NEW x \in 0 .. Modulus(r) - 1, NEW y \in 0 .. Modulus(r) - 1
  PROVE  Step(r, acc, x, y) \in 0 .. Modulus(r) - 1
<1>1. CASE r = 1
  <2>1. B \in Nat \ {0} /\ M1 = B - 1 /\ M1 \in Nat \ {0} /\ Modulus(r) = M1
    BY <1>1, Moduli DEF M1, Modulus
  <2>2. acc + x * y \in 0 .. 2 * B * B - 1
    <3>1. acc \in 0 .. B - 2 /\ x \in 0 .. B - 2 /\ y \in 0 .. B - 2
      BY <2>1
    <3>2. x * y >= 0 /\ x * y <= B * B
      BY <2>1, <3>1, Z3
    <3>3. B <= B * B
      BY <2>1, Z3
    <3> DEFINE w == x * y
               u == B * B
    <3>4. w \in Int /\ u \in Int /\ 2 * B * B = 2 * u
      BY <2>1, <3>1
    <3>5. w >= 0 /\ w <= u /\ B <= u
      BY <3>2, <3>3
    <3> HIDE DEF w, u
    <3>6. acc + w \in 0 .. 2 * u - 1
      BY <2>1, <3>1, <3>4, <3>5
    <3> QED  BY <3>4, <3>6 DEF w
  <2>3. MersenneReduce(acc + x * y) = (acc + x * y) % M1
    BY <2>2, MersenneIsMod
  <2>4. acc + x * y \in Int
    BY <2>2
  <2> DEFINE n == acc + x * y
  <2>5. n \in Int
    BY <2>4
  <2> HIDE DEF n
  <2>6. (n % M1) \in 0 .. M1 - 1
    BY <2>1, <2>5, DivMod
  <2> QED  BY <1>1, <2>1, <2>3, <2>6 DEF Step, MersenneStep, n
<1>2. CASE r = 2 /\ setup = "hetero"
  <2> DEFINE n == (acc + ShaderMul(x, y)) % Word
  <2>1. M2 \in Nat \ {0} /\ Modulus(r) = M2 /\ Word \in Nat \ {0}
    BY <1>2, Moduli DEF Modulus, Word
  <2>2. ShaderMul(x, y) \in Int
    <3> DEFINE w == x * y
    <3>1. w \in Int /\ w - WordResidue \in Int
      BY <2>1, RingAssumption DEF WordResidue
    <3>2. ShaderMul(x, y) = (w - WordResidue) % M2 \/ ShaderMul(x, y) = w % M2
      BY <2>1, ShaderMulUpToWrap
    <3> HIDE DEF w
    <3>3. ((w - WordResidue) % M2) \in Int /\ (w % M2) \in Int
      <4> DEFINE v == w - WordResidue
      <4> HIDE DEF v
      <4>1. (v % M2) \in 0 .. M2 - 1 /\ (w % M2) \in 0 .. M2 - 1
        BY <2>1, <3>1, DivMod DEF v
      <4> QED  BY <2>1, <4>1 DEF v
    <3> QED  BY <3>2, <3>3
  <2>3. n \in Int
    <3> DEFINE t == acc + ShaderMul(x, y)
    <3>1. t \in Int
      BY <2>1, <2>2
    <3> HIDE DEF t
    <3>2. (t % Word) \in Int
      BY <2>1, <3>1, DivMod
    <3> QED  BY <3>2 DEF t
  <2> HIDE DEF n
  <2>4. (n % M2) \in 0 .. M2 - 1
    BY <2>1, <2>3, DivMod
  <2> QED  BY <1>2, <2>1, <2>4 DEF Step, ShaderStep, n
<1>3. CASE r = 2 /\ setup # "hetero"
  <2> DEFINE n == acc + x * y
  <2>1. M2 \in Nat \ {0} /\ Modulus(r) = M2
    BY <1>3, Moduli DEF Modulus
  <2>2. n \in Int
    BY <2>1
  <2> HIDE DEF n
  <2>3. (n % M2) \in 0 .. M2 - 1
    BY <2>1, <2>2, DivMod
  <2> QED  BY <1>3, <2>1, <2>3 DEF Step, GenericStep, n
<1> QED  BY <1>1, <1>2, <1>3 DEF Rings

\* A product of residues is a residue.
LEMMA RingProductInRing ==
  ASSUME NEW r \in Rings, NEW a, NEW b, NEW k \in Nat,
         \A i \in 1 .. k : a[i] \in 0 .. Modulus(r) - 1 /\ b[i] \in 0 .. Modulus(r) - 1
  PROVE  RingProduct(r, a, b, k) \in 0 .. Modulus(r) - 1
<1>1. PICK f : IsAcc(f, r, a, b, k) /\ RingProduct(r, a, b, k) = f[k]
  <2>1. \A i \in 1 .. k : a[i] # Noise /\ b[i] # Noise
    BY DEF Noise
  <2> QED  BY <2>1, RingProductIsAcc
<1> DEFINE S == {i \in Nat : i <= k => f[i] \in 0 .. Modulus(r) - 1}
<1>2. 0 \in S
  BY <1>1, RingsHaveModuli DEF IsAcc
<1>3. ASSUME NEW n \in Nat, n \in S PROVE n + 1 \in S
  <2> SUFFICES ASSUME n + 1 <= k PROVE f[n + 1] \in 0 .. Modulus(r) - 1
    OBVIOUS
  <2>1. f[n + 1] = Step(r, f[n], a[n + 1], b[n + 1])
    BY <1>1 DEF IsAcc
  <2>2. f[n] \in 0 .. Modulus(r) - 1
    BY <1>3
  <2>3. a[n + 1] \in 0 .. Modulus(r) - 1 /\ b[n + 1] \in 0 .. Modulus(r) - 1
    OBVIOUS
  <2> QED  BY <2>1, <2>2, <2>3, StepInRing
<1> HIDE DEF S
<1>4. Nat \subseteq S
  BY <1>2, <1>3, SetInduction, Zenon
<1> QED  BY <1>1, <1>4 DEF S

\* ... and of residues and noise, a residue or noise.
LEMMA RingProductInCells ==
  ASSUME NEW r \in Rings, NEW a, NEW b, NEW k \in Nat,
         \A i \in 1 .. k : a[i] \in Cells(r) /\ b[i] \in Cells(r)
  PROVE  RingProduct(r, a, b, k) \in Cells(r)
<1>1. CASE \E i \in 1 .. k : Noise \in {a[i], b[i]}
  BY <1>1, Zenon DEF RingProduct, Cells
<1>2. CASE ~\E i \in 1 .. k : Noise \in {a[i], b[i]}
  <2>1. \A i \in 1 .. k : /\ a[i] \in 0 .. Modulus(r) - 1
                          /\ b[i] \in 0 .. Modulus(r) - 1
    BY <1>2 DEF Cells, Residues
  <2> QED  BY <2>1, RingProductInRing DEF Cells, Residues
<1> QED  BY <1>1, <1>2

\* A step on residues is a step on numbers, the shader's unless it wraps.
LEMMA StepIsExact ==
  ASSUME NEW r \in Rings, NEW s \in Int, NEW p \in Int, NEW q \in Int,
         r = 2 /\ setup = "hetero" => ~SumWraps(Residue(p, M2), Residue(q, M2))
  PROVE  Step(r, s % Modulus(r), Residue(p, Modulus(r)), Residue(q, Modulus(r)))
           = (s + p * q) % Modulus(r)
<1>1. CASE r = 1
  BY <1>1, StepsKeepResidues DEF Step, Modulus
<1>2. CASE r = 2 /\ setup # "hetero"
  BY <1>2, StepsKeepResidues DEF Step, Modulus
<1>3. CASE r = 2 /\ setup = "hetero"
  <2> DEFINE x == Residue(p, M2)
             y == Residue(q, M2)
             acc == s % M2
  <2>1. M2 \in Nat \ {0} /\ M2 < B /\ B \in Nat /\ Modulus(r) = M2
    BY <1>3, Moduli DEF Modulus, M1
  <2>2. x \in 0 .. M2 - 1 /\ y \in 0 .. M2 - 1
    BY <1>3, <2>1, ResidueInRing
  <2>3. acc \in 0 .. M2 - 1
    BY <2>1, DivMod
  <2>4. GenericStep(acc, x, y) = (s + p * q) % M2
    BY StepsKeepResidues
  <2>5. ~SumWraps(x, y)
    BY <1>3
  <2> HIDE DEF x, y, acc
  <2>6. ShaderMul(x, y) = (x * y) % M2
    BY <2>2, <2>5, ShaderMulUpToWrap
  <2> DEFINE w == x * y
             v == w % M2
  <2>7. w \in Int
    BY <2>1, <2>2
  <2> HIDE DEF w
  <2>8. v \in 0 .. M2 - 1
    BY <2>1, <2>7, DivMod
  <2>9. ((acc + v) % Word) = acc + v
    <3>1. Word \in Nat \ {0} /\ acc + v \in 0 .. Word - 1
      <4> HIDE DEF v
      <4> QED  BY <2>1, <2>3, <2>8 DEF Word
    <3>2. acc + v \in 0 .. 2 * Word - 1 /\ ~(acc + v >= Word)
      <4> HIDE DEF v
      <4> QED  BY <3>1
    <3> HIDE DEF v
    <3> QED  BY <3>1, <3>2, OneWrap
  <2>10. ((acc + v) % M2) = ((acc + w) % M2)
    <3> DEFINE d == w \div M2
    <3>1. w = M2 * d + v /\ d \in Int
      BY <2>1, <2>7, DivMod
    <3> HIDE DEF d, v
    <3>2. acc + w = (acc + v) + M2 * d
      BY <2>1, <2>3, <2>8, <3>1, Z3
    <3>3. acc + v \in Int
      BY <2>1, <2>3, <2>8
    <3>4. (((acc + v) + M2 * d) % M2) = ((acc + v) % M2)
      BY <2>1, <3>1, <3>3, ModShift
    <3> QED  BY <3>2, <3>4
  <2>11. ShaderStep(acc, x, y) = GenericStep(acc, x, y)
    BY <2>6, <2>9, <2>10, Zenon DEF ShaderStep, GenericStep, w, v
  <2> QED  BY <1>3, <2>1, <2>4, <2>11 DEF Step, x, y, acc
<1> QED  BY <1>1, <1>2, <1>3 DEF Rings

\* The numbers of a row and a column.
IsCall(c) == c.k \in Nat /\ c.a \in [1 .. c.k -> Int] /\ c.b \in [1 .. c.k -> Int]

LEMMA ExactIsInt ==
  ASSUME NEW c, IsCall(c)
  PROVE  Exact(c) \in Int
<1>1. PICK g : IsSum(g, c, c.k) /\ Exact(c) = g[c.k]
  BY ExactIsSum DEF IsCall
<1> DEFINE S == {i \in Nat : i <= c.k => g[i] \in Int}
<1>2. 0 \in S
  BY <1>1 DEF IsSum, IsCall
<1>3. ASSUME NEW n \in Nat, n \in S PROVE n + 1 \in S
  <2> SUFFICES ASSUME n + 1 <= c.k PROVE g[n + 1] \in Int
    OBVIOUS
  <2>1. /\ n + 1 \in 1 .. c.k /\ c.k \in Nat
        /\ c.a[n + 1] \in Int /\ c.b[n + 1] \in Int /\ g[n] \in Int
    BY <1>3 DEF IsCall
  <2>2. g[n + 1] = g[n] + c.a[n + 1] * c.b[n + 1]
    <3>1. g = [i \in 0 .. c.k |-> IF i = 0 THEN 0 ELSE g[i - 1] + c.a[i] * c.b[i]]
      BY <1>1, Zenon DEF IsSum
    <3>2. n + 1 \in 0 .. c.k /\ n + 1 # 0 /\ (n + 1) - 1 = n
      <4> HIDE DEF S
      <4> QED  BY <2>1
    <3> QED  BY <3>1, <3>2, Zenon
  <2> QED  BY <2>1, <2>2
<1> HIDE DEF S
<1>4. Nat \subseteq S
  BY <1>2, <1>3, SetInduction, Zenon
<1> QED  BY <1>1, <1>4 DEF S, IsCall

(***************************************************************************)
(* The product of the residues is the residue of the product, however many *)
(* terms it has: a ring's kernel, which reduces after every term, returns  *)
(* the exact sum modulo its modulus; the shader does unless it wraps.      *)
(***************************************************************************)
THEOREM RingProductIsExact ==
  ASSUME NEW r \in Rings, NEW c, IsCall(c), NEW a, NEW b,
         \A i \in 1 .. c.k : /\ a[i] = Residue(c.a[i], Modulus(r))
                             /\ b[i] = Residue(c.b[i], Modulus(r)),
         r = 1 \/ ~ShaderWraps(c)
  PROVE  Exact(c) \in Int /\ RingProduct(r, a, b, c.k) = Exact(c) % Modulus(r)
<1>1. PICK f : IsAcc(f, r, a, b, c.k) /\ RingProduct(r, a, b, c.k) = f[c.k]
  <2>1. \A q \in Int : Residue(q, Modulus(r)) # Noise
    BY ResidueInRing DEF Noise
  <2>2. \A i \in 1 .. c.k : a[i] # Noise /\ b[i] # Noise
    BY <2>1 DEF IsCall
  <2>3. c.k \in Nat
    BY DEF IsCall
  <2> QED  BY <2>2, <2>3, RingProductIsAcc
<1>2. PICK g : IsSum(g, c, c.k) /\ Exact(c) = g[c.k]
  BY ExactIsSum DEF IsCall
<1> DEFINE S == {i \in Nat : i <= c.k => g[i] \in Int /\ f[i] = g[i] % Modulus(r)}
<1>3. 0 \in S
  <2>1. g[0] = 0 /\ f[0] = 0
    BY <1>1, <1>2 DEF IsAcc, IsSum, IsCall
  <2>2. (0 % Modulus(r)) = 0
    <3>1. Modulus(r) \in Nat \ {0}
      BY RingsHaveModuli
    <3>2. ((Modulus(r) * 0 + 0) % Modulus(r)) = 0
      BY <3>1, ModUnique
    <3> QED  BY <3>1, <3>2
  <2> QED  BY <2>1, <2>2
<1>4. ASSUME NEW n \in Nat, n \in S PROVE n + 1 \in S
  <2> SUFFICES ASSUME n + 1 <= c.k
               PROVE  g[n + 1] \in Int /\ f[n + 1] = g[n + 1] % Modulus(r)
    OBVIOUS
  <2> DEFINE p == c.a[n + 1]
             q == c.b[n + 1]
  <2>1. n + 1 \in 1 .. c.k /\ c.k \in Nat /\ p \in Int /\ q \in Int
    BY DEF IsCall
  <2>2. g[n + 1] = g[n] + p * q
    BY <1>2, <2>1 DEF IsSum
  <2>3. f[n + 1] = Step(r, f[n], Residue(p, Modulus(r)), Residue(q, Modulus(r)))
    BY <1>1, <2>1 DEF IsAcc
  <2>4. g[n] \in Int /\ f[n] = g[n] % Modulus(r)
    BY <1>4, <2>1
  <2>5. r = 2 /\ setup = "hetero" => ~SumWraps(Residue(p, M2), Residue(q, M2))
    BY <2>1 DEF ShaderWraps
  <2> HIDE DEF p, q
  <2>6. Step(r, g[n] % Modulus(r), Residue(p, Modulus(r)), Residue(q, Modulus(r)))
          = (g[n] + p * q) % Modulus(r)
    BY <2>1, <2>4, <2>5, StepIsExact
  <2>7. g[n] + p * q \in Int
    BY <2>1, <2>4
  <2> QED  BY <2>2, <2>3, <2>4, <2>6, <2>7
<1> HIDE DEF S
<1>5. Nat \subseteq S
  BY <1>3, <1>4, SetInduction, Zenon
<1> QED  BY <1>1, <1>2, <1>5 DEF S, IsCall

-----------------------------------------------------------------------------
(* The range.                                                              *)

(***************************************************************************)
(* sp_crt_quant_calibrate_k's factor 0.9 is enough: k products of numbers  *)
(* up to the limit it sets add up to less than half of the combined range, *)
(* the error of rounding to the limit included.                            *)
(***************************************************************************)
THEOREM Calibrated ==
  ASSUME NEW k \in 1 .. MaxDim
  PROVE  /\ QMax[k] \in Nat
         /\ 2 * (k * (QMax[k] * QMax[k])) < M1 * M2
<1> DEFINE R == M1 * M2
           S == {q \in 0 .. B : Fits(q, q, k)}
<1>1. k \in Nat /\ k > 0 /\ MaxDim \in Nat /\ B \in Nat /\ M1 \in Nat /\ M1 > 2
  BY MatmulAssumption, Moduli
<1>2. R \in Nat /\ 64 * k <= R /\ R > 0
  <2>1. R \in Nat
    BY Moduli
  <2> QED  BY <1>1, <2>1, MatmulAssumption
<1>3. Max(S) \in S
  <2>1. 0 \in S
    <3>1. 50 * k * (2 * 0 - 1) * (2 * 0 - 1) = 50 * k
      BY <1>1
    <3>2. 81 * M1 * M2 = 81 * R
      BY Moduli, Z3
    <3> HIDE DEF R
    <3>3. 50 * k <= 81 * R
      BY <1>1, <1>2
    <3>4. (M1 - 2) * (M1 - 2) >= 1
      BY <1>1, Z3
    <3>5. (2 * 0 - 1) * (2 * 0 - 1) = 1
      OBVIOUS
    <3>6. Fits(0, 0, k)
      BY <3>1, <3>2, <3>3, <3>4, <3>5 DEF Fits
    <3> QED  BY <1>1, <3>6
  <2>2. S \subseteq 0 .. B /\ S # {}
    BY <2>1
  <2> HIDE DEF S
  <2> QED  BY <1>1, <2>2, MaxInSet
<1> DEFINE q == Max(S)
<1>4. QMax[k] = q
  BY DEF QMax
<1>5. q \in Nat /\ 50 * k * (2 * q - 1) * (2 * q - 1) <= 81 * M1 * M2
  BY <1>1, <1>3 DEF Fits
<1> HIDE DEF q, S
<1> DEFINE p == 2 * q - 1
           kp == k * p
           kpp == kp * p
           kqq == k * (q * q)
<1>6. p \in Int /\ kp \in Int /\ kpp \in Int /\ kqq \in Int
  BY <1>1, <1>5
<1>7. 50 * kpp <= 81 * R
  <2>1. 50 * k * p * p = 50 * kpp
    BY <1>1, <1>6, Z3
  <2>2. 81 * M1 * M2 = 81 * R
    BY Moduli, Z3
  <2> QED  BY <1>5, <2>1, <2>2
\* From (p - 8)^2 >= 0.
<1>8. 32 * kqq <= 9 * kpp + 72 * k
  <2> HIDE DEF p
  <2>1. 4 * kqq = kpp + 2 * kp + k
    <3>1. 2 * q = p + 1
      BY <1>5 DEF p
    <3>2. 4 * (q * q) = p * p + 2 * p + 1
      <4>1. (2 * q) * (2 * q) = (p + 1) * (p + 1)
        BY <3>1
      <4> QED  BY <1>5, <1>6, <4>1, Z3
    <3>3. k * (4 * (q * q)) = k * (p * p + 2 * p + 1)
      BY <3>2
    <3> QED  BY <1>1, <1>5, <1>6, <3>3, Z3
  <2>2. kpp - 16 * kp + 64 * k >= 0
    <3>1. (p - 8) * (p - 8) >= 0
      BY <1>6, Z3
    <3> DEFINE d == (p - 8) * (p - 8)
    <3>2. d \in Int
      BY <1>6
    <3>3. k * d = kpp - 16 * kp + 64 * k
      BY <1>1, <1>6, Z3
    <3> HIDE DEF d
    <3>4. k * d >= 0
      BY <1>1, <3>1, <3>2, Z3 DEF d
    <3> QED  BY <3>3, <3>4
  <2> HIDE DEF kp, kpp, kqq
  <2> QED  BY <1>1, <1>6, <2>1, <2>2
<1>9. 2 * kqq < R
  <2> HIDE DEF R, kp, kpp, kqq
  <2> QED  BY <1>1, <1>2, <1>6, <1>7, <1>8
<1> QED  BY <1>4, <1>5, <1>9

\* A sum of k products of numbers up to Q is at most k * Q * Q.
LEMMA SumBound ==
  ASSUME NEW c, IsCall(c), NEW Q \in Nat,
         \A i \in 1 .. c.k : /\ -Q <= c.a[i] /\ c.a[i] <= Q
                             /\ -Q <= c.b[i] /\ c.b[i] <= Q
  PROVE  /\ Exact(c) \in Int
         /\ -(c.k * (Q * Q)) <= Exact(c) /\ Exact(c) <= c.k * (Q * Q)
<1>1. PICK g : IsSum(g, c, c.k) /\ Exact(c) = g[c.k]
  BY ExactIsSum DEF IsCall
<1> DEFINE U == Q * Q
           S == {i \in Nat : i <= c.k => /\ g[i] \in Int
                                         /\ -(i * U) <= g[i] /\ g[i] <= i * U}
<1>2. U \in Nat
  <2>1. Q * Q >= 0
    BY Z3
  <2> QED  BY <2>1
<1>3. 0 \in S
  <2>1. g[0] = 0
    BY <1>1 DEF IsSum, IsCall
  <2> HIDE DEF U
  <2> QED  BY <1>2, <2>1
<1>4. ASSUME NEW n \in Nat, n \in S PROVE n + 1 \in S
  <2> SUFFICES ASSUME n + 1 <= c.k
               PROVE  /\ g[n + 1] \in Int
                      /\ -((n + 1) * U) <= g[n + 1] /\ g[n + 1] <= (n + 1) * U
    BY <1>4
  <2> DEFINE p == c.a[n + 1]
             q == c.b[n + 1]
  <2>1. n + 1 \in 1 .. c.k /\ c.k \in Nat /\ p \in Int /\ q \in Int
    BY DEF IsCall
  <2>2. g[n + 1] = g[n] + p * q
    <3>1. g = [i \in 0 .. c.k |-> IF i = 0 THEN 0 ELSE g[i - 1] + c.a[i] * c.b[i]]
      BY <1>1, Zenon DEF IsSum
    <3>2. n + 1 \in 0 .. c.k /\ n + 1 # 0 /\ (n + 1) - 1 = n
      <4> HIDE DEF U, S, p, q
      <4> QED  BY <2>1
    <3> QED  BY <3>1, <3>2, Zenon
  <2>3. -Q <= p /\ p <= Q /\ -Q <= q /\ q <= Q
    BY <2>1
  <2>4. g[n] \in Int /\ -(n * U) <= g[n] /\ g[n] <= n * U
    BY <1>4, <2>1
  <2> HIDE DEF p, q
  <2>5. -U <= p * q /\ p * q <= U
    <3>1. (Q - p) * (Q + q) >= 0 /\ (Q + p) * (Q - q) >= 0
      BY <2>1, <2>3, Z3
    <3>2. (Q - p) * (Q - q) >= 0 /\ (Q + p) * (Q + q) >= 0
      BY <2>1, <2>3, Z3
    <3>3. /\ (Q - p) * (Q + q) = U + Q * q - Q * p - p * q
          /\ (Q + p) * (Q - q) = U - Q * q + Q * p - p * q
          /\ (Q - p) * (Q - q) = U - Q * q - Q * p + p * q
          /\ (Q + p) * (Q + q) = U + Q * q + Q * p + p * q
      BY <2>1, Z3
    <3> DEFINE x1 == Q * q  x2 == Q * p  x3 == p * q
    <3>4. x1 \in Int /\ x2 \in Int /\ x3 \in Int
      BY <2>1
    <3>5. /\ U + x1 - x2 - x3 >= 0 /\ U - x1 + x2 - x3 >= 0
          /\ U - x1 - x2 + x3 >= 0 /\ U + x1 + x2 + x3 >= 0
      BY <3>1, <3>2, <3>3
    <3> HIDE DEF U, x1, x2, x3
    <3>6. -U <= x3 /\ x3 <= U
      BY <1>2, <3>4, <3>5
    <3> QED  BY <3>6 DEF x3
  <2> DEFINE w == p * q
             v == n * U
  <2>6. w \in Int /\ v \in Int /\ (n + 1) * U = v + U
    <3> HIDE DEF U
    <3> QED  BY <1>2, <2>1, Z3
  <2> HIDE DEF U, w, v
  <2>7. /\ -(v + U) <= g[n] + w /\ g[n] + w <= v + U /\ g[n] + w \in Int
    BY <1>2, <2>4, <2>5, <2>6 DEF w, v
  <2> QED  BY <2>2, <2>6, <2>7 DEF w
<1> HIDE DEF S
<1>5. Nat \subseteq S
  BY <1>3, <1>4, SetInduction, Zenon
<1>6. c.k \in S
  BY <1>5 DEF IsCall
<1> QED  BY <1>1, <1>6 DEF S, IsCall

\* Joining the two residues of a number gives the number of the signed range
\* that has them.
LEMMA JoinIsWrapped ==
  ASSUME NEW E \in Int
  PROVE  GarnerSigned(E % M1, E % M2) = Wrapped(E)
<1> DEFINE R == M1 * M2
           d == E \div R
           w == E % R
           X == Wrapped(E)
<1>1. M1 \in Nat \ {0} /\ M2 \in Nat \ {0} /\ R \in Nat \ {0}
  <2>1. M1 \in Nat /\ M1 > 2 /\ M2 \in Nat /\ M2 > 1
    BY Moduli
  <2>2. M1 * M2 > 1
    BY <2>1, Z3
  <2> QED  BY <2>1, <2>2
<1>2. E = R * d + w /\ d \in Int /\ w \in 0 .. R - 1
  <2> HIDE DEF R
  <2> QED  BY <1>1, DivMod
<1>3. PICK n \in Int : E = X + R * n
  <2>1. CASE 2 * w > R
    <3>1. X = w - R
      BY <2>1 DEF Wrapped
    <3> HIDE DEF R, d, w, X
    <3>2. E = X + R * (d + 1)
      BY <1>1, <1>2, <3>1, Z3
    <3> QED  BY <1>2, <3>2
  <2>2. CASE ~(2 * w > R)
    <3>1. X = w
      BY <2>2 DEF Wrapped
    <3> HIDE DEF R, d, w, X
    <3> QED  BY <1>1, <1>2, <3>1, Z3
  <2> QED  BY <2>1, <2>2
<1>4. X \in Int /\ -R < 2 * X /\ 2 * X <= R
  <2>1. X = IF 2 * w > R THEN w - R ELSE w
    BY DEF Wrapped
  <2> HIDE DEF R, w, X
  <2> QED  BY <1>1, <1>2, <2>1
<1>5. (E % M1) = (X % M1) /\ (E % M2) = (X % M2)
  <2> HIDE DEF X, d, w
  <2>1. R * n = M1 * (M2 * n) /\ R * n = M2 * (M1 * n)
    BY <1>1, Z3
  <2>2. M2 * n \in Int /\ M1 * n \in Int
    BY <1>1
  <2>3. ((X + M1 * (M2 * n)) % M1) = (X % M1)
    BY <1>1, <1>4, <2>2, ModShift, Zenon
  <2>4. ((X + M2 * (M1 * n)) % M2) = (X % M2)
    BY <1>1, <1>4, <2>2, ModShift, Zenon
  <2> QED  BY <1>3, <2>1, <2>3, <2>4, Zenon
<1>6. GarnerSigned(X % M1, X % M2) = X
  <2> HIDE DEF X
  <2> QED  BY <1>4, JoinInvertsSplit
<1> QED  BY <1>5, <1>6, Zenon

\* A number of the signed range is the one with its residues.
LEMMA WrappedIsSame ==
  ASSUME NEW E \in Int, -(M1 * M2) < 2 * E, 2 * E <= M1 * M2
  PROVE  Wrapped(E) = E
BY JoinIsWrapped, JoinInvertsSplit

(***************************************************************************)
(* The sum of a call whose operands are within the limits of a calibration *)
(* for as many products as it has lies in the signed range: the native     *)
(* hook's products are never wrapped.                                      *)
(***************************************************************************)
THEOREM LimitedInRange ==
  ASSUME NEW c, IsCall(c), Limited(c)
  PROVE  Exact(c) \in Int /\ Wrapped(Exact(c)) = Exact(c)
<1> DEFINE Q == QMax[c.k]
           x == c.k * (Q * Q)
           E == Exact(c)
           R == M1 * M2
<1>1. Q \in Nat /\ 2 * x < R /\ c.k \in 1 .. MaxDim
  BY Calibrated DEF Limited
<1>2. \A i \in 1 .. c.k : /\ -Q <= c.a[i] /\ c.a[i] <= Q
                          /\ -Q <= c.b[i] /\ c.b[i] <= Q
  BY <1>1 DEF Limited, Within
<1> HIDE DEF Q
<1>3. E \in Int /\ -x <= E /\ E <= x
  BY <1>1, <1>2, SumBound
<1>4. x \in Int /\ R \in Int
  <2>1. c.k \in Int
    BY <1>1
  <2>2. Q * Q \in Int
    BY <1>1
  <2>3. M1 \in Int /\ M2 \in Int
    BY Moduli
  <2> QED  BY <2>1, <2>2, <2>3
<1> HIDE DEF E, x, R
<1>5. -R < 2 * E /\ 2 * E <= R
  BY <1>1, <1>3, <1>4
<1> QED  BY <1>3, <1>5, WrappedIsSame DEF E, R

-----------------------------------------------------------------------------
(* The state machine of a call: the inductive invariant.                   *)

Ops == <<"a", "b", "mul", "d2h">>

\* The operations handed out to ring r before step p of the program.
Before(r, p) ==
  IF r = 1 THEN IF p <= 2 THEN p - 1 ELSE IF p <= 5 THEN 2 ELSE IF p <= 7 THEN 3 ELSE 4
           ELSE IF p <= 3 THEN 0 ELSE IF p <= 4 THEN 1 ELSE IF p <= 6 THEN 2
                ELSE IF p <= 8 THEN 3 ELSE 4

Waits(r) == r = 2 /\ waiting

\* How many operations of the call ring r has been handed and has carried out.
Issued(r) == IF Waits(r) THEN Before(r, pc) + 1 ELSE Before(r, pc)
Done(r) == Issued(r) - Len(queue[r])

\* What a buffer of ring r holds that was loaded with the numbers v.
Holds(r, buffer, v) == \A i \in 1 .. call.k : buffer[i] = Residue(v[i], Modulus(r))

\* A residue, and that of the product unless the shader wraps.
Correct(r, residue) ==
  /\ residue \in Residues(r)
  /\ r = 1 \/ ~ShaderWraps(call) => residue = Exact(call) % Modulus(r)

Buffers == [Elements -> Int]
OpNames == {"a", "b", "mul", "d2h"}

DeviceOK ==
  /\ dev \in [Rings -> [a : Buffers, b : Buffers, c : Int]]
  /\ host \in [Rings -> Int]
  /\ \A r \in Rings :
       /\ dev[r].a \in [Elements -> Cells(r)] /\ dev[r].b \in [Elements -> Cells(r)]
       /\ dev[r].c \in Cells(r) /\ host[r] \in Cells(r)

Shape ==
  /\ setup \in Setups /\ pc \in 0 .. 11
  /\ DeviceOK
  /\ queue \in [Rings -> Seq(OpNames)]
  /\ IsCall(call)
  /\ result \in {"none", "ok", "naive", "refused"}
  /\ faulted \in BOOLEAN /\ waiting \in BOOLEAN /\ fence \in BOOLEAN /\ stuck \in BOOLEAN

\* Between two calls the devices hold no work, whatever has failed before.
PhaseInv ==
  /\ pc # Idle => setup # "cpu" /\ call.k \in 1 .. MaxDim
  /\ pc \in {Idle, 10, 11} => queue[1] = <<>>
  /\ pc \in {Idle, 11} => queue[2] = <<>>
  /\ waiting => setup = "hetero" /\ pc \in {3, 4, 6, 8}

\* A result was joined from residues, or an operation of the call failed.
ResultInv ==
  pc = Idle /\ result = "ok" /\ ~faulted => \A r \in Rings : host[r] \in Residues(r)

\* While no operation has failed, each queue holds the operations handed out
\* that are not carried out yet, and the Vulkan queue at most the one the host
\* waits for.
QueueOK(r) ==
  /\ Len(queue[r]) <= Issued(r)
  /\ \A j \in 1 .. Len(queue[r]) : queue[r][j] = Ops[Done(r) + j]

VulkanOK ==
  setup = "hetero" => IF waiting /\ ~fence THEN Len(queue[2]) = 1 ELSE queue[2] = <<>>

QueueInv == pc # Idle /\ ~faulted => VulkanOK /\ \A r \in Rings : QueueOK(r)

\* ... and the buffers hold what the operations carried out put there.
BuffersOK(r) ==
  /\ Done(r) >= 1 => Holds(r, dev[r].a, call.a)
  /\ Done(r) >= 2 => Holds(r, dev[r].b, call.b)
  /\ Done(r) >= 3 => Correct(r, dev[r].c)
  /\ Done(r) >= 4 /\ ~Waits(r) => Correct(r, host[r])

DataInv == pc # Idle /\ ~faulted => \A r \in Rings : BuffersOK(r)

IInv ==
  Shape /\ PhaseInv /\ ResultInv /\ QueueInv /\ DataInv /\ ProductExact

-----------------------------------------------------------------------------
LEMMA ProgramSteps ==
  /\ Len(Program) = 10 /\ DOMAIN Program = 1 .. 10
  /\ \A p \in 1 .. 10 :
       /\ Program[p].op = CASE p \in {1, 3} -> "a" [] p \in {2, 4} -> "b"
                            [] p \in {5, 6} -> "mul" [] p \in {7, 8} -> "d2h"
                            [] OTHER -> "sync"
       /\ Program[p].ring = IF p \in {1, 2, 5, 7, 9} THEN 1 ELSE 2
BY DEF Program

\* A step of the program hands its ring the next operation of Ops.
LEMMA BeforeStep ==
  ASSUME NEW p \in 1 .. 10, NEW r \in Rings
  PROVE  /\ Before(r, p) \in 0 .. 4
         /\ IF p <= 8 /\ Program[p].ring = r
            THEN /\ Before(r, p) \in 0 .. 3
                 /\ Before(r, p + 1) = Before(r, p) + 1
                 /\ Program[p].op = Ops[Before(r, p) + 1]
            ELSE Before(r, p + 1) = Before(r, p)
         /\ Program[p].op = "sync" <=> p > 8
BY ProgramSteps DEF Before, Ops, Rings

LEMMA ShapeGivesTypeOK == Shape /\ ResultInv => TypeOK
BY ProgramSteps DEF Shape, ResultInv, DeviceOK, TypeOK, OpNames, Idle

LEMMA SplitOK ==
  ASSUME NEW r \in Rings, NEW k \in 1 .. MaxDim, NEW v \in [1 .. k -> Int],
         NEW buffer \in [Elements -> Cells(r)]
  PROVE  /\ Split(v, k, r, buffer) \in [Elements -> Cells(r)]
         /\ \A i \in 1 .. k : Split(v, k, r, buffer)[i] = Residue(v[i], Modulus(r))
<1>1. k \in Nat /\ MaxDim \in Nat /\ k <= MaxDim
  BY MatmulAssumption
<1>2. \A i \in 1 .. k : i \in Elements
  BY <1>1 DEF Elements
<1>3. \A i \in Elements : i <= k => Residue(v[i], Modulus(r)) \in Cells(r)
  <2> SUFFICES ASSUME NEW i \in Elements, i <= k
               PROVE  Residue(v[i], Modulus(r)) \in Cells(r)
    OBVIOUS
  <2>1. v[i] \in Int
    BY <1>1 DEF Elements
  <2> QED  BY <2>1, ResidueInRing, Zenon DEF Cells, Residues
<1> QED  BY <1>1, <1>2, <1>3 DEF Split

LEMMA ProductOK ==
  ASSUME DeviceOK, NEW r \in Rings, NEW k \in 1 .. MaxDim
  PROVE  RingProduct(r, dev[r].a, dev[r].b, k) \in Cells(r)
<1>1. \A i \in 1 .. k : i \in Elements
  BY MatmulAssumption DEF Elements
<1>2. \A i \in 1 .. k : dev[r].a[i] \in Cells(r) /\ dev[r].b[i] \in Cells(r)
  BY <1>1 DEF DeviceOK
<1> QED  BY <1>2, RingProductInCells

LEMMA CellsAreInts ==
  \A r \in Rings : Cells(r) \subseteq Int /\ 0 \in Cells(r) /\ Noise \in Cells(r)
BY RingsHaveModuli DEF Cells, Residues, Noise

\* A device operation leaves residues in the buffers.
LEMMA EffectOK ==
  ASSUME DeviceOK, IsCall(call), call.k \in 1 .. MaxDim,
         NEW r \in Rings, NEW o \in OpNames, Effect(o, r)
  PROVE  DeviceOK'
<1> DEFINE A == Split(call.a, call.k, r, dev[r].a)
           C == Split(call.b, call.k, r, dev[r].b)
           P == RingProduct(r, dev[r].a, dev[r].b, call.k)
<1>1. A \in [Elements -> Cells(r)] /\ C \in [Elements -> Cells(r)]
  BY SplitOK DEF DeviceOK, IsCall
<1>2. P \in Cells(r)
  BY ProductOK
<1>3. CASE o = "a"
  <2>1. dev' = [dev EXCEPT ![r].a = A] /\ host' = host
    BY <1>3 DEF Effect
  <2> HIDE DEF A
  <2> QED  BY <1>1, <2>1, CellsAreInts DEF DeviceOK, Buffers
<1>4. CASE o = "b"
  <2>1. dev' = [dev EXCEPT ![r].b = C] /\ host' = host
    BY <1>4 DEF Effect
  <2> HIDE DEF C
  <2> QED  BY <1>1, <2>1, CellsAreInts DEF DeviceOK, Buffers
<1>5. CASE o = "mul"
  <2>1. dev' = [dev EXCEPT ![r].c = P] /\ host' = host
    BY <1>5 DEF Effect
  <2> HIDE DEF P
  <2> QED  BY <1>2, <2>1, CellsAreInts DEF DeviceOK, Buffers
<1>6. CASE o = "d2h"
  <2>1. dev' = dev /\ host' = [host EXCEPT ![r] = dev[r].c]
    BY <1>6 DEF Effect
  <2> QED  BY <2>1, CellsAreInts DEF DeviceOK, Buffers
<1> QED  BY <1>3, <1>4, <1>5, <1>6 DEF OpNames

LEMMA LateEffectOK ==
  ASSUME DeviceOK, IsCall(call), call.k \in 1 .. MaxDim, NEW o \in OpNames,
         LateEffect(o), UNCHANGED host
  PROVE  DeviceOK'
<1>1. CASE UNCHANGED dev
  BY <1>1 DEF DeviceOK
<1>2. ASSUME o \in {"a", "b"}, NEW v \in {call.a, call.b},
             dev' = [dev EXCEPT ![2][o] = Split(v, call.k, 2, @)]
      PROVE  DeviceOK'
  <2> DEFINE A == Split(v, call.k, 2, dev[2][o])
  <2>1. dev[2][o] \in [Elements -> Cells(2)]
    BY <1>2 DEF DeviceOK, Rings
  <2>2. A \in [Elements -> Cells(2)]
    BY <2>1, SplitOK DEF IsCall, Rings
  <2>3. dev' = [dev EXCEPT ![2][o] = A]
    BY <1>2
  <2> HIDE DEF A
  <2>4. CASE o = "a"
    BY <2>2, <2>3, <2>4, CellsAreInts DEF DeviceOK, Buffers, Rings
  <2>5. CASE o = "b"
    BY <2>2, <2>3, <2>5, CellsAreInts DEF DeviceOK, Buffers, Rings
  <2> QED  BY <1>2, <2>4, <2>5
<1>3. CASE dev' = [dev EXCEPT ![2].c = RingProduct(2, dev[2].a, dev[2].b, call.k)]
  <2> DEFINE P == RingProduct(2, dev[2].a, dev[2].b, call.k)
  <2>1. P \in Cells(2)
    BY ProductOK DEF Rings
  <2>2. dev' = [dev EXCEPT ![2].c = P]
    BY <1>3
  <2> HIDE DEF P
  <2> QED  BY <2>1, <2>2, CellsAreInts DEF DeviceOK, Buffers, Rings
<1> QED  BY <1>1, <1>2, <1>3 DEF LateEffect

\* What an operation puts into the buffers of its ring when the operations
\* before it did theirs.
LEMMA EffectData ==
  ASSUME DeviceOK, IsCall(call), call.k \in 1 .. MaxDim, UNCHANGED <<call, setup>>,
         NEW r \in Rings, NEW n \in 0 .. 3, Effect(Ops[n + 1], r),
         n >= 1 => Holds(r, dev[r].a, call.a),
         n >= 2 => Holds(r, dev[r].b, call.b),
         n >= 3 => Correct(r, dev[r].c)
  PROVE  /\ Holds(r, dev[r].a, call.a)'
         /\ n >= 1 => Holds(r, dev[r].b, call.b)'
         /\ n >= 2 => Correct(r, dev[r].c)'
         /\ n >= 3 => Correct(r, host[r])'
         /\ \A s \in Rings \ {r} : dev'[s] = dev[s] /\ host'[s] = host[s]
         /\ n < 3 => UNCHANGED host
<1> DEFINE A == Split(call.a, call.k, r, dev[r].a)
           C == Split(call.b, call.k, r, dev[r].b)
           P == RingProduct(r, dev[r].a, dev[r].b, call.k)
<1>1. \A i \in 1 .. call.k : /\ A[i] = Residue(call.a[i], Modulus(r))
                             /\ C[i] = Residue(call.b[i], Modulus(r))
  <2>1. call.a \in [1 .. call.k -> Int] /\ call.b \in [1 .. call.k -> Int]
    BY DEF IsCall
  <2>2. dev[r].a \in [Elements -> Cells(r)] /\ dev[r].b \in [Elements -> Cells(r)]
    BY DEF DeviceOK
  <2>3. \A i \in 1 .. call.k : A[i] = Residue(call.a[i], Modulus(r))
    BY <2>1, <2>2, SplitOK, Zenon
  <2>4. \A i \in 1 .. call.k : C[i] = Residue(call.b[i], Modulus(r))
    BY <2>1, <2>2, SplitOK, Zenon
  <2> QED  BY <2>3, <2>4, Zenon
<1>2. ShaderWraps(call)' = ShaderWraps(call)
  BY DEF ShaderWraps
<1>3. n >= 2 => Correct(r, P)
  <2> SUFFICES ASSUME n >= 2 PROVE Correct(r, P)
    OBVIOUS
  <2>1. \A i \in 1 .. call.k : /\ dev[r].a[i] = Residue(call.a[i], Modulus(r))
                               /\ dev[r].b[i] = Residue(call.b[i], Modulus(r))
    BY DEF Holds
  <2>2. P \in Residues(r)
    <3>1. \A i \in 1 .. call.k : /\ dev[r].a[i] \in 0 .. Modulus(r) - 1
                                 /\ dev[r].b[i] \in 0 .. Modulus(r) - 1
      BY <2>1, ResidueInRing DEF IsCall
    <3> QED  BY <3>1, RingProductInRing DEF IsCall, Residues
  <2>3. r = 1 \/ ~ShaderWraps(call) => P = Exact(call) % Modulus(r)
    BY <2>1, RingProductIsExact
  <2> QED  BY <2>2, <2>3 DEF Correct
<1> HIDE DEF A, C, P
<1>4. CASE n = 0
  <2>1. dev' = [dev EXCEPT ![r].a = A] /\ host' = host
    BY <1>4 DEF Effect, Ops, A
  <2> QED  BY <1>1, <1>4, <2>1 DEF DeviceOK, Holds
<1>5. CASE n = 1
  <2>1. dev' = [dev EXCEPT ![r].b = C] /\ host' = host
    BY <1>5 DEF Effect, Ops, C
  <2> QED  BY <1>1, <1>5, <2>1 DEF DeviceOK, Holds
<1>6. CASE n = 2
  <2>1. dev' = [dev EXCEPT ![r].c = P] /\ host' = host
    BY <1>6 DEF Effect, Ops, P
  <2> QED  BY <1>2, <1>3, <1>6, <2>1 DEF DeviceOK, Holds, Correct
<1>7. CASE n = 3
  <2>1. dev' = dev /\ host' = [host EXCEPT ![r] = dev[r].c]
    BY <1>7 DEF Effect, Ops
  <2> QED  BY <1>2, <1>7, <2>1 DEF DeviceOK, Holds, Correct
<1> QED  BY <1>4, <1>5, <1>6, <1>7

-----------------------------------------------------------------------------
LEMMA InitIInv == Init => IInv
<1> SUFFICES ASSUME Init PROVE IInv
  OBVIOUS
<1> USE DEF Init
<1>1. DeviceOK
  <2>1. \A r \in Rings : 0 \in Cells(r) /\ Noise \in Cells(r) /\ Noise \in Int
    BY CellsAreInts
  <2> QED  BY <2>1 DEF DeviceOK, Buffers
<1>2. IsCall(call)
  <2>1. call.k = 0 /\ call.a = <<>> /\ call.b = <<>>
    OBVIOUS
  <2>2. <<>> \in [1 .. 0 -> Int]
    OBVIOUS
  <2> QED  BY <2>1, <2>2 DEF IsCall
<1>3. queue \in [Rings -> Seq(OpNames)]
  OBVIOUS
<1>4. pc = 0
  BY DEF Idle
<1>5. Shape
  <2>1. /\ setup \in Setups /\ result \in {"none", "ok", "naive", "refused"}
        /\ faulted \in BOOLEAN /\ waiting \in BOOLEAN /\ fence \in BOOLEAN /\ stuck \in BOOLEAN
    OBVIOUS
  <2>2. pc \in 0 .. 11
    BY <1>4
  <2> QED  BY <1>1, <1>2, <1>3, <1>4, <2>1, <2>2, Zenon DEF Shape
<1>6. PhaseInv
  BY DEF PhaseInv, Rings, Idle
<1> QED  BY <1>5, <1>6 DEF IInv, ResultInv, QueueInv, DataInv, ProductExact

-----------------------------------------------------------------------------
(* A new call.                                                             *)

\* A call that is not carried out on the devices.
LEMMA AnsweredAtOnce ==
  ASSUME IInv, pc = Idle, pc' = pc, UNCHANGED <<setup, queue, vulkan>>,
         DeviceOK', IsCall(call'), faulted' \in BOOLEAN,
         result' \in {"none", "ok", "naive", "refused"},
         ResultInv', ProductExact'
  PROVE  IInv'
<1>1. Shape'
  BY DEF IInv, Shape, vulkan
<1>2. PhaseInv'
  BY DEF IInv, PhaseInv, vulkan
<1> QED  BY <1>1, <1>2 DEF IInv, QueueInv, DataInv

LEMMA OnesIsCall ==
  ASSUME NEW k \in Nat
  PROVE  IsCall(Ones(k)) /\ Ones(k).k = k
BY DEF IsCall, Ones

LEMMA TriedIsCall ==
  ASSUME NEW k \in 1 .. MaxDim, NEW c \in Tried(k)
  PROVE  IsCall(c) /\ c.k = k
<1>1. Left \subseteq Int /\ Right \subseteq Int /\ k \in Nat
  BY MatmulAssumption
<1>2. c.k = k /\ c.a \in [1 .. k -> Left]
  BY DEF Tried
<1>3. PICK q \in Right : c.b = [i \in 1 .. k |-> q]
  BY DEF Tried
<1> QED  BY <1>1, <1>2, <1>3 DEF IsCall

\* The hooks' calls are among them.
LEMMA HooksTry ==
  ASSUME NEW k
  PROVE  NativeCalls(k) \subseteq Tried(k) /\ GgmlCalls(k) \subseteq Tried(k)
BY DEF NativeCalls, GgmlCalls

LEMMA TooLargeIInv == IInv /\ TooLarge => IInv'
<1> SUFFICES ASSUME IInv, TooLarge PROVE IInv'
  OBVIOUS
<1>1. PICK who \in Hooks : /\ NewCall(Ones(MaxDim + 1))
                           /\ GiveUp(who, call')
                           /\ UNCHANGED <<setup, pc, devices, faults>>
  BY DEF TooLarge
<1>2. IsCall(call')
  <2>1. MaxDim + 1 \in Nat
    BY MatmulAssumption
  <2> QED  BY <1>1, <2>1, OnesIsCall DEF NewCall
<1>3. ProductExact'
  BY <1>1 DEF GiveUp, ProductExact
<1>4. DeviceOK'
  BY <1>1 DEF IInv, Shape, DeviceOK, devices
<1>5. result' \in {"naive", "refused"} /\ ResultInv'
  BY <1>1 DEF GiveUp, ResultInv
<1> QED  BY <1>1, <1>2, <1>3, <1>4, <1>5, AnsweredAtOnce
         DEF NewCall, devices, vulkan, IInv, Shape

LEMMA NoMemoryIInv == IInv /\ NoMemory => IInv'
<1> SUFFICES ASSUME IInv, NoMemory PROVE IInv'
  OBVIOUS
<1>1. PICK who \in Callers, k \in 1 .. MaxDim :
        /\ NewCall(Ones(k))
        /\ GiveUp(who, call')
        /\ UNCHANGED <<setup, pc, devices, faults>>
  BY DEF NoMemory
<1>2. IsCall(call')
  <2>1. k \in Nat
    BY MatmulAssumption
  <2> QED  BY <1>1, <2>1, OnesIsCall DEF NewCall
<1>3. ProductExact'
  BY <1>1 DEF GiveUp, ProductExact
<1>4. DeviceOK'
  BY <1>1 DEF IInv, Shape, DeviceOK, devices
<1>5. result' \in {"naive", "refused"} /\ ResultInv'
  BY <1>1 DEF GiveUp, ResultInv
<1> QED  BY <1>1, <1>2, <1>3, <1>4, <1>5, AnsweredAtOnce
         DEF NewCall, devices, vulkan, IInv, Shape

\* The residues of an exact sum are joined to it, wrapped if it must be.
LEMMA JoinedIsWrapped ==
  ASSUME NEW c, IsCall(c), NEW h, h[1] \in Residues(1), h[2] \in Residues(2),
         h[1] = Exact(c) % M1, h[2] = Exact(c) % M2
  PROVE  /\ Joined(h) = Wrapped(Exact(c))
         /\ Limited(c) => Joined(h) = Exact(c)
<1>1. Exact(c) \in Int
  BY ExactIsInt
<1>2. Noise \notin {h[1], h[2]}
  BY DEF Residues, Noise
<1>3. Joined(h) = Wrapped(Exact(c))
  BY <1>1, <1>2, JoinIsWrapped DEF Joined
<1> QED  BY <1>3, LimitedInRange

\* Both rings on the host: their products are the residues of the sum.
LEMMA ComputeOnHostIInv == IInv /\ ComputeOnHost => IInv'
<1> SUFFICES ASSUME IInv, ComputeOnHost PROVE IInv'
  OBVIOUS
<1> DEFINE zero == [i \in Elements |-> 0]
<1>0. PICK k \in 1 .. MaxDim : \E c \in Tried(k) :
        /\ NewCall(c)
        /\ host' = [r \in Rings |-> RingProduct(r, Split(c.a, k, r, zero),
                                                   Split(c.b, k, r, zero), k)]
        /\ out' = Joined(host')
        /\ result' = "ok"
        /\ UNCHANGED <<setup, pc, queue, vulkan, dev, faults>>
  BY HooksTry DEF ComputeOnHost
<1>1. PICK c \in Tried(k) :
        /\ NewCall(c)
        /\ host' = [r \in Rings |-> RingProduct(r, Split(c.a, k, r, zero),
                                                   Split(c.b, k, r, zero), k)]
        /\ out' = Joined(host')
        /\ result' = "ok"
        /\ UNCHANGED <<setup, pc, queue, vulkan, dev, faults>>
  BY <1>0
<1>2. setup = "cpu"
  BY DEF ComputeOnHost
<1>3. IsCall(c) /\ c.k = k /\ k \in Nat
  BY TriedIsCall, MatmulAssumption
<1>4. \A r \in Rings : host'[r] \in Residues(r) /\ host'[r] = Exact(c) % Modulus(r)
  <2> SUFFICES ASSUME NEW r \in Rings
               PROVE  host'[r] \in Residues(r) /\ host'[r] = Exact(c) % Modulus(r)
    OBVIOUS
  <2> DEFINE A == Split(c.a, k, r, zero)
             C == Split(c.b, k, r, zero)
  <2>1. zero \in [Elements -> Cells(r)]
    BY CellsAreInts
  <2>2. \A i \in 1 .. k : /\ A[i] = Residue(c.a[i], Modulus(r))
                          /\ C[i] = Residue(c.b[i], Modulus(r))
    <3>1. c.a \in [1 .. k -> Int] /\ c.b \in [1 .. k -> Int]
      BY <1>3 DEF IsCall
    <3> HIDE DEF zero
    <3>2. \A i \in 1 .. k : A[i] = Residue(c.a[i], Modulus(r))
      BY <2>1, <3>1, SplitOK, Zenon
    <3>3. \A i \in 1 .. k : C[i] = Residue(c.b[i], Modulus(r))
      BY <2>1, <3>1, SplitOK, Zenon
    <3> QED  BY <3>2, <3>3, Zenon
  <2>3. \A i \in 1 .. k : A[i] \in Residues(r) /\ C[i] \in Residues(r)
    <3> HIDE DEF A, C
    <3> QED  BY <1>3, <2>2, ResidueInRing DEF IsCall, Residues
  <2>4. ~ShaderWraps(c)
    BY <1>2 DEF ShaderWraps
  <2>5. host'[r] = RingProduct(r, A, C, k)
    BY <1>1
  <2> HIDE DEF A, C
  <2>6. RingProduct(r, A, C, k) \in Residues(r)
    BY <1>3, <2>3, RingProductInRing DEF Residues
  <2>7. RingProduct(r, A, C, k) = Exact(c) % Modulus(r)
    BY <1>3, <2>2, <2>4, RingProductIsExact
  <2> QED  BY <2>5, <2>6, <2>7
<1>5. DeviceOK'
  <2>1. \A r \in Rings : host'[r] \in Cells(r)
    BY <1>4 DEF Cells
  <2>2. host' \in [Rings -> Int]
    BY <1>1, <2>1, CellsAreInts
  <2> QED  BY <1>1, <2>1, <2>2 DEF IInv, Shape, DeviceOK
<1>6. out' = Joined(host') /\ call' = c /\ result' = "ok"
  BY <1>1 DEF NewCall
<1>7. ProductExact' /\ ResultInv'
  <2>1. ResultInv'
    BY <1>4 DEF ResultInv
  <2>2. host'[1] \in Residues(1) /\ host'[2] \in Residues(2)
    BY <1>4 DEF Rings
  <2>3. host'[1] = Exact(c) % M1 /\ host'[2] = Exact(c) % M2
    BY <1>4 DEF Rings, Modulus
  <2>4. out' = Wrapped(Exact(c)) /\ (Limited(c) => out' = Exact(c))
    BY <1>3, <1>6, <2>2, <2>3, JoinedIsWrapped
  <2> QED  BY <1>6, <2>1, <2>4 DEF ProductExact
<1> QED  BY <1>1, <1>3, <1>5, <1>7, AnsweredAtOnce DEF NewCall

\* The devices are idle when a call begins.
LEMMA Started ==
  ASSUME IInv, pc = Idle, setup # "cpu", NEW k \in 1 .. MaxDim,
         NEW c \in Tried(k), call' = c,
         faulted' = FALSE, pc' = 1, UNCHANGED <<setup, devices, answer>>
  PROVE  IInv'
<1>1. IsCall(c) /\ c.k = k
  BY TriedIsCall
<1>2. Shape'
  <2>1. DeviceOK'
    BY DEF IInv, Shape, DeviceOK, devices
  <2>2. pc' \in 0 .. 11
    OBVIOUS
  <2> QED  BY <1>1, <2>1, <2>2 DEF IInv, Shape, devices, vulkan, answer
<1>3. queue' = queue /\ queue[1] = <<>> /\ queue[2] = <<>> /\ ~waiting /\ ~waiting'
  BY DEF IInv, PhaseInv, devices, vulkan, Idle
<1>4. PhaseInv'
  BY <1>1, <1>3 DEF PhaseInv, Idle
<1>5. ResultInv'
  BY DEF ResultInv, Idle
<1>6. \A r \in Rings : Issued(r)' = 0 /\ Done(r)' = 0 /\ Len(queue'[r]) = 0
  BY <1>3 DEF Issued, Done, Before, Waits, Rings
<1>7. QueueInv'
  BY <1>3, <1>6 DEF QueueInv, QueueOK, VulkanOK, Rings
<1>8. DataInv'
  BY <1>6 DEF DataInv, BuffersOK
<1>9. ProductExact'
  BY DEF ProductExact, Idle
<1> QED  BY <1>2, <1>4, <1>5, <1>7, <1>8, <1>9 DEF IInv

LEMMA StartIInv == IInv /\ (StartNative \/ StartGgml \/ StartExpert) => IInv'
<1> SUFFICES ASSUME IInv, StartNative \/ StartGgml \/ StartExpert PROVE IInv'
  OBVIOUS
<1>1. PICK k \in 1 .. MaxDim : \E c \in Tried(k) : Launch(c)
  BY HooksTry DEF StartNative, StartGgml, StartExpert
<1> QED  BY <1>1, Started DEF Launch, NewCall

-----------------------------------------------------------------------------
(* The steps of a call.                                                    *)

\* What a step needs that leaves the request and the answer alone.
LEMMA InCall ==
  ASSUME IInv, UNCHANGED <<setup, request, answer>>, pc' # Idle, Shape', PhaseInv',
         pc # Idle, QueueInv', DataInv'
  PROVE  IInv'
<1>1. ResultInv'
  BY DEF ResultInv
<1>2. ProductExact'
  BY DEF ProductExact
<1> QED  BY <1>1, <1>2 DEF IInv

\* ... or that one of its operations fails, after which nothing is claimed.
LEMMA FailedInCall ==
  ASSUME IInv, UNCHANGED <<setup, request, answer>>, pc' # Idle, Shape', PhaseInv',
         pc # Idle, faulted'
  PROVE  IInv'
BY InCall DEF QueueInv, DataInv

LEMMA RunningHere ==
  ASSUME Running
  PROVE  /\ pc \in 1 .. 10 /\ pc # Idle /\ Here = Program[pc] /\ Here.ring \in Rings
         /\ Here.op = "sync" <=> pc > 8
         /\ Here.op # "sync" => Here.op \in OpNames
BY ProgramSteps DEF Running, Here, Idle, Rings, OpNames

\* The other ring is handed nothing by this step.
LEMMA EnqueueIInv == IInv /\ Enqueue => IInv'
<1> SUFFICES ASSUME IInv, Enqueue PROVE IInv'
  OBVIOUS
<1> DEFINE h == Here.ring
<1>1. /\ pc \in 1 .. 8 /\ pc # Idle /\ h \in Rings /\ Here = Program[pc] /\ Here.op \in OpNames
  BY RunningHere DEF Enqueue
<1>2. /\ queue' = [queue EXCEPT ![h] = Append(@, Here.op)]
      /\ pc' = pc + 1 /\ pc' \in 2 .. 9 /\ pc' # Idle
      /\ UNCHANGED <<setup, request, vulkan, dev, host, answer, failure>>
  BY <1>1 DEF Enqueue, Idle
<1>3. ~waiting
  BY <1>1, ProgramSteps DEF Enqueue, OnStream, IInv, PhaseInv
<1> HIDE DEF h
<1>4. queue \in [Rings -> Seq(OpNames)]
  BY DEF IInv, Shape
<1>5. queue' \in [Rings -> Seq(OpNames)]
  BY <1>1, <1>2, <1>4
<1>6. Shape'
  <2>1. DeviceOK'
    BY <1>2 DEF IInv, Shape, DeviceOK
  <2>2. pc' \in 0 .. 11
    BY <1>2
  <2> QED  BY <1>2, <1>5, <2>1, <2>2
           DEF IInv, Shape, request, vulkan, answer, failure
<1>7. PhaseInv'
  BY <1>1, <1>2, <1>3 DEF IInv, PhaseInv, request, vulkan
<1>8. ASSUME NEW r \in Rings
      PROVE  /\ Done(r)' = Done(r) /\ Waits(r)' = Waits(r)
             /\ ~faulted /\ QueueOK(r) => QueueOK(r)'
  <2>1. Waits(r)' = Waits(r) /\ ~Waits(r)
    BY <1>2, <1>3 DEF Waits, vulkan
  <2>2. Len(queue[r]) \in Nat
    BY <1>4
  <2>3. CASE r = h
    <3>1. /\ Before(r, pc) \in 0 .. 3 /\ Before(r, pc + 1) = Before(r, pc) + 1
          /\ Here.op = Ops[Before(r, pc) + 1]
      BY <1>1, <2>3, BeforeStep DEF h
    <3>2. Issued(r) = Before(r, pc) /\ Issued(r)' = Before(r, pc) + 1
      BY <1>2, <2>1, <3>1 DEF Issued
    <3>3. /\ queue'[r] = Append(queue[r], Here.op)
          /\ Len(queue'[r]) = Len(queue[r]) + 1
          /\ \A j \in 1 .. Len(queue[r]) : queue'[r][j] = queue[r][j]
          /\ queue'[r][Len(queue[r]) + 1] = Here.op
      BY <1>1, <1>2, <1>4, <2>3
    <3>4. Done(r)' = Done(r) /\ Done(r) + Len(queue[r]) + 1 = Before(r, pc) + 1
      BY <2>2, <3>1, <3>2, <3>3 DEF Done
    <3>5. ASSUME QueueOK(r) PROVE QueueOK(r)'
      <4>1. ASSUME NEW j \in 1 .. Len(queue'[r]) PROVE queue'[r][j] = Ops[Done(r) + j]
        <5>1. CASE j = Len(queue[r]) + 1
          <6>1. Done(r) + j = Before(r, pc) + 1
            BY <2>2, <3>1, <3>2, <5>1 DEF Done
          <6> QED  BY <3>1, <3>3, <5>1, <6>1
        <5>2. CASE j \in 1 .. Len(queue[r])
          BY <3>3, <3>5, <5>2 DEF QueueOK
        <5> QED  BY <2>2, <3>3, <5>1, <5>2
      <4>2. Len(queue'[r]) <= Issued(r)'
        BY <2>2, <3>1, <3>2, <3>3, <3>5 DEF QueueOK
      <4> QED  BY <3>4, <4>1, <4>2 DEF QueueOK
    <3> QED  BY <2>1, <3>4, <3>5
  <2>4. CASE r # h
    <3>1. Before(r, pc + 1) = Before(r, pc)
      BY <1>1, <2>4, BeforeStep DEF h
    <3>2. Issued(r)' = Issued(r) /\ queue'[r] = queue[r]
      BY <1>2, <1>4, <2>1, <2>4, <3>1 DEF Issued
    <3> QED  BY <2>1, <3>2 DEF Done, QueueOK
  <2> QED  BY <2>3, <2>4
<1>9. VulkanOK => VulkanOK'
  <2>1. setup = "hetero" => h = 1
    BY <1>1 DEF Enqueue, OnStream, Rings, h
  <2> QED  BY <1>2, <1>4, <2>1 DEF VulkanOK, vulkan, Rings
<1>10. QueueInv'
  BY <1>1, <1>2, <1>8, <1>9 DEF IInv, QueueInv, failure
<1>11. DataInv'
  <2> SUFFICES ASSUME ~faulted, NEW r \in Rings PROVE BuffersOK(r)'
    BY <1>2 DEF DataInv, failure
  <2>1. BuffersOK(r)
    BY <1>1 DEF IInv, DataInv
  <2> QED  BY <1>2, <1>8, <2>1
           DEF BuffersOK, Holds, Correct, ShaderWraps, request
<1> QED  BY <1>1, <1>2, <1>6, <1>7, <1>10, <1>11, InCall

LEMMA RefusedIInv == IInv /\ Refused => IInv'
<1> SUFFICES ASSUME IInv, Refused PROVE IInv'
  OBVIOUS
<1>1. /\ pc \in 1 .. 8 /\ pc # Idle /\ pc' = pc + 1 /\ pc' \in 2 .. 9 /\ pc' # Idle
      /\ ~waiting /\ faulted'
      /\ UNCHANGED <<setup, request, devices, answer>>
  BY RunningHere DEF Refused, Idle
<1>2. Shape'
  <2>1. DeviceOK'
    BY <1>1 DEF IInv, Shape, DeviceOK, devices
  <2>2. pc' \in 0 .. 11 /\ faulted' \in BOOLEAN
    BY <1>1 DEF Refused
  <2> QED  BY <1>1, <2>1, <2>2 DEF IInv, Shape, request, devices, vulkan, answer
<1>3. PhaseInv'
  BY <1>1 DEF IInv, PhaseInv, request, devices, vulkan
<1> QED  BY <1>1, <1>2, <1>3, FailedInCall

\* A queue that holds something belongs to a call that runs.
LEMMA HeldInCall ==
  ASSUME IInv, NEW r \in Rings, queue[r] # <<>>
  PROVE  /\ pc \in 1 .. 10 /\ pc # Idle /\ IsCall(call) /\ call.k \in 1 .. MaxDim /\ DeviceOK
         /\ Head(queue[r]) \in OpNames /\ Tail(queue[r]) \in Seq(OpNames)
         /\ r = 1 => pc # 10
         /\ queue \in [Rings -> Seq(OpNames)]
         /\ Len(queue[r]) \in Nat \ {0} /\ Head(queue[r]) = queue[r][1]
         /\ Len(Tail(queue[r])) = Len(queue[r]) - 1
         /\ \A j \in 1 .. Len(queue[r]) - 1 : Tail(queue[r])[j] = queue[r][j + 1]
<1>1. queue \in [Rings -> Seq(OpNames)]
  BY DEF IInv, Shape
<1>2. queue[r] \in Seq(OpNames)
  BY <1>1
<1>3. /\ Head(queue[r]) \in OpNames /\ Tail(queue[r]) \in Seq(OpNames)
      /\ Len(queue[r]) \in Nat \ {0} /\ Head(queue[r]) = queue[r][1]
      /\ Len(Tail(queue[r])) = Len(queue[r]) - 1
      /\ \A j \in 1 .. Len(queue[r]) - 1 : Tail(queue[r])[j] = queue[r][j + 1]
  BY <1>2
<1>4. pc \in 1 .. 10 /\ pc # Idle /\ (r = 1 => pc # 10)
  BY DEF IInv, Shape, PhaseInv, Idle, Rings
<1>5. IsCall(call) /\ call.k \in 1 .. MaxDim /\ DeviceOK
  BY <1>4 DEF IInv, Shape, PhaseInv
<1> QED  BY <1>1, <1>3, <1>4, <1>5

\* What the next operation of a queue does, in a call that nothing has failed.
LEMMA RingRuns ==
  ASSUME IInv, NEW r \in Rings, queue[r] # <<>>, ~faulted, QueueOK(r), BuffersOK(r),
         UNCHANGED <<call, setup, pc, waiting>>,
         queue' = [queue EXCEPT ![r] = Tail(@)]
  PROVE  /\ Done(r) \in 0 .. 3 /\ Head(queue[r]) = Ops[Done(r) + 1]
         /\ Issued(r)' = Issued(r) /\ Done(r)' = Done(r) + 1
         /\ QueueOK(r)'
         /\ \A s \in Rings \ {r} : /\ queue'[s] = queue[s] /\ Done(s)' = Done(s)
                                   /\ Waits(s)' = Waits(s)
                                   /\ QueueOK(s) => QueueOK(s)'
<1>1. /\ pc \in 1 .. 10
      /\ queue \in [Rings -> Seq(OpNames)]
      /\ Len(queue[r]) \in Nat \ {0} /\ Head(queue[r]) = queue[r][1]
      /\ Len(Tail(queue[r])) = Len(queue[r]) - 1
      /\ \A j \in 1 .. Len(queue[r]) - 1 : Tail(queue[r])[j] = queue[r][j + 1]
  BY HeldInCall
<1>2. \A s \in Rings : Waits(s)' = Waits(s) /\ Issued(s)' = Issued(s)
  BY DEF Issued, Waits
<1>3. Issued(r) \in 0 .. 4
  <2>1. CASE Waits(r)
    <3>1. pc \in {3, 4, 6, 8} /\ r = 2
      BY <2>1 DEF Waits, IInv, PhaseInv
    <3>2. Before(r, pc) \in 0 .. 3
      BY <3>1 DEF Before
    <3> QED  BY <2>1, <3>2 DEF Issued
  <2>2. CASE ~Waits(r)
    BY <1>1, <2>2, BeforeStep DEF Issued
  <2> QED  BY <2>1, <2>2
<1>4. Done(r) \in 0 .. 3
  BY <1>1, <1>3 DEF Done, QueueOK
<1>5. Head(queue[r]) = Ops[Done(r) + 1]
  BY <1>1 DEF QueueOK
<1>6. queue'[r] = Tail(queue[r])
  BY <1>1
<1>7. Done(r)' = Done(r) + 1
  BY <1>1, <1>2, <1>3, <1>6 DEF Done
<1>8. QueueOK(r)'
  <2>1. Len(queue'[r]) <= Issued(r)'
    BY <1>1, <1>2, <1>3, <1>6 DEF QueueOK
  <2>2. ASSUME NEW j \in 1 .. Len(queue'[r]) PROVE queue'[r][j] = Ops[Done(r)' + j]
    <3>1. queue'[r][j] = queue[r][j + 1] /\ j + 1 \in 1 .. Len(queue[r])
      BY <1>1, <1>6
    <3>2. Done(r)' + j = Done(r) + (j + 1)
      BY <1>1, <1>4, <1>6, <1>7
    <3> QED  BY <3>1, <3>2 DEF QueueOK
  <2> QED  BY <2>1, <2>2 DEF QueueOK
<1>9. \A s \in Rings \ {r} : queue'[s] = queue[s]
  BY <1>1
<1>10. ASSUME NEW s \in Rings \ {r}
       PROVE  Done(s)' = Done(s) /\ (QueueOK(s) => QueueOK(s)')
  BY <1>2, <1>9 DEF Done, QueueOK
<1> QED  BY <1>2, <1>4, <1>5, <1>7, <1>8, <1>9, <1>10

\* ... and that the buffers of the ring, and of the other, are right after it.
LEMMA RingData ==
  ASSUME IInv, NEW r \in Rings, queue[r] # <<>>, ~faulted, QueueOK(r), BuffersOK(r),
         UNCHANGED <<call, setup, pc, waiting>>,
         queue' = [queue EXCEPT ![r] = Tail(@)],
         \/ Effect(Head(queue[r]), r)
         \/ Waits(r) /\ Head(queue[r]) = "d2h" /\ UNCHANGED <<dev, host>>
  PROVE  /\ BuffersOK(r)'
         /\ \A s \in Rings \ {r} : BuffersOK(s) => BuffersOK(s)'
<1> DEFINE n == Done(r)
<1>1. /\ n \in 0 .. 3 /\ Head(queue[r]) = Ops[n + 1] /\ Done(r)' = n + 1
      /\ \A s \in Rings \ {r} : Done(s)' = Done(s) /\ Waits(s)' = Waits(s)
  BY RingRuns
<1>2. IsCall(call) /\ call.k \in 1 .. MaxDim /\ DeviceOK
  BY HeldInCall
<1>3. /\ n >= 1 => Holds(r, dev[r].a, call.a)
      /\ n >= 2 => Holds(r, dev[r].b, call.b)
      /\ n >= 3 => Correct(r, dev[r].c)
  BY DEF BuffersOK
<1>4. Waits(r)' = Waits(r)
  BY DEF Waits
<1> HIDE DEF n
<1>5. CASE Effect(Head(queue[r]), r)
  <2>1. /\ Holds(r, dev[r].a, call.a)'
        /\ n >= 1 => Holds(r, dev[r].b, call.b)'
        /\ n >= 2 => Correct(r, dev[r].c)'
        /\ n >= 3 => Correct(r, host[r])'
        /\ \A s \in Rings \ {r} : dev'[s] = dev[s] /\ host'[s] = host[s]
    BY <1>1, <1>2, <1>3, <1>5, EffectData
  <2>2. BuffersOK(r)'
    BY <1>1, <2>1 DEF BuffersOK
  <2>3. ASSUME NEW s \in Rings \ {r}, BuffersOK(s) PROVE BuffersOK(s)'
    BY <1>1, <2>1, <2>3 DEF BuffersOK, Holds, Correct, ShaderWraps
  <2> QED  BY <2>2, <2>3
<1>6. CASE Waits(r) /\ Head(queue[r]) = "d2h" /\ UNCHANGED <<dev, host>>
  <2>1. n = 3
    BY <1>1, <1>6 DEF Ops
  <2>2. BuffersOK(r)'
    BY <1>1, <1>3, <1>4, <1>6, <2>1 DEF BuffersOK, Holds, Correct, ShaderWraps
  <2>3. ASSUME NEW s \in Rings \ {r}, BuffersOK(s) PROVE BuffersOK(s)'
    BY <1>1, <1>6, <2>3 DEF BuffersOK, Holds, Correct, ShaderWraps
  <2> QED  BY <2>2, <2>3
<1> QED  BY <1>5, <1>6

\* The phase does not depend on how much of a running call's work is done.
LEMMA QueueShrinks ==
  ASSUME IInv, NEW r \in Rings, queue[r] # <<>>, DeviceOK',
         NEW q \in Seq(OpNames), queue' = [queue EXCEPT ![r] = q],
         UNCHANGED <<setup, request, pc, waiting, answer>>,
         fence' \in BOOLEAN, stuck' \in BOOLEAN, faulted' \in BOOLEAN
  PROVE  Shape' /\ PhaseInv' /\ pc # Idle /\ pc' # Idle
<1>1. /\ pc \in 1 .. 10 /\ pc # Idle /\ queue \in [Rings -> Seq(OpNames)]
      /\ r = 1 => pc # 10
  BY HeldInCall
<1>2. Shape'
  <2>1. queue' \in [Rings -> Seq(OpNames)]
    BY <1>1
  <2> QED  BY <2>1 DEF IInv, Shape, request, answer
<1>3. PhaseInv'
  BY <1>1 DEF IInv, PhaseInv, request, Rings
<1> QED  BY <1>1, <1>2, <1>3

LEMMA StreamRunsIInv ==
  ASSUME IInv, NEW r \in Rings, StreamRuns(r)
  PROVE  IInv'
<1>1. /\ OnStream(r) /\ queue[r] # <<>>
      /\ Effect(Head(queue[r]), r)
      /\ queue' = [queue EXCEPT ![r] = Tail(@)]
      /\ UNCHANGED <<setup, request, pc, vulkan, answer, failure>>
  BY DEF StreamRuns
<1>2. /\ pc # Idle /\ IsCall(call) /\ call.k \in 1 .. MaxDim /\ DeviceOK
      /\ Head(queue[r]) \in OpNames /\ Tail(queue[r]) \in Seq(OpNames)
      /\ queue \in [Rings -> Seq(OpNames)]
  BY <1>1, HeldInCall
<1>3. DeviceOK'
  BY <1>1, <1>2, EffectOK
<1>4. Shape' /\ PhaseInv' /\ pc' # Idle
  <2>1. queue' = [queue EXCEPT ![r] = Tail(queue[r])]
    BY <1>1
  <2>2. /\ UNCHANGED <<setup, request, pc, waiting, answer>>
        /\ fence' \in BOOLEAN /\ stuck' \in BOOLEAN /\ faulted' \in BOOLEAN
    BY <1>1 DEF IInv, Shape, vulkan, failure
  <2> QED  BY <1>1, <1>2, <1>3, <2>1, <2>2, QueueShrinks
<1>5. CASE faulted
  BY <1>1, <1>2, <1>4, <1>5, FailedInCall DEF failure
<1>6. CASE ~faulted
  <2>1. /\ UNCHANGED <<call, setup, pc, waiting>>
        /\ \A s \in Rings : QueueOK(s) /\ BuffersOK(s)
    BY <1>1, <1>2, <1>6 DEF request, vulkan, IInv, QueueInv, DataInv
  <2>2. \A s \in Rings : QueueOK(s)'
    <3>1. QueueOK(r)' /\ \A s \in Rings \ {r} : QueueOK(s) => QueueOK(s)'
      BY <1>1, <1>6, <2>1, RingRuns
    <3> QED  BY <2>1, <3>1
  <2>3. \A s \in Rings : BuffersOK(s)'
    <3>1. BuffersOK(r)' /\ \A s \in Rings \ {r} : BuffersOK(s) => BuffersOK(s)'
      BY <1>1, <1>6, <2>1, RingData
    <3> QED  BY <2>1, <3>1
  <2>4. VulkanOK'
    <3>1. VulkanOK
      BY <1>2, <1>6 DEF IInv, QueueInv
    <3>2. setup = "hetero" => r # 2
      BY <1>1, <1>2 DEF OnStream
    <3> QED  BY <1>1, <1>2, <3>1, <3>2 DEF VulkanOK, vulkan, Rings
  <2>5. QueueInv' /\ DataInv'
    BY <2>2, <2>3, <2>4 DEF QueueInv, DataInv
  <2> QED  BY <1>1, <1>2, <1>4, <2>5, InCall
<1> QED  BY <1>5, <1>6

LEMMA StreamFailsIInv ==
  ASSUME IInv, NEW r \in Rings, StreamFails(r)
  PROVE  IInv'
<1>1. /\ queue[r] # <<>> /\ faulted'
      /\ queue' = [queue EXCEPT ![r] = <<>>]
      /\ UNCHANGED <<setup, request, pc, vulkan, dev, host, answer>>
  BY DEF StreamFails
<1>2. DeviceOK'
  BY <1>1, HeldInCall DEF DeviceOK
<1>3. Shape' /\ PhaseInv' /\ pc # Idle /\ pc' # Idle
  <2>1. <<>> \in Seq(OpNames)
    OBVIOUS
  <2>2. /\ UNCHANGED <<setup, request, pc, waiting, answer>>
        /\ fence' \in BOOLEAN /\ stuck' \in BOOLEAN /\ faulted' \in BOOLEAN
    BY <1>1 DEF IInv, Shape, vulkan, StreamFails
  <2> QED  BY <1>1, <1>2, <2>1, <2>2, QueueShrinks
<1> QED  BY <1>1, <1>3, FailedInCall

-----------------------------------------------------------------------------
(* The Vulkan queue.                                                       *)

\* The host waits for one operation at a time, of ring 2.
LEMMA WaitingHere ==
  ASSUME IInv, waiting
  PROVE  /\ setup = "hetero" /\ pc \in {3, 4, 6, 8} /\ pc # Idle
         /\ Before(2, pc + 1) = Before(2, pc) + 1 /\ Before(2, pc) \in 0 .. 3
         /\ Before(1, pc + 1) = Before(1, pc)
         /\ Here.op = "d2h" <=> pc = 8
BY ProgramSteps DEF IInv, PhaseInv, Idle, Before, Here

LEMMA VulkanSubmitIInv == IInv /\ VulkanSubmit => IInv'
<1> SUFFICES ASSUME IInv, VulkanSubmit PROVE IInv'
  OBVIOUS
<1>1. /\ pc \in 1 .. 8 /\ pc # Idle /\ Here = Program[pc] /\ Here.op \in OpNames
      /\ Here.ring \in Rings /\ ~OnStream(Here.ring) /\ ~waiting
      /\ queue' = [queue EXCEPT ![2] = Append(@, Here.op)]
      /\ waiting' = TRUE /\ fence' = FALSE
      /\ UNCHANGED <<setup, request, pc, stuck, dev, host, answer, failure>>
  BY RunningHere DEF VulkanSubmit
<1>2. Here.ring = 2 /\ setup = "hetero" /\ pc \in {3, 4, 6, 8}
  <2>1. Here.ring = 2 /\ setup # "cuda"
    BY <1>1 DEF OnStream, Rings
  <2>2. setup # "cpu" /\ setup \in {"cpu", "cuda", "hetero"}
    BY <1>1, MatmulAssumption DEF IInv, PhaseInv, Shape
  <2> QED  BY <1>1, <2>1, <2>2, ProgramSteps
<1>3. queue \in [Rings -> Seq(OpNames)]
  BY DEF IInv, Shape
<1>4. queue'[1] = queue[1] /\ queue'[2] = Append(queue[2], Here.op)
  BY <1>1, <1>3 DEF Rings
<1>5. Shape'
  <2>1. DeviceOK'
    BY <1>1 DEF IInv, Shape, DeviceOK
  <2>2. queue' \in [Rings -> Seq(OpNames)]
    <3>1. Append(queue[2], Here.op) \in Seq(OpNames)
      BY <1>1, <1>3 DEF Rings
    <3> QED  BY <1>1, <1>3, <3>1
  <2> QED  BY <1>1, <2>1, <2>2 DEF IInv, Shape, request, answer, failure
<1>6. PhaseInv'
  BY <1>1, <1>2, <1>4 DEF IInv, PhaseInv, request, Idle
<1>7. CASE faulted
  BY <1>1, <1>5, <1>6, <1>7, FailedInCall DEF failure
<1>8. CASE ~faulted
  <2>1. VulkanOK /\ QueueOK(1) /\ BuffersOK(1) /\ BuffersOK(2) /\ QueueOK(2)
    BY <1>1, <1>8 DEF IInv, QueueInv, DataInv, Rings
  <2>2. queue[2] = <<>>
    BY <1>1, <1>2, <2>1 DEF VulkanOK
  <2>3. /\ queue'[2] = <<Here.op>> /\ Len(queue'[2]) = 1 /\ Len(queue[2]) = 0
        /\ queue'[2][1] = Here.op
    BY <1>1, <1>4, <2>2
  <2>4. Before(2, pc) \in 0 .. 3 /\ Here.op = Ops[Before(2, pc) + 1]
    <3>1. 2 \in Rings /\ pc \in 1 .. 10
      BY <1>2 DEF Rings
    <3>2. pc <= 8 /\ Program[pc].ring = 2 /\ Here = Program[pc]
      BY <1>1, <1>2 DEF Here
    <3> QED  BY <3>1, <3>2, BeforeStep, Zenon
  <2>5. /\ Issued(2) = Before(2, pc) /\ Issued(2)' = Before(2, pc) + 1
        /\ Done(2) = Before(2, pc) /\ Done(2)' = Before(2, pc)
    BY <1>1, <2>3, <2>4 DEF Issued, Done, Waits
  <2>6. Issued(1)' = Issued(1) /\ Done(1)' = Done(1)
    BY <1>1, <1>4 DEF Issued, Done, Waits
  <2>7. QueueOK(1)'
    BY <1>4, <2>1, <2>6 DEF QueueOK
  <2>8. QueueOK(2)'
    BY <2>3, <2>4, <2>5 DEF QueueOK
  <2>9. VulkanOK'
    BY <1>1, <2>3 DEF VulkanOK
  <2>10. BuffersOK(1)' /\ BuffersOK(2)'
    BY <1>1, <2>1, <2>4, <2>5, <2>6
       DEF BuffersOK, Holds, Correct, ShaderWraps, Waits, request
  <2>11. QueueInv' /\ DataInv'
    BY <2>7, <2>8, <2>9, <2>10 DEF QueueInv, DataInv, Rings
  <2> QED  BY <1>1, <1>5, <1>6, <2>11, InCall
<1> QED  BY <1>7, <1>8

\* An operation the host no longer waits for is one of a call in which
\* something has failed.
LEMMA VulkanRunsIInv == IInv /\ VulkanRuns => IInv'
<1> SUFFICES ASSUME IInv, VulkanRuns PROVE IInv'
  OBVIOUS
<1> DEFINE o == Head(queue[2])
<1>1. /\ setup = "hetero" /\ queue[2] # <<>> /\ fence' = TRUE
      /\ queue' = [queue EXCEPT ![2] = Tail(@)]
      /\ UNCHANGED <<setup, request, pc, waiting, stuck, answer, failure>>
  BY DEF VulkanRuns
<1>2. \/ LateEffect(o) /\ UNCHANGED host /\ ~(waiting /\ Len(queue[2]) = 1)
      \/ o = "d2h" /\ UNCHANGED <<dev, host>> /\ waiting
      \/ Effect(o, 2) /\ waiting
  BY DEF VulkanRuns
<1>3. /\ pc # Idle /\ IsCall(call) /\ call.k \in 1 .. MaxDim /\ DeviceOK
      /\ o \in OpNames /\ Tail(queue[2]) \in Seq(OpNames)
      /\ queue \in [Rings -> Seq(OpNames)] /\ 2 \in Rings
      /\ Len(Tail(queue[2])) = Len(queue[2]) - 1
  BY <1>1, HeldInCall DEF Rings
<1>4. DeviceOK'
  BY <1>2, <1>3, EffectOK, LateEffectOK DEF DeviceOK
<1>5. Shape' /\ PhaseInv' /\ pc' # Idle
  <2>1. queue' = [queue EXCEPT ![2] = Tail(queue[2])]
    BY <1>1
  <2>2. fence' \in BOOLEAN /\ stuck' \in BOOLEAN /\ faulted' \in BOOLEAN
    BY <1>1 DEF IInv, Shape, failure
  <2> QED  BY <1>1, <1>3, <1>4, <2>1, <2>2, QueueShrinks
<1>6. CASE faulted
  BY <1>1, <1>3, <1>5, <1>6, FailedInCall DEF failure
<1>7. CASE ~faulted
  <2>1. /\ UNCHANGED <<call, setup, pc, waiting>> /\ VulkanOK
        /\ \A s \in Rings : QueueOK(s) /\ BuffersOK(s)
    BY <1>1, <1>3, <1>7 DEF request, IInv, QueueInv, DataInv
  <2>2. waiting /\ Len(queue[2]) = 1
    BY <1>1, <2>1 DEF VulkanOK
  <2>3. \/ Effect(o, 2)
        \/ Waits(2) /\ o = "d2h" /\ UNCHANGED <<dev, host>>
    BY <1>2, <2>2 DEF Waits
  <2>4. \A s \in Rings : QueueOK(s)'
    <3>1. QueueOK(2)' /\ \A s \in Rings \ {2} : QueueOK(s) => QueueOK(s)'
      BY <1>1, <1>3, <1>7, <2>1, RingRuns
    <3> QED  BY <2>1, <3>1
  <2>5. \A s \in Rings : BuffersOK(s)'
    <3>1. BuffersOK(2)' /\ \A s \in Rings \ {2} : BuffersOK(s) => BuffersOK(s)'
      BY <1>1, <1>3, <1>7, <2>1, <2>3, RingData
    <3> QED  BY <2>1, <3>1
  <2>6. queue'[2] = <<>>
    <3>1. queue'[2] = Tail(queue[2])
      BY <1>1, <1>3
    <3>2. Len(Tail(queue[2])) = 0
      BY <1>3, <2>2
    <3>3. \A q \in Seq(OpNames) : Len(q) = 0 => q = <<>>
      OBVIOUS
    <3> QED  BY <1>3, <3>1, <3>2, <3>3, Zenon
  <2>7. VulkanOK'
    BY <1>1, <2>6 DEF VulkanOK
  <2>8. QueueInv' /\ DataInv'
    BY <2>4, <2>5, <2>7 DEF QueueInv, DataInv
  <2> QED  BY <1>1, <1>3, <1>5, <2>8, InCall
<1> QED  BY <1>6, <1>7

LEMMA VulkanReturnsIInv == IInv /\ VulkanReturns => IInv'
<1> SUFFICES ASSUME IInv, VulkanReturns PROVE IInv'
  OBVIOUS
<1>1. /\ waiting /\ fence /\ waiting' = FALSE
      /\ host' = IF Here.op = "d2h" THEN [host EXCEPT ![2] = dev[2].c] ELSE host
      /\ pc' = pc + 1
      /\ UNCHANGED <<setup, request, queue, fence, stuck, dev, answer, failure>>
  BY DEF VulkanReturns
<1>2. /\ setup = "hetero" /\ pc \in {3, 4, 6, 8} /\ pc # Idle /\ pc' # Idle
      /\ Before(2, pc + 1) = Before(2, pc) + 1 /\ Before(2, pc) \in 0 .. 3
      /\ Before(1, pc + 1) = Before(1, pc)
      /\ Here.op = "d2h" <=> pc = 8
  BY <1>1, WaitingHere DEF Idle
<1>3. DeviceOK /\ DeviceOK'
  <2>1. DeviceOK
    BY DEF IInv, Shape
  <2> QED  BY <1>1, <2>1, CellsAreInts DEF DeviceOK, Rings
<1>4. Shape'
  <2>1. pc' \in 0 .. 11
    BY <1>1, <1>2
  <2> QED  BY <1>1, <1>3, <2>1 DEF IInv, Shape, request, answer, failure
<1>5. PhaseInv'
  BY <1>1, <1>2 DEF IInv, PhaseInv, request, Idle
<1>6. CASE faulted
  BY <1>1, <1>2, <1>4, <1>5, <1>6, FailedInCall DEF failure
<1>7. CASE ~faulted
  <2>1. VulkanOK /\ QueueOK(1) /\ BuffersOK(1) /\ BuffersOK(2) /\ QueueOK(2)
    BY <1>2, <1>7 DEF IInv, QueueInv, DataInv, Rings
  <2>2. queue[2] = <<>> /\ Len(queue[2]) = 0
    BY <1>1, <1>2, <2>1 DEF VulkanOK
  <2>3. /\ Issued(1)' = Issued(1) /\ Issued(2)' = Issued(2)
        /\ Done(1)' = Done(1) /\ Done(2)' = Done(2) /\ Done(2) = Before(2, pc) + 1
    BY <1>1, <1>2, <2>2 DEF Issued, Done, Waits
  <2>4. QueueOK(1)' /\ QueueOK(2)'
    BY <1>1, <2>1, <2>3 DEF QueueOK
  <2>5. VulkanOK'
    BY <1>1, <2>2 DEF VulkanOK
  <2>6. ShaderWraps(call)' = ShaderWraps(call) /\ call' = call
    BY <1>1 DEF ShaderWraps, request
  <2>7. BuffersOK(1)'
    <3>1. host'[1] = host[1]
      BY <1>1, <1>3 DEF DeviceOK, Rings
    <3> QED  BY <1>1, <2>1, <2>3, <2>6, <3>1 DEF BuffersOK, Holds, Correct, Waits
  <2>8. BuffersOK(2)'
    <3>1. CASE pc = 8
      <4>1. host'[2] = dev[2].c
        BY <1>1, <1>2, <1>3, <3>1 DEF DeviceOK, Rings
      <4>2. Done(2) = 4
        BY <2>3, <3>1 DEF Before
      <4> QED  BY <1>1, <2>1, <2>3, <2>6, <4>1, <4>2 DEF BuffersOK, Holds, Correct, Waits
    <3>2. CASE pc \in {3, 4, 6}
      <4>1. Done(2) \in 0 .. 3
        BY <2>3, <3>2 DEF Before
      <4> QED  BY <1>1, <2>1, <2>3, <2>6, <4>1 DEF BuffersOK, Holds, Correct, Waits
    <3> QED  BY <1>2, <3>1, <3>2
  <2>9. QueueInv' /\ DataInv'
    BY <2>4, <2>5, <2>7, <2>8 DEF QueueInv, DataInv, Rings
  <2> QED  BY <1>1, <1>2, <1>4, <1>5, <2>9, InCall
<1> QED  BY <1>6, <1>7

LEMMA VulkanHangsIInv == IInv /\ VulkanHangs => IInv'
<1> SUFFICES ASSUME IInv, VulkanHangs PROVE IInv'
  OBVIOUS
<1>1. /\ queue[2] # <<>> /\ stuck' = TRUE
      /\ UNCHANGED <<setup, request, pc, queue, waiting, fence, dev, host, answer, faulted>>
  BY DEF VulkanHangs
<1>2. pc # Idle /\ pc' # Idle
  BY <1>1, HeldInCall DEF Rings
<1>3. Shape'
  <2>1. DeviceOK'
    BY <1>1 DEF IInv, Shape, DeviceOK
  <2> QED  BY <1>1, <2>1 DEF IInv, Shape, request, answer
<1>4. PhaseInv'
  BY <1>1 DEF IInv, PhaseInv, request
<1>5. QueueInv' /\ DataInv'
  <2>1. \A r \in Rings : Issued(r)' = Issued(r) /\ Done(r)' = Done(r) /\ Waits(r)' = Waits(r)
    BY <1>1 DEF Issued, Done, Waits
  <2>2. QueueInv'
    BY <1>1, <2>1 DEF IInv, QueueInv, QueueOK, VulkanOK
  <2>3. DataInv'
    BY <1>1, <2>1 DEF IInv, DataInv, BuffersOK, Holds, Correct, ShaderWraps, request
  <2> QED  BY <2>2, <2>3
<1> QED  BY <1>1, <1>2, <1>3, <1>4, <1>5, InCall

LEMMA VulkanTimesOutIInv == IInv /\ VulkanTimesOut => IInv'
<1> SUFFICES ASSUME IInv, VulkanTimesOut PROVE IInv'
  OBVIOUS
<1>1. /\ waiting /\ faulted' = TRUE /\ waiting' = FALSE /\ pc' = pc + 1
      /\ UNCHANGED <<setup, request, queue, fence, stuck, dev, host, answer>>
  BY DEF VulkanTimesOut, Expires
<1>2. pc \in {3, 4, 6, 8} /\ pc # Idle /\ pc' # Idle /\ setup = "hetero"
  BY <1>1, WaitingHere DEF Idle
<1>3. Shape'
  <2>1. DeviceOK'
    BY <1>1 DEF IInv, Shape, DeviceOK
  <2>2. pc' \in 0 .. 11
    BY <1>1, <1>2
  <2> QED  BY <1>1, <2>1, <2>2 DEF IInv, Shape, request, answer
<1>4. PhaseInv'
  BY <1>1, <1>2 DEF IInv, PhaseInv, request, Idle
<1> QED  BY <1>1, <1>2, <1>3, <1>4, FailedInCall

-----------------------------------------------------------------------------
(* The end of a call.                                                      *)

LEMMA SyncIInv == IInv /\ Sync => IInv'
<1> SUFFICES ASSUME IInv, Sync PROVE IInv'
  OBVIOUS
<1>1. /\ pc \in 9 .. 10 /\ pc # Idle /\ Here = Program[pc] /\ queue[Here.ring] = <<>>
      /\ pc' = pc + 1 /\ pc' # Idle
      /\ UNCHANGED <<setup, request, devices, answer, failure>>
  BY RunningHere DEF Sync, Drained, Idle
<1>2. Here.ring = pc - 8 /\ ~waiting
  BY <1>1, ProgramSteps DEF IInv, PhaseInv
<1>3. Shape'
  <2>1. DeviceOK'
    BY <1>1 DEF IInv, Shape, DeviceOK, devices
  <2>2. pc' \in 0 .. 11
    BY <1>1
  <2> QED  BY <1>1, <2>1, <2>2
           DEF IInv, Shape, request, devices, vulkan, answer, failure
<1>4. PhaseInv'
  <2>1. pc = 9 => queue[1] = <<>>
    BY <1>1, <1>2
  <2>2. pc = 10 => queue[1] = <<>> /\ queue[2] = <<>>
    BY <1>1, <1>2 DEF IInv, PhaseInv
  <2> QED  BY <1>1, <1>2, <2>1, <2>2
           DEF IInv, PhaseInv, request, devices, vulkan, Idle
<1>5. \A r \in Rings : Issued(r)' = Issued(r) /\ Done(r)' = Done(r) /\ Waits(r)' = Waits(r)
  <2>1. \A r \in Rings : Before(r, pc + 1) = Before(r, pc)
    BY <1>1, BeforeStep
  <2> QED  BY <1>1, <2>1 DEF Issued, Done, Waits, devices, vulkan
<1>6. QueueInv'
  BY <1>1, <1>5 DEF IInv, QueueInv, QueueOK, VulkanOK, devices, vulkan, failure
<1>7. DataInv'
  BY <1>1, <1>5 DEF IInv, DataInv, BuffersOK, Holds, Correct, ShaderWraps,
                    request, devices, failure
<1> QED  BY <1>1, <1>3, <1>4, <1>6, <1>7, InCall

\* The host joins residues that are those of the sum, unless the premises of
\* ProductExact fail.
LEMMA JoinIInv == IInv /\ Join => IInv'
<1> SUFFICES ASSUME IInv, Join PROVE IInv'
  OBVIOUS
<1>1. /\ pc = 11 /\ out' = Joined(host) /\ result' = "ok" /\ pc' = Idle
      /\ UNCHANGED <<setup, request, devices, failure>>
  BY ProgramSteps DEF Join
<1>2. pc # Idle
  BY <1>1 DEF Idle
<1>3. /\ queue[1] = <<>> /\ queue[2] = <<>> /\ ~waiting
      /\ IsCall(call)
  BY <1>1 DEF IInv, PhaseInv, Shape
<1>4. Shape'
  <2>1. DeviceOK'
    BY <1>1 DEF IInv, Shape, DeviceOK, devices
  <2>2. pc' \in 0 .. 11
    BY <1>1 DEF Idle
  <2> QED  BY <1>1, <2>1, <2>2 DEF IInv, Shape, request, devices, vulkan, failure
<1>5. PhaseInv'
  BY <1>1, <1>3 DEF IInv, PhaseInv, request, devices, vulkan
<1>6. ProductExact' /\ ResultInv'
  <2> SUFFICES ASSUME ~faulted
               PROVE  /\ \A r \in Rings : host[r] \in Residues(r)
                      /\ ~ShaderWraps(call) =>
                           /\ Joined(host) = Wrapped(Exact(call))
                           /\ Limited(call) => Joined(host) = Exact(call)
    BY <1>1 DEF ProductExact, ResultInv, ShaderWraps, request, devices, failure
  <2>1. \A r \in Rings : BuffersOK(r) /\ Done(r) = 4 /\ ~Waits(r)
    BY <1>1, <1>2, <1>3 DEF IInv, DataInv, Done, Issued, Before, Waits, Rings
  <2>2. \A r \in Rings : Correct(r, host[r])
    BY <2>1 DEF BuffersOK
  <2>3. host[1] \in Residues(1) /\ host[2] \in Residues(2)
    BY <2>2 DEF Correct, Rings
  <2>4. ~ShaderWraps(call) =>
          host[1] = Exact(call) % M1 /\ host[2] = Exact(call) % M2
    BY <2>2 DEF Correct, Rings, Modulus
  <2> QED  BY <1>3, <2>3, <2>4, JoinedIsWrapped DEF Rings
<1> QED  BY <1>1, <1>4, <1>5, <1>6 DEF IInv, QueueInv, DataInv

LEMMA StutterIInv == IInv /\ UNCHANGED vars => IInv'
<1> SUFFICES ASSUME IInv, UNCHANGED vars PROVE IInv'
  OBVIOUS
<1> USE DEF vars, request, devices, vulkan, answer, failure
<1>1. Shape'
  BY DEF IInv, Shape, DeviceOK
<1>2. PhaseInv' /\ ResultInv' /\ ProductExact'
  BY DEF IInv, PhaseInv, ResultInv, ProductExact, ShaderWraps
<1>3. QueueInv' /\ DataInv'
  BY DEF IInv, QueueInv, DataInv, QueueOK, VulkanOK, BuffersOK, Issued, Done, Waits,
         Holds, Correct, ShaderWraps
<1> QED  BY <1>1, <1>2, <1>3 DEF IInv

LEMMA NextIInv == IInv /\ [Next]_vars => IInv'
BY TooLargeIInv, NoMemoryIInv, ComputeOnHostIInv, StartIInv, EnqueueIInv, RefusedIInv,
   StreamRunsIInv, StreamFailsIInv, VulkanSubmitIInv, VulkanRunsIInv, VulkanReturnsIInv,
   VulkanHangsIInv, VulkanTimesOutIInv, SyncIInv, JoinIInv, StutterIInv DEF Next

\* What is in the buffers of a ring is of that ring or was never written, and
\* the words a result is joined from were written if no operation failed.
THEOREM TypeOKHolds == Spec => []TypeOK
BY InitIInv, NextIInv, ShapeGivesTypeOK, PTL DEF Spec, IInv

\* A call that returns a result, and none of whose operations failed or wrapped
\* in the shader, returns the product, or, if its operands are past the limits
\* of a calibration for it, the number of the signed range congruent to it.
THEOREM ProductExactHolds == Spec => []ProductExact
BY InitIInv, NextIInv, PTL DEF Spec, IInv

-----------------------------------------------------------------------------
(* How long a call takes.                                                  *)

Queued(r) == Len(queue[r])

\* The steps that the host and the two devices can still take for a call.
StepsLeft ==
  3 * (12 - pc) + Queued(1) + Queued(2)
  + (IF waiting THEN 0 ELSE 2) + (IF stuck THEN 0 ELSE 1)

LEMMA Lengths ==
  ASSUME Shape
  PROVE  /\ pc \in 0 .. 11
         /\ Queued(1) \in Nat /\ Queued(2) \in Nat
<1>1. queue[1] \in Seq(OpNames) /\ queue[2] \in Seq(OpNames)
  BY DEF Shape, Rings
<1> QED  BY <1>1 DEF Shape, Queued

\* A step of a running call ends it or brings its end nearer.
LEMMA StepAdvances ==
  ASSUME IInv, pc # Idle, Next
  PROVE  pc' = Idle \/ StepsLeft' < StepsLeft
<1>1. /\ pc \in 0 .. 11
      /\ Queued(1) \in Nat /\ Queued(2) \in Nat
  BY Lengths DEF IInv
<1>2. queue \in [Rings -> Seq(OpNames)] /\ waiting \in BOOLEAN /\ stuck \in BOOLEAN
  BY DEF IInv, Shape
<1>3. waiting' \in BOOLEAN /\ stuck' \in BOOLEAN
  BY NextIInv DEF IInv, Shape
<1> DEFINE W == IF waiting THEN 0 ELSE 2
           S == IF stuck THEN 0 ELSE 1
<1>4. /\ W \in 0 .. 2 /\ W' \in 0 .. 2 /\ S \in 0 .. 1 /\ S' \in 0 .. 1
      /\ (waiting' = waiting => W' = W) /\ (stuck' = stuck => S' = S)
      /\ (~waiting /\ waiting' => W = 2 /\ W' = 0)
      /\ (waiting /\ ~waiting' => W = 0 /\ W' = 2)
      /\ (~stuck /\ stuck' => S = 1 /\ S' = 0)
  BY <1>2, <1>3
<1>0. /\ StepsLeft = 3 * (12 - pc) + Queued(1) + Queued(2) + W + S
      /\ StepsLeft' = 3 * (12 - pc') + Queued(1)' + Queued(2)' + W' + S'
  BY DEF StepsLeft
<1> HIDE DEF W, S
<1>5. Running => Here.op \in {"a", "b", "mul", "d2h", "sync"} /\ Here.ring \in Rings
  BY ProgramSteps DEF Running, Here, Rings
<1>6. \A s \in Seq(OpNames) :
        s # <<>> => Len(s) >= 1 /\ Len(Tail(s)) = Len(s) - 1 /\ Tail(s) \in Seq(OpNames)
  OBVIOUS
<1>7. \A s \in Seq(OpNames), o \in OpNames : Len(Append(s, o)) = Len(s) + 1
  OBVIOUS
<1>8. CASE TooLarge \/ NoMemory \/ ComputeOnHost \/ StartNative \/ StartGgml \/ StartExpert
  BY <1>8 DEF TooLarge, NoMemory, ComputeOnHost, StartNative, StartGgml, StartExpert, Launch, NewCall
<1>9. CASE Enqueue
  <2>1. /\ Here.op \in OpNames /\ Here.ring \in Rings
        /\ queue' = [queue EXCEPT ![Here.ring] = Append(@, Here.op)]
        /\ pc' = pc + 1 /\ waiting' = waiting /\ stuck' = stuck
    BY <1>5, <1>9 DEF Enqueue, OpNames, vulkan
  <2>2. \/ Queued(1)' = Queued(1) + 1 /\ Queued(2)' = Queued(2)
        \/ Queued(2)' = Queued(2) + 1 /\ Queued(1)' = Queued(1)
    <3>1. CASE Here.ring = 1
      BY <1>2, <1>7, <2>1, <3>1 DEF Queued, Rings
    <3>2. CASE Here.ring = 2
      BY <1>2, <1>7, <2>1, <3>2 DEF Queued, Rings
    <3> QED  BY <2>1, <3>1, <3>2 DEF Rings
  <2>3. pc' = pc + 1 /\ UNCHANGED <<waiting, stuck>>
    BY <2>1
  <2>4. Queued(1)' \in Int /\ Queued(2)' \in Int
    BY <1>1, <2>2
  <2> QED  BY <1>0, <1>1, <1>4, <2>2, <2>3, <2>4
<1>10. CASE Refused \/ Sync
  <2>1. pc' = pc + 1 /\ UNCHANGED <<queue, waiting, stuck>>
    BY <1>10 DEF Refused, Sync, devices, vulkan
  <2>2. Queued(1)' = Queued(1) /\ Queued(2)' = Queued(2)
    BY <2>1 DEF Queued
  <2> QED  BY <1>0, <1>1, <1>4, <2>1, <2>2
<1>11. CASE VulkanSubmit
  <2>1. /\ Here.op \in OpNames /\ ~waiting
        /\ queue' = [queue EXCEPT ![2] = Append(@, Here.op)]
        /\ waiting' /\ pc' = pc /\ stuck' = stuck
    BY <1>5, <1>11 DEF VulkanSubmit, OpNames
  <2>2. Queued(1)' = Queued(1) /\ Queued(2)' = Queued(2) + 1
    BY <1>2, <1>7, <2>1 DEF Queued, Rings
  <2>3. waiting' /\ ~waiting /\ UNCHANGED <<pc, stuck>>
    BY <2>1
  <2> QED  BY <1>0, <1>1, <1>4, <2>2, <2>3
<1>12. CASE VulkanReturns \/ VulkanTimesOut
  <2>1. waiting /\ waiting' = FALSE /\ pc' = pc + 1 /\ UNCHANGED <<queue, stuck>>
    BY <1>12 DEF VulkanReturns, VulkanTimesOut, Expires
  <2>2. Queued(1)' = Queued(1) /\ Queued(2)' = Queued(2)
    BY <2>1 DEF Queued
  <2> QED  BY <1>0, <1>1, <1>4, <2>1, <2>2
<1>13. CASE VulkanHangs
  <2>1. ~stuck /\ stuck' /\ UNCHANGED <<pc, queue, waiting>>
    BY <1>13 DEF VulkanHangs
  <2>2. Queued(1)' = Queued(1) /\ Queued(2)' = Queued(2)
    BY <2>1 DEF Queued
  <2> QED  BY <1>0, <1>1, <1>4, <2>1, <2>2
<1>14. CASE VulkanRuns \/ \E r \in Rings : StreamRuns(r)
  <2>1. PICK r \in Rings : /\ queue[r] # <<>> /\ queue' = [queue EXCEPT ![r] = Tail(@)]
                           /\ UNCHANGED <<pc, waiting, stuck>>
    BY <1>14 DEF VulkanRuns, StreamRuns, vulkan, Rings
  <2>2. Len(queue'[r]) = Len(queue[r]) - 1
    BY <1>2, <1>6, <2>1
  <2>3. \A s \in Rings : s # r => queue'[s] = queue[s]
    BY <1>2, <2>1
  <2>4. \/ Queued(1)' = Queued(1) - 1 /\ Queued(2)' = Queued(2)
        \/ Queued(2)' = Queued(2) - 1 /\ Queued(1)' = Queued(1)
    BY <2>2, <2>3 DEF Queued, Rings
  <2>5. UNCHANGED <<pc, waiting, stuck>>
    BY <2>1
  <2>6. Queued(1)' \in Int /\ Queued(2)' \in Int
    BY <1>1, <2>4
  <2> QED  BY <1>0, <1>1, <1>4, <2>4, <2>5, <2>6
<1>15. CASE \E r \in Rings : StreamFails(r)
  <2>1. PICK r \in Rings : /\ queue[r] # <<>> /\ queue' = [queue EXCEPT ![r] = <<>>]
                           /\ UNCHANGED <<pc, waiting, stuck>>
    BY <1>15 DEF StreamFails, vulkan
  <2>2. Len(queue[r]) >= 1 /\ Len(queue'[r]) = 0
    BY <1>2, <1>6, <2>1
  <2>3. \A s \in Rings : s # r => queue'[s] = queue[s]
    BY <1>2, <2>1
  <2>4. \/ Queued(1)' = 0 /\ Queued(1) >= 1 /\ Queued(2)' = Queued(2)
        \/ Queued(2)' = 0 /\ Queued(2) >= 1 /\ Queued(1)' = Queued(1)
    BY <2>2, <2>3 DEF Queued, Rings
  <2>5. UNCHANGED <<pc, waiting, stuck>>
    BY <2>1
  <2>6. /\ Queued(1)' \in Nat /\ Queued(2)' \in Nat
        /\ Queued(1)' + Queued(2)' < Queued(1) + Queued(2)
    BY <1>1, <2>4
  <2> QED  BY <1>0, <1>1, <1>4, <2>5, <2>6
<1>16. CASE Join
  BY <1>16 DEF Join
<1> QED
  BY <1>8, <1>9, <1>10, <1>11, <1>12, <1>13, <1>14, <1>15, <1>16 DEF Next

FewLeft == pc # Idle => StepsLeft \in 1 .. 36

LEMMA FewLeftStep == IInv /\ IInv' /\ FewLeft /\ [Next]_vars => FewLeft'
<1> SUFFICES ASSUME IInv, IInv', FewLeft, [Next]_vars, pc' # Idle
             PROVE  StepsLeft' \in 1 .. 36
  BY DEF FewLeft
<1>1. /\ pc' \in 0 .. 11 /\ waiting' \in BOOLEAN /\ stuck' \in BOOLEAN
      /\ Queued(1)' \in Nat /\ Queued(2)' \in Nat
  <2>1. Shape'
    BY DEF IInv
  <2>2. queue'[1] \in Seq(OpNames) /\ queue'[2] \in Seq(OpNames)
    BY <2>1 DEF Shape, Rings
  <2> QED  BY <2>1, <2>2 DEF Shape, Queued
<1>2. StepsLeft' \in Int /\ StepsLeft' >= 1
  <2> DEFINE W == IF waiting' THEN 0 ELSE 2
             S == IF stuck' THEN 0 ELSE 1
  <2>1. W \in 0 .. 2 /\ S \in 0 .. 1
    BY <1>1
  <2>2. StepsLeft' = 3 * (12 - pc') + Queued(1)' + Queued(2)' + W + S
    BY DEF StepsLeft
  <2> HIDE DEF W, S
  <2> QED  BY <1>1, <2>1, <2>2
<1>3. StepsLeft' <= 36
  <2>1. CASE UNCHANGED vars
    <3>1. UNCHANGED <<pc, queue, waiting, stuck>>
      BY <2>1 DEF vars, devices, vulkan
    <3>2. StepsLeft' = StepsLeft /\ pc' = pc
      BY <3>1, Zenon DEF StepsLeft, Queued
    <3> QED  BY <3>2 DEF FewLeft
  <2>2. CASE Next /\ pc # Idle
    BY <1>2, <2>2, StepAdvances DEF FewLeft
  <2>3. CASE Next /\ pc = Idle
    <3>1. queue[1] = <<>> /\ queue[2] = <<>>
      BY <2>3 DEF IInv, PhaseInv
    <3>2. ~Running /\ ~waiting /\ pc # Len(Program) + 1
      BY <2>3, ProgramSteps DEF IInv, PhaseInv, Running, Idle
    <3>3. /\ ~Enqueue /\ ~Refused /\ ~VulkanSubmit /\ ~Sync /\ ~Join
          /\ ~VulkanReturns /\ ~VulkanTimesOut
      BY <3>2 DEF Enqueue, Refused, VulkanSubmit, Sync, Join, VulkanReturns,
                  VulkanTimesOut, Expires
    <3>4. pc' # pc
      BY <2>3
    <3>5. ~TooLarge /\ ~NoMemory /\ ~ComputeOnHost
      BY <3>4 DEF TooLarge, NoMemory, ComputeOnHost
    <3>6. ~VulkanRuns /\ ~VulkanHangs /\ \A r \in Rings : ~StreamRuns(r) /\ ~StreamFails(r)
      BY <3>4 DEF VulkanRuns, VulkanHangs, StreamRuns, StreamFails
    <3>7. StartNative \/ StartGgml \/ StartExpert
      BY <2>3, <3>3, <3>5, <3>6 DEF Next
    <3>8. pc' = 1 /\ UNCHANGED <<queue, vulkan>>
      BY <3>7 DEF StartNative, StartGgml, StartExpert, Launch, devices
    <3> DEFINE W == IF waiting' THEN 0 ELSE 2
               S == IF stuck' THEN 0 ELSE 1
    <3>9. W \in 0 .. 2 /\ S \in 0 .. 1
      BY <1>1
    <3>10. StepsLeft' = 3 * (12 - pc') + Queued(1)' + Queued(2)' + W + S
      BY DEF StepsLeft
    <3>11. Queued(1)' = 0 /\ Queued(2)' = 0
      BY <3>1, <3>8 DEF Queued
    <3> HIDE DEF W, S
    <3> QED  BY <3>8, <3>9, <3>10, <3>11
  <2> QED  BY <2>1, <2>2, <2>3
<1> QED  BY <1>2, <1>3

\* Whatever is refused, fails, is late or hangs, a call of sp_crt_matmul_gpu is
\* at most 36 steps of the host and its two devices away from its return: each
\* of them brings it nearer.
THEOREM CallsAreShort ==
  Spec => /\ [](pc # Idle => StepsLeft \in 1 .. 36)
          /\ [][pc # Idle => pc' = Idle \/ StepsLeft' < StepsLeft]_vars
<1>1. Init => FewLeft
  BY DEF Init, FewLeft
<1>2. IInv /\ [Next]_vars => [pc # Idle => pc' = Idle \/ StepsLeft' < StepsLeft]_vars
  BY StepAdvances
<1> QED
  BY <1>1, <1>2, FewLeftStep, InitIInv, NextIInv, PTL DEF Spec, FewLeft
=============================================================================
