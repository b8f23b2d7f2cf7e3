----------------------------- MODULE ScalarArith -----------------------------
(***************************************************************************)
(* The arithmetic of the scalar adapter (src/adapters/scalar/ntt_arith.c)  *)
(* on the constants that its setup computes: the arithmetic part s of a    *)
(* ntt_scalar_state selects the reduction and the width.                   *)
(***************************************************************************)
EXTENDS Reduction

\* The constants as ntt__scalar_adapter_setup computes them
ScalarState(q, reduction, portable) ==
  LET q32 == q < Half
  IN  [q |-> q, arith |-> reduction, portable |-> portable, q32 |-> q32,
       mu     |-> IF reduction = "barrett" /\ q32 THEN BarrettMu(q) ELSE 0,
       muWide |-> IF reduction = "barrett" /\ ~q32 THEN BarrettMuWide(q, portable) ELSE <<0, 0>>,
       qinv   |-> IF reduction = "montgomery" THEN MontQInv(q, q32) ELSE 0,
       r2     |-> IF reduction = "montgomery" THEN MontR2(q, q32) ELSE 0]

Montgomery(s) == s.arith = "montgomery"

\* ntt_scalar_mont_mul
MontMul(s, a, b) ==
  IF s.q32
    THEN MontReduceHalf(Wrap((a % Half) * (b % Half)), s.q, s.qinv)
    ELSE MontReduceWide(MulWide(a, b, s.portable), s.q, s.qinv, s.portable)

\* ntt_scalar_mont_encode
MontEncode(s, a) == MontMul(s, a, s.r2)

\* ntt_scalar_mont_decode
MontDecode(s, a) ==
  IF s.q32 THEN MontReduceHalf(a, s.q, s.qinv)
           ELSE MontReduceWide(<<0, a>>, s.q, s.qinv, s.portable)

ScalarAdd(s, a, b) == Once(Wrap(a + b), s.q)

ScalarSub(s, a, b) == IF a >= b THEN a - b ELSE Wrap(a + s.q) - b

\* scalar_reduce
ScalarReduce(s, a) ==
  CASE Montgomery(s) -> MontDecode(s, MontEncode(s, a))
    [] ~Montgomery(s) /\ s.q32 -> BarrettReduce(a, s.q, s.mu, s.portable)
    [] OTHER -> BarrettReduceWide(<<0, a>>, s.q, s.muWide, s.portable)

\* scalar_mul
ScalarMul(s, a, b) ==
  CASE Montgomery(s) -> MontMul(s, a, b)
    [] ~Montgomery(s) /\ s.q32 -> BarrettReduce(Wrap(a * b), s.q, s.mu, s.portable)
    [] OTHER -> BarrettReduceWide(MulWide(a, b, s.portable), s.q, s.muWide, s.portable)

\* scalar_encode
ScalarEncode(s, a) == IF Montgomery(s) THEN MontEncode(s, a) ELSE ScalarReduce(s, a)

\* scalar_decode
ScalarDecode(s, a) == IF Montgomery(s) THEN MontDecode(s, a) ELSE ScalarReduce(s, a)

=============================================================================
