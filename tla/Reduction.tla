------------------------------ MODULE Reduction ------------------------------
(***************************************************************************)
(* Barrett and Montgomery reduction modulo q, each in a version for        *)
(* q < Half and one for the larger q up to half a word                     *)
(* (src/adapters/scalar/redc/barrett.c and montgomery.c).                  *)
(***************************************************************************)
EXTENDS WideInt

\* Faulty variant: no subtraction.
Never(r, q) == r

\* The one subtraction that ends every reduction
Once(r, q) == IF r >= q THEN r - q ELSE r

\* ntt_scalar_barrett_mu_u64: floor(Base / q)
BarrettMu(q) ==
  LET quotient == (Base - 1) \div q
  IN  quotient + Bit((Base - 1) % q = q - 1)

BarrettReduce(x, q, mu, portable) ==
  Once(WrapMinus(x, Wrap(MulHi(x, mu, portable) * q)), q)

\* Long division of r * Base by q, one bit at a time.  The code's first loop, over
\* the bits of r, is left out: as r < q it never subtracts and ends with r.
LongDivision(r, q) ==
  LET rest[k \in Nat] == IF k = 0 THEN r ELSE Once(Wrap(2 * rest[k - 1]), q)
      quotient[k \in Nat] ==
        IF k = 0 THEN 0 ELSE 2 * quotient[k - 1] + Bit(Wrap(2 * rest[k - 1]) >= q)
  IN  quotient[WordBits]

\* Faulty variant: the low word of the reciprocal is left at zero.
BarrettMuHighOnly(q, portable) ==
  <<(Base - 1) \div q + Bit((Base - 1) % q = q - 1), 0>>

\* ntt_scalar_barrett_mu_u128: floor(Base^2 / q)
BarrettMuWide(q, portable) ==
  LET w == (Base - 1) \div q + Bit((Base - 1) % q = q - 1)
      r == WrapMinus(0, Wrap(w * q))
  IN  <<w, IF portable THEN LongDivision(r, q) ELSE Wrap((r * Base) \div q)>>

\* barrett_reduce_u128: only the low word of the remainder is looked at.
BarrettReduceWide(x, q, mu, portable) ==
  LET q3 == MulHi128(x, mu, portable)
  IN  Once(WrapMinus(x[2], Wrap(q3[2] * q)), q)

\* ntt_scalar_mont_qinv: -1/q modulo the radix, by Newton's iteration
Newton(q, radix, steps) ==
  LET x[k \in Nat] ==
        IF k = 0 THEN q % radix
        ELSE (x[k - 1] * ((2 + radix - ((q * x[k - 1]) % radix)) % radix)) % radix
  IN  (radix - x[steps]) % radix

MontQInv(q, q32) == IF q32 THEN Newton(q, Half, 5) ELSE Newton(q, Base, 6)

\* ntt_scalar_mont_r2: the square of the radix modulo q, by doubling
MontR2(q, q32) ==
  LET r2[k \in Nat] == IF k = 0 THEN 1 ELSE Once(Wrap(2 * r2[k - 1]), q)
  IN  r2[IF q32 THEN WordBits ELSE 2 * WordBits]

\* Faulty variant: the sum of t and m * q is taken without its carry.
MontReduceHalfNoCarry(t, q, qinv) ==
  LET m == ((t % Half) * qinv) % Half
  IN  Once(Wrap(t + m * q) \div Half, q)

\* mont_reduce_32
MontReduceHalf(t, q, qinv) ==
  LET m   == ((t % Half) * qinv) % Half
      sum == Wrap(t + m * q)
  IN  Once(sum \div Half + Bit(sum < t) * Half, q) % Half

\* mont_reduce_64
MontReduceWide(t, q, qinv, portable) ==
  LET m  == Wrap(t[2] * qinv)
      mq == MulWide(m, q, portable)
      lo == Wrap(t[2] + mq[2])
  IN  Once(Wrap(t[1] + mq[1] + Bit(lo < mq[2])), q)

=============================================================================
