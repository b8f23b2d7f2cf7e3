------------------------------- MODULE WideInt -------------------------------
(***************************************************************************)
(* Words and products of words (src/adapters/scalar/redc/wide_int.h).  A   *)
(* word has WordBits bits, 64 in the code, and its halves have half of     *)
(* them.  portable says that the build has no 128-bit integers.            *)
(***************************************************************************)
EXTENDS Naturals

CONSTANT WordBits

ASSUME WordAssumption == WordBits \in Nat /\ WordBits > 0 /\ WordBits % 2 = 0

Base == 2^WordBits
Half == 2^(WordBits \div 2)

Word == 0 .. Base - 1

Wrap(k) == k % Base
WrapMinus(a, b) == (a + Base - b) % Base

Bit(cond) == IF cond THEN 1 ELSE 0

\* scalar_mulhi_u64
MulHi(a, b, portable) ==
  IF ~portable THEN (a * b) \div Base
  ELSE LET p0 == (a % Half) * (b % Half)
           p1 == (a % Half) * (b \div Half)
           p2 == (a \div Half) * (b % Half)
           p3 == (a \div Half) * (b \div Half)
           middle == p0 \div Half + (p1 % Half) + (p2 % Half)
       IN  Wrap(p3 + p1 \div Half + p2 \div Half + middle \div Half)

\* scalar_mulwide_u64: high and low word
MulWide(a, b, portable) == <<MulHi(a, b, portable), Wrap(a * b)>>

\* scalar_mulhi128_u64: the upper half of the product of two double words
MulHi128(a, b, portable) ==
  LET c0 == MulHi(a[2], b[2], portable)
      d21 == MulWide(a[2], b[1], portable)
      d43 == MulWide(a[1], b[2], portable)
      d65 == MulWide(a[1], b[1], portable)
      s1 == Wrap(c0 + d21[2])
      s2 == Wrap(s1 + d43[2])
      carry1 == Bit(s1 < c0) + Bit(s2 < s1)
      m  == Wrap(d21[1] + d43[1])
      m2 == Wrap(m + d65[2])
      m3 == Wrap(m2 + carry1)
      carry2 == Bit(m < d21[1]) + Bit(m2 < m) + Bit(m3 < m2)
  IN  <<Wrap(d65[1] + carry2), m3>>

=============================================================================
