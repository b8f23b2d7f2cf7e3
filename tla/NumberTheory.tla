----------------------------- MODULE NumberTheory -----------------------------
(***************************************************************************)
(* Arithmetic modulo q as src/common/ntt_utils.c uses it, and the notions  *)
(* its algorithms are measured by.                                         *)
(***************************************************************************)
EXTENDS Naturals, FiniteSets

\* mulmod: module Arithmetic checks the loop over the bits of b.
MulMod(a, b, q) == (a * b) % q

\* modpow: with an exponent of zero the code returns 1, whatever q is.
ModPow(base, exp, q) ==
  LET loop[s \in Nat \X Nat \X Nat] ==
        IF s[3] = 0 THEN s[1]
        ELSE loop[<<IF s[3] % 2 = 1 THEN MulMod(s[1], s[2], q) ELSE s[1],
                    MulMod(s[2], s[2], q), s[3] \div 2>>]
  IN  loop[<<1, base % q, exp>>]

Divides(d, n) == n % d = 0

Prime(n) == n > 1 /\ {d \in 2 .. n \div 2 : Divides(d, n)} = {}

PrimeFactors(n) == {p \in 2 .. n : Divides(p, n) /\ Prime(p)}

\* x has multiplicative order k modulo q.
HasOrder(x, k, q) ==
  /\ ModPow(x % q, k, q) = 1 % q
  /\ \A j \in 1 .. k - 1 : ModPow(x % q, j, q) # 1 % q

\* f[0] + f[1] + ... + f[k - 1]
Total(f, k) ==
  LET sum[j \in 0 .. k] == IF j = 0 THEN 0 ELSE sum[j - 1] + f[j - 1] IN sum[k]

Squares(q) == {MulMod(s, s, q) : s \in 0 .. q - 1}

=============================================================================
