------------------------------ MODULE DoubleAdd -------------------------------
(***************************************************************************)
(* Arithmetic modulo q that multiplies by doubling and adding: the version *)
(* of the library (src/common/ntt_utils.c), of the toy adapter             *)
(* (src/adapters/scalar_toy/ntt_arith.c) and of the naive example adapter  *)
(* (examples/adapters/naive/ntt_naive.c).  The library allows any modulus  *)
(* of a word, the others rely on q to be at most half of it.               *)
(***************************************************************************)
EXTENDS WideInt

\* addmod_u64: when the sum wraps it is corrected by Base - q.
AddModU64(x, y, q) ==
  LET s == Wrap(x + y)
  IN  IF s >= x THEN IF s >= q THEN s - q ELSE s
                ELSE Wrap(s + (Base - q))

\* addmod_u64, ntt__addmod, naive_addmod
DoublingAdd(version, x, y, q) ==
  CASE version = "utils" -> AddModU64(x, y, q)
    [] version = "toy" -> LET s == Wrap(x + y) IN IF s >= q THEN s - q ELSE s
    [] version = "naive" -> Wrap(x + y) % q

\* ntt__submod, naive_submod; the library has none.
DoublingSub(version, x, y, q) ==
  IF version = "toy" THEN IF x >= y THEN x - y ELSE Wrap(x + q) - y
                     ELSE WrapMinus(Wrap(x + q), y) % q

\* The sum inside the multiplications
Accumulate(version, x, y, q) ==
  IF version = "utils" THEN AddModU64(x, y, q) ELSE Wrap(x + y) % q

\* mulmod, ntt__mulmod, naive_mul (which leaves b as it is)
DoublingMul(version, a, b, q) ==
  LET loop[s \in Word \X Word \X Word] ==
        IF s[3] = 0 THEN s[1]
        ELSE loop[<<IF s[3] % 2 = 1 THEN Accumulate(version, s[1], s[2], q) ELSE s[1],
                    Accumulate(version, s[2], s[2], q), s[3] \div 2>>]
  IN  loop[<<0, a % q, IF version = "naive" THEN b ELSE b % q>>]

=============================================================================
