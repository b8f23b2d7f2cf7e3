----------------------------- MODULE MCArithmetic -----------------------------
(* Words of six bits: Half is 8, so there are moduli on both sides of it,
   up to the largest that the scalar adapter takes, and two that only the
   library does. *)
EXTENDS Arithmetic

MCModuli == {3, 5, 7, 11, 13, 29, 31, 37, 61}

MCValues == 0 .. Half \union {21, 40, 62, 63}

=============================================================================
