------------------------------ MODULE Arithmetic ------------------------------
(***************************************************************************)
(* The modular arithmetic of the library and of the three adapters, as one *)
(* register machine: x holds a value in the representation of the selected *)
(* arithmetic, and out a value as the public interface sees it.  A session *)
(* is any sequence of operations on the constants that setup computes.     *)
(***************************************************************************)
EXTENDS ScalarArith, DoubleAdd

CONSTANTS
  Moduli,  \* prime moduli
  Values   \* the numbers a caller can give

ASSUME ArithmeticAssumption ==
  /\ Values \subseteq Word
  /\ \A q \in Moduli : q \in 3 .. Base - 1 /\ q % 2 = 1

VARIABLES
  state,  \* what the operations are given besides their operands
  x,      \* a value in the representation of the arithmetic
  out     \* an ordinary value

vars == <<state, x, out>>

Scalar == state.arith \in {"barrett", "montgomery"}

Init ==
  /\ \E q \in Moduli :
       \/ state = [q |-> q, arith |-> "utils"]
       \/ /\ q < Base \div 2
          /\ \/ \E version \in {"toy", "naive"} : state = [q |-> q, arith |-> version]
             \/ \E reduction \in {"barrett", "montgomery"}, portable \in BOOLEAN :
                  state = ScalarState(q, reduction, portable)
  /\ x = 0 /\ out = 0

q == state.q

Plus(a, b) ==
  IF Scalar THEN ScalarAdd(state, a, b) ELSE DoublingAdd(state.arith, a, b, q)

Minus(a, b) ==
  IF Scalar THEN ScalarSub(state, a, b) ELSE DoublingSub(state.arith, a, b, q)

Times(a, b) ==
  IF Scalar THEN ScalarMul(state, a, b) ELSE DoublingMul(state.arith, a, b, q)

\* The other adapters and the library reduce and do not encode.
Reduce(a) == IF Scalar THEN ScalarReduce(state, a) ELSE a % q
EncodeValue(a) == IF Scalar THEN ScalarEncode(state, a) ELSE a % q
DecodeValue(a) == IF Scalar THEN ScalarDecode(state, a) ELSE a

\* Square and multiply, as all the ..._modpow functions do it
Power(one, base, exp) ==
  LET loop[s \in Word \X Word \X Nat] ==
        IF s[3] = 0 THEN s[1]
        ELSE loop[<<IF s[3] % 2 = 1 THEN Times(s[1], s[2]) ELSE s[1],
                    Times(s[2], s[2]), s[3] \div 2>>]
  IN  loop[<<one, base, exp>>]

\* ntt__scalar_modpow, ntt__modpow, naive_modpow, modpow
PowerOf(base, exp) ==
  IF Scalar /\ Montgomery(state)
    THEN MontDecode(state, Power(MontEncode(state, 1), MontEncode(state, base), exp))
    ELSE Power(1, Reduce(base), exp)

-----------------------------------------------------------------------------

\* The fast Montgomery backend cuts its operands to half a word (montgomery.c:234).
\* No residue is affected, but an unreduced number is: canonicalize would answer
\* with the wrong residue.  The session leaves such numbers out.
Fits(a) == state.arith = "montgomery" /\ state.q32 => a < Half

Encode(a) == x' = EncodeValue(a) /\ UNCHANGED <<state, out>>

Add == x' = Plus(x, EncodeValue(out)) /\ UNCHANGED <<state, out>>

Subtract ==
  /\ state.arith # "utils"
  /\ x' = Minus(x, EncodeValue(out))
  /\ UNCHANGED <<state, out>>

Multiply == x' = Times(x, EncodeValue(out)) /\ UNCHANGED <<state, out>>

Decode == out' = DecodeValue(x) /\ UNCHANGED <<state, x>>

\* ntt__scalar_canonicalize_value, ntt__reduce
Canonicalize(a) == out' = Reduce(a) /\ UNCHANGED <<state, x>>

\* scalar_modinv, ntt__modinv, naive_modinv
Invert ==
  /\ out # 0
  /\ out' = PowerOf(out, q - 2)
  /\ UNCHANGED <<state, x>>

Next ==
  \/ \E a \in Values : Fits(a) /\ (Encode(a) \/ Canonicalize(a))
  \/ Add \/ Subtract \/ Multiply
  \/ Decode \/ Invert

Spec == Init /\ [][Next]_vars

-----------------------------------------------------------------------------

\* Every value in between is a canonical residue: what each operation needs
\* of its operands.
TypeOK ==
  /\ state.q \in Moduli
  /\ x \in 0 .. q - 1
  /\ out \in 0 .. q - 1

(***************************************************************************)
(* The precomputed constants are what the reductions take them for.        *)
(***************************************************************************)
ConstantsRight ==
  CASE state.arith = "montgomery" ->
         LET radix == IF state.q32 THEN Half ELSE Base
         IN  /\ (state.qinv * q) % radix = radix - 1
             /\ state.r2 = ((radix % q) * (radix % q)) % q
    [] state.arith = "barrett" ->
         IF state.q32 THEN state.mu = Base \div q
         ELSE state.muWide[1] * Base + state.muWide[2] = (Base * Base) \div q
    [] OTHER -> TRUE

\* The residue that x stands for: Montgomery's representation is divided by
\* the radix.
Radix ==
  CASE state.arith # "montgomery" -> 1
    [] state.arith = "montgomery" /\ state.q32 -> Half
    [] OTHER -> Base

Residue == CHOOSE k \in 0 .. q - 1 : (k * (Radix % q)) % q = x % q

Ring == INSTANCE ResidueRing WITH r <- Residue

(***************************************************************************)
(* However the operations follow one another, every arithmetic and both    *)
(* kinds of build compute in the ring of residues: each operation does to  *)
(* the residue that x stands for what the ring's operation of that name    *)
(* does, and Fermat's power is the inverse.                                *)
(***************************************************************************)
ComputesInRing ==
  /\ Ring!Init
  /\ [][ /\ \A a \in {v \in Values : Fits(v)} :
              (Encode(a) => Ring!Encode(a)) /\ (Canonicalize(a) => Ring!Canonicalize(a))
         /\ Add => Ring!Add
         /\ Subtract => Ring!Subtract
         /\ Multiply => Ring!Multiply
         /\ Decode => Ring!Decode
         /\ Invert => Ring!Invert ]_vars

=============================================================================
