----------------------------- MODULE ResidueRing -----------------------------
(***************************************************************************)
(* What the arithmetic of an adapter promises: a register r of residues    *)
(* modulo q, and an ordinary number out that goes in or came out.          *)
(***************************************************************************)
EXTENDS Naturals

CONSTANTS
  Moduli,  \* the values of q
  Values   \* the numbers a caller can give

VARIABLES q, r, out

vars == <<q, r, out>>

Init == q \in Moduli /\ r = 0 /\ out = 0

Encode(a) == r' = a % q /\ UNCHANGED <<q, out>>

Add == r' = (r + out) % q /\ UNCHANGED <<q, out>>

Subtract == r' = (r + q - out) % q /\ UNCHANGED <<q, out>>

Multiply == r' = (r * out) % q /\ UNCHANGED <<q, out>>

Decode == out' = r /\ UNCHANGED <<q, r>>

Canonicalize(a) == out' = a % q /\ UNCHANGED <<q, r>>

\* out becomes its own inverse.
Invert ==
  /\ out # 0
  /\ out' \in {k \in 1 .. q - 1 : (k * out) % q = 1}
  /\ UNCHANGED <<q, r>>

=============================================================================
