------------------------------- MODULE Primality -------------------------------
(***************************************************************************)
(* The primality test of libntt (ntt__miller_rabin in                      *)
(* src/common/ntt_utils.c), one loop iteration per step: q - 1 is split    *)
(* into d * 2^s, then fixed witnesses are tried one after the other.       *)
(* Other modules extend this one and call the test.                        *)
(***************************************************************************)
EXTENDS NumberTheory, Sequences

CONSTANT Witnesses  \* the witness table

ASSUME PrimalityAssumption == Witnesses \in Seq(Nat \ {0, 1})

\* The frame of a call: where it is, the candidate q, q - 1 = d * 2^s, the
\* witness being tried, x = a^(d * 2^(r-1)) modulo q, and the answer.
VARIABLE mr

NoTest ==
  [pc |-> "idle", q |-> 0, d |-> 0, s |-> 0, i |-> 1, x |-> 0, r |-> 1, prime |-> FALSE]

CallMillerRabin(k) == mr' = [NoTest EXCEPT !.pc = "start", !.q = k]

MillerRabinDone == mr.pc = "done"

Answer(yes) == mr' = [mr EXCEPT !.pc = "done", !.prime = yes]

\* Below 4, and even values.
DecideSmall ==
  /\ mr.pc = "start"
  /\ mr.q < 4 \/ mr.q % 2 = 0
  /\ Answer(mr.q \in {2, 3})

StartSplit ==
  /\ mr.pc = "start"
  /\ mr.q > 3 /\ mr.q % 2 = 1
  /\ mr' = [mr EXCEPT !.pc = "split", !.d = mr.q - 1]

Halve ==
  /\ mr.pc = "split"
  /\ mr.d % 2 = 0
  /\ mr' = [mr EXCEPT !.d = @ \div 2, !.s = @ + 1]

\* Faulty variant: the split stops one factor of two early.
EndSplitEarly ==
  /\ mr.pc = "split"
  /\ mr.d % 4 = 2
  /\ mr' = [mr EXCEPT !.pc = "witness"]

EndSplit ==
  /\ mr.pc = "split"
  /\ mr.d % 2 = 1
  /\ mr' = [mr EXCEPT !.pc = "witness"]

Trying == mr.pc = "witness" /\ mr.i <= Len(Witnesses)

FirstPower == ModPow(Witnesses[mr.i], mr.d, mr.q)

\* A witness not below q is skipped, not reduced.
SkipWitness ==
  /\ Trying
  /\ Witnesses[mr.i] >= mr.q
  /\ mr' = [mr EXCEPT !.i = @ + 1]

WitnessPasses ==
  /\ Trying
  /\ Witnesses[mr.i] < mr.q
  /\ FirstPower \in {1, mr.q - 1}
  /\ mr' = [mr EXCEPT !.i = @ + 1]

StartSquaring ==
  /\ Trying
  /\ Witnesses[mr.i] < mr.q
  /\ FirstPower \notin {1, mr.q - 1}
  /\ mr' = [mr EXCEPT !.pc = "square", !.x = FirstPower, !.r = 1]

Square ==
  /\ mr.pc = "square"
  /\ mr.r < mr.s
  /\ LET y == MulMod(mr.x, mr.x, mr.q) IN
     IF y = mr.q - 1
       THEN mr' = [mr EXCEPT !.x = y, !.r = @ + 1, !.i = @ + 1, !.pc = "witness"]
       ELSE mr' = [mr EXCEPT !.x = y, !.r = @ + 1]

\* Faulty variant: the squaring gives up one step early.
WitnessFailsEarly ==
  /\ mr.pc = "square"
  /\ mr.r + 1 >= mr.s
  /\ Answer(FALSE)

WitnessFails ==
  /\ mr.pc = "square"
  /\ mr.r >= mr.s
  /\ Answer(FALSE)

\* Faulty variant: the first witness decides.
FirstWitnessPasses ==
  /\ mr.pc = "witness"
  /\ mr.i > 1
  /\ Answer(TRUE)

AllWitnessesPass ==
  /\ mr.pc = "witness"
  /\ mr.i > Len(Witnesses)
  /\ Answer(TRUE)

MillerRabinStep ==
  \/ DecideSmall \/ StartSplit \/ Halve \/ EndSplit
  \/ SkipWitness \/ WitnessPasses \/ StartSquaring \/ Square
  \/ WitnessFails \/ AllWitnessesPass

-----------------------------------------------------------------------------

MillerRabinTypeOK ==
  /\ {mr.d, mr.x, mr.s} \subseteq 0 .. mr.q
  /\ mr.i \in 1 .. Len(Witnesses) + 1
  /\ mr.r \in 1 .. mr.s + 1
  /\ mr.pc \in {"idle", "start", "split", "witness", "square", "done"}
  /\ mr.prime \in BOOLEAN

(***************************************************************************)
(* While a witness is squared, q - 1 = d * 2^s with d odd, and x is the    *)
(* power of the witness that r says: the loop squares neither one time too *)
(* few nor one too many.                                                   *)
(***************************************************************************)
SquaringInvariant ==
  mr.pc = "square" =>
    /\ mr.d % 2 = 1
    /\ mr.d * 2^mr.s = mr.q - 1
    /\ mr.x = ModPow(Witnesses[mr.i], mr.d * 2^(mr.r - 1), mr.q)
    /\ mr.r <= mr.s

(***************************************************************************)
(* A value is called composite only if it is: the test never rejects a     *)
(* prime modulus.                                                          *)
(***************************************************************************)
NoPrimeRejected == MillerRabinDone /\ ~mr.prime => ~Prime(mr.q)

(***************************************************************************)
(* A value is called prime only if it is, as include/ntt/ntt_utils.h has   *)
(* it: "return false if q is composite or less than two".                  *)
(***************************************************************************)
CompositeIsRejected == MillerRabinDone /\ mr.prime => Prime(mr.q)

=============================================================================
