------------------------------ MODULE SquareRoot ------------------------------
(***************************************************************************)
(* A square root of a modulo an odd q (ntt__sqrt_mod in                    *)
(* src/common/ntt_utils.c): Euler's criterion, the direct formula for      *)
(* q % 4 = 3, and otherwise the loop of Tonelli and Shanks.                *)
(* The adapters do not all check that q is prime, so q may be composite.   *)
(* Other modules extend this one and call the search.                      *)
(***************************************************************************)
EXTENDS NumberTheory

\* The frame of a call: the arguments q and a (reduced), the state M, c, t, R
\* of Tonelli-Shanks, t squared i times, c squared e times, and the result.
VARIABLE sq

NoRoot ==
  [pc |-> "idle", q |-> 1, a |-> 0, M |-> 0, c |-> 0, t |-> 0, R |-> 0,
   i |-> 0, tt |-> 0, b |-> 0, e |-> 0, out |-> 0]

CallSqrtMod(k, q) == sq' = [NoRoot EXCEPT !.pc = "start", !.q = q, !.a = k % q]

SqrtModDone == sq.pc \in {"done", "failed"}

\* Euler's criterion as the code evaluates it
Euler(k) == ModPow(k, (sq.q - 1) \div 2, sq.q)

OddOfPhi ==
  LET odd[j \in Nat] == IF j % 2 = 0 THEN odd[j \div 2] ELSE j IN odd[sq.q - 1]

TwoAdic == CHOOSE s \in 1 .. sq.q : OddOfPhi * 2^s = sq.q - 1

NonResidues == {z \in 2 .. sq.q - 1 : Euler(z) = sq.q - 1}

\* The first z the search meets
FirstNonResidue == CHOOSE z \in NonResidues : \A y \in NonResidues : z <= y

Succeed(root) == sq' = [sq EXCEPT !.pc = "done", !.out = root]

SqrtOfZero ==
  /\ sq.pc = "start"
  /\ sq.a = 0
  /\ Succeed(0)

SqrtDirect ==
  /\ sq.pc = "start"
  /\ sq.a # 0 /\ Euler(sq.a) = 1
  /\ sq.q % 4 = 3
  /\ Succeed(ModPow(sq.a, (sq.q + 1) \div 4, sq.q))

SqrtRefused ==
  /\ sq.pc = "start"
  /\ sq.a # 0
  /\ Euler(sq.a) # 1 \/ (sq.q % 4 # 3 /\ NonResidues = {})
  /\ sq' = [sq EXCEPT !.pc = "failed"]

\* The first non-residue gives c.
StartTonelli ==
  /\ sq.pc = "start"
  /\ sq.a # 0 /\ Euler(sq.a) = 1
  /\ sq.q % 4 # 3 /\ NonResidues # {}
  /\ sq' = [sq EXCEPT !.pc = "test", !.M = TwoAdic,
              !.c = ModPow(FirstNonResidue, OddOfPhi, sq.q),
              !.t = ModPow(sq.a, OddOfPhi, sq.q),
              !.R = ModPow(sq.a, (OddOfPhi + 1) \div 2, sq.q)]

\* The head of the outer loop
LoopTest ==
  /\ sq.pc = "test"
  /\ IF sq.t = 1 THEN Succeed(sq.R)
                 ELSE sq' = [sq EXCEPT !.pc = "order", !.i = 0, !.tt = sq.t]

Squared(k) == MulMod(k, k, sq.q)

\* The inner loop looks for the order of t.
SquareT ==
  /\ sq.pc = "order" /\ sq.tt # 1
  /\ sq' = [sq EXCEPT !.tt = Squared(@), !.i = @ + 1,
                      !.pc = IF sq.i + 1 = sq.M THEN "failed" ELSE @]

OrderFound ==
  /\ sq.pc = "order" /\ sq.tt = 1
  /\ sq' = [sq EXCEPT !.pc = "raise", !.b = sq.c, !.e = 0]

RaiseB ==
  /\ sq.pc = "raise" /\ sq.e < sq.M - sq.i - 1
  /\ sq' = [sq EXCEPT !.b = Squared(@), !.e = @ + 1]

\* Faulty variants: R is corrected by b^2, or M is left alone.
CorrectBySquare ==
  /\ sq.pc = "raise" /\ sq.e >= sq.M - sq.i - 1
  /\ sq' = [sq EXCEPT !.pc = "test", !.M = sq.i, !.c = Squared(sq.b),
              !.t = MulMod(@, Squared(sq.b), sq.q), !.R = MulMod(@, Squared(sq.b), sq.q)]

CorrectKeepingM ==
  /\ sq.pc = "raise" /\ sq.e >= sq.M - sq.i - 1
  /\ sq' = [sq EXCEPT !.pc = "test", !.c = Squared(sq.b),
              !.t = MulMod(@, Squared(sq.b), sq.q), !.R = MulMod(@, sq.b, sq.q)]

Correct ==
  /\ sq.pc = "raise" /\ sq.e >= sq.M - sq.i - 1
  /\ sq' = [sq EXCEPT !.pc = "test", !.M = sq.i, !.c = Squared(sq.b),
              !.t = MulMod(@, Squared(sq.b), sq.q), !.R = MulMod(@, sq.b, sq.q)]

SqrtModStep ==
  \/ SqrtOfZero \/ SqrtDirect \/ SqrtRefused \/ StartTonelli
  \/ LoopTest \/ SquareT \/ OrderFound \/ RaiseB \/ Correct

-----------------------------------------------------------------------------

SqrtModTypeOK ==
  /\ {sq.a, sq.c, sq.t, sq.R, sq.tt, sq.b, sq.out} \subseteq 0 .. sq.q - 1
  /\ sq.M \in 0 .. sq.q /\ sq.i \in 0 .. sq.M /\ sq.e \in 0 .. sq.q
  /\ sq.pc \in {"idle", "start", "test", "order", "raise", "done", "failed"}
  /\ sq.pc = "raise" => sq.i < sq.M  \* M - i - 1 does not wrap

(***************************************************************************)
(* Between two corrections R^2 = a * t, and for a prime q the order of t   *)
(* divides 2^(M-1) while c has exactly the order 2^M: this is why the      *)
(* inner loop stops before M and why each correction makes M smaller.      *)
(***************************************************************************)
LoopInvariant ==
  sq.pc = "test" =>
    /\ MulMod(sq.R, sq.R, sq.q) = MulMod(sq.a, sq.t, sq.q)
    /\ Prime(sq.q) =>
         /\ sq.M > 0
         /\ ModPow(sq.t, 2^(sq.M - 1), sq.q) = 1
         /\ ModPow(sq.c, 2^(sq.M - 1), sq.q) = sq.q - 1

(***************************************************************************)
(* A root that is returned is a root, for composite moduli too, and for a  *)
(* prime modulus the search fails only if there is none.                   *)
(***************************************************************************)
RootIfAny ==
  /\ sq.pc = "done" => MulMod(sq.out, sq.out, sq.q) = sq.a
  /\ sq.pc = "failed" /\ Prime(sq.q) => sq.a \notin Squares(sq.q)

=============================================================================
