------------------------------- MODULE Factoring -------------------------------
(***************************************************************************)
(* The distinct prime factors of x (ntt__distinct_prime_factors in         *)
(* src/common/ntt_utils.c): factors of two are stripped, the odd rest is   *)
(* split by Pollard's rho, with the parts still to split on a stack and    *)
(* the primality test called for each of them.                             *)
(* Other modules extend this one and call the factoring.                   *)
(***************************************************************************)
EXTENDS Primality

CONSTANTS
  MaxFactors,  \* max_factors, room for results
  StackSize,   \* entries of the array stack
  MaxSeeds     \* how many values of c Pollard's rho tries

ASSUME FactoringAssumption ==
  MaxFactors \in Nat /\ StackSize \in Nat \ {0} /\ MaxSeeds \in Nat \ {0}

\* The frame of a call: the number x, the primes found, the parts still to be
\* looked at, the part n being tested or split, the seed c and the slow and
\* fast sequences u and v of Pollard's rho, and (history) the most parts the
\* stack ever held.
VARIABLE fac

NoFactoring ==
  [pc |-> "idle", x |-> 0, factors |-> {}, stack |-> <<>>, n |-> 0,
   c |-> 0, u |-> 0, v |-> 0, depth |-> 0]

CallDistinctPrimeFactors(k) == fac' = [NoFactoring EXCEPT !.pc = "start", !.x = k]

FactoringDone == fac.pc \in {"done", "failed"}

\* ntt__gcd_u64
Gcd(a, b) ==
  LET gcd[p \in Nat \X Nat] == IF p[2] = 0 THEN p[1] ELSE gcd[<<p[2], p[1] % p[2]>>]
  IN  gcd[<<a, b>>]

OddPart(k) ==
  LET odd[j \in Nat] == IF j % 2 = 0 THEN odd[j \div 2] ELSE j IN odd[k]

Even == fac.x % 2 = 0

RejectInput ==
  /\ fac.pc = "start"
  /\ fac.x <= 1 \/ (Even /\ MaxFactors = 0)
  /\ fac' = [fac EXCEPT !.pc = "failed"]
  /\ UNCHANGED mr

PowerOfTwoOnly ==
  /\ fac.pc = "start"
  /\ fac.x > 1 /\ Even /\ MaxFactors > 0
  /\ OddPart(fac.x) = 1
  /\ fac' = [fac EXCEPT !.pc = "done", !.factors = {2}]
  /\ UNCHANGED mr

StripTwo ==
  /\ fac.pc = "start"
  /\ fac.x > 1 /\ (Even => MaxFactors > 0)
  /\ OddPart(fac.x) # 1
  /\ fac' = [fac EXCEPT !.pc = "loop", !.factors = IF Even THEN {2} ELSE {},
                        !.stack = <<OddPart(fac.x)>>, !.depth = 1]
  /\ UNCHANGED mr

\* The top of the stack is popped and tested.
PopPart ==
  /\ fac.pc = "loop" /\ fac.stack # <<>>
  /\ LET top == fac.stack[Len(fac.stack)] IN
       /\ fac' = [fac EXCEPT !.pc = "test", !.n = top,
                             !.stack = SubSeq(@, 1, Len(@) - 1)]
       /\ CallMillerRabin(top)

TestPart == fac.pc = "test" /\ MillerRabinStep /\ UNCHANGED fac

\* A prime part is recorded once.
RecordPrime ==
  /\ fac.pc = "test" /\ MillerRabinDone
  /\ mr.prime
  /\ fac' = IF fac.n \notin fac.factors /\ Cardinality(fac.factors) >= MaxFactors
              THEN [fac EXCEPT !.pc = "failed"]
              ELSE [fac EXCEPT !.pc = "loop", !.factors = @ \union {fac.n}]
  /\ mr' = NoTest

StartRho ==
  /\ fac.pc = "test" /\ MillerRabinDone
  /\ ~mr.prime
  /\ fac' = [fac EXCEPT !.pc = "rho", !.c = 1, !.u = 2, !.v = 2]
  /\ mr' = NoTest

\* Faulty variant: the sum is not reduced.
FUnreduced(k) == MulMod(k, k, fac.n) + fac.c

F(k) == (MulMod(k, k, fac.n) + fac.c) % fac.n
Distance(a, b) == IF a > b THEN a - b ELSE b - a

\* The divisor one more step of both sequences shows: 1 for none yet.
Collision == Gcd(Distance(F(fac.u), F(F(fac.v))), fac.n)

RhoStep ==
  /\ fac.pc = "rho"
  /\ Collision = 1
  /\ fac' = [fac EXCEPT !.u = F(@), !.v = F(F(@))]
  /\ UNCHANGED mr

Push(parts) ==
  LET stack == fac.stack \o parts
      depth == IF Len(stack) > fac.depth THEN Len(stack) ELSE fac.depth
  IN  fac' = [fac EXCEPT !.pc = "loop", !.stack = stack, !.depth = depth]

\* Faulty variants: a part splits off and the rest is forgotten, or the part
\* itself goes back on the stack as well.
SplitHalf ==
  /\ fac.pc = "rho" /\ Collision \notin {1, fac.n}
  /\ Push(<<Collision>>)
  /\ UNCHANGED mr

SplitDuplicating ==
  /\ fac.pc = "rho" /\ Collision \notin {1, fac.n}
  /\ Push(<<Collision, Collision, fac.n \div Collision>>)
  /\ UNCHANGED mr

Split ==
  /\ fac.pc = "rho" /\ Collision \notin {1, fac.n}
  /\ Push(<<Collision, fac.n \div Collision>>)
  /\ UNCHANGED mr

\* Faulty variant: only one seed is tried.
OneSeed ==
  /\ fac.pc = "rho" /\ Collision = fac.n
  /\ fac' = [fac EXCEPT !.pc = "failed"]
  /\ UNCHANGED mr

\* The cycle closed without a divisor: the next seed is tried, if any.
NextSeed ==
  /\ fac.pc = "rho" /\ Collision = fac.n
  /\ fac' = IF fac.c + 1 < fac.n /\ fac.c + 1 <= MaxSeeds
              THEN [fac EXCEPT !.c = @ + 1, !.u = 2, !.v = 2]
              ELSE [fac EXCEPT !.pc = "failed"]
  /\ UNCHANGED mr

Finish ==
  /\ fac.pc = "loop" /\ fac.stack = <<>>
  /\ fac' = [fac EXCEPT !.pc = "done"]
  /\ UNCHANGED mr

FactoringStep ==
  \/ RejectInput \/ PowerOfTwoOnly \/ StripTwo \/ PopPart \/ TestPart
  \/ RecordPrime \/ StartRho \/ RhoStep \/ Split \/ NextSeed \/ Finish

-----------------------------------------------------------------------------

Parts ==
  {fac.stack[k] : k \in 1 .. Len(fac.stack)}
    \union (IF fac.pc \in {"test", "rho"} THEN {fac.n} ELSE {})

FactoringTypeOK ==
  /\ fac.factors \subseteq 1 .. fac.x
  /\ fac.stack \in Seq(1 .. fac.x)
  /\ fac.c <= MaxSeeds
  /\ fac.pc = "rho" => {fac.u, fac.v} \subseteq 0 .. fac.n - 1
  /\ fac.pc \in {"idle", "start", "loop", "test", "rho", "done", "failed"}

(***************************************************************************)
(* No prime factor is lost and none is made up: what was recorded and what *)
(* is still to be split hold exactly the primes that divide x.             *)
(***************************************************************************)
NothingLost ==
  fac.pc \in {"loop", "test", "rho"} =>
    (UNION {PrimeFactors(k) : k \in Parts}) \union fac.factors = PrimeFactors(fac.x)

(***************************************************************************)
(* Factoring succeeds with the distinct primes of x, and fails only for    *)
(* want of room: Pollard's rho finds a divisor of every composite part.    *)
(***************************************************************************)
FactorsAreRight ==
  /\ fac.pc = "done" => fac.factors = PrimeFactors(fac.x)
  /\ fac.pc = "failed" => fac.x <= 1 \/ Cardinality(PrimeFactors(fac.x)) > MaxFactors

\* The number of odd primes of k, counted as often as they divide it.
OddPrimes(k) ==
  LET count[j \in Nat] ==
        IF j < 2 THEN 0
        ELSE LET p == CHOOSE p \in PrimeFactors(j) : TRUE IN 1 + count[j \div p]
  IN  IF k = 0 THEN 0 ELSE count[OddPart(k)]

(***************************************************************************)
(* The stack never holds more parts than x has odd primes, which is what   *)
(* its size must be measured by.                                           *)
(***************************************************************************)
DepthBounded == fac.depth <= OddPrimes(fac.x)

(***************************************************************************)
(* No part is written behind the array: the source says of this function   *)
(* that it "Works for the complete uint64_t domain".                       *)
(***************************************************************************)
StackInBounds == fac.depth <= StackSize

=============================================================================
