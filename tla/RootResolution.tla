---------------------------- MODULE RootResolution ----------------------------
(***************************************************************************)
(* From a modulus, a size and a transform type to the roots of unity: the  *)
(* part of ntt__ctx_create (src/common/ntt_ctx.c) before it allocates.     *)
(* The adapter validates the modulus, ntt__validate_transform_params the   *)
(* domain, and ntt__resolve_roots keeps, completes or derives the roots,   *)
(* calling the primality test, the factoring and the square root, which    *)
(* run here step by step (src/common/ntt_utils.c).                         *)
(***************************************************************************)
EXTENDS Factoring, SquareRoot

CONSTANTS
  Requests,       \* records of adapter, q, n, type and the roots the caller
                  \* gives, 0 for none
  LargestModulus, \* the largest modulus the scalar adapter takes
  SizeBase        \* values of the type of n: 2^32 in the code

ASSUME RootAssumption ==
  /\ SizeBase \in Nat /\ (\E k \in 0 .. SizeBase : SizeBase = 2^k)
  /\ LargestModulus \in Nat
  /\ \A r \in Requests :
       /\ r.adapter \in {"scalar", "toy"}
       /\ r.q \in Nat /\ r.n \in 0 .. SizeBase - 1
       /\ r.omega \in Nat /\ r.psi \in Nat

VARIABLES
  req,         \* the arguments
  omega, psi,  \* *omega and *psi
  g,           \* the candidate of ntt__find_primitive_root
  pc           \* "modulus", "prime", "domain", "resolve", "sqrt", "factors",
               \* "search", "done" or "failed"

frames == <<mr, fac, sq>>
vars == <<req, omega, psi, g, pc, frames>>

Init ==
  /\ req \in Requests
  /\ omega = req.omega /\ psi = req.psi
  /\ g = 2
  /\ pc = "modulus"
  /\ mr = NoTest /\ fac = NoFactoring /\ sq = NoRoot

-----------------------------------------------------------------------------
\* The adapter's validate_modulus

\* The toy and naive adapters take any q > 1.
ValidateModulusToy ==
  /\ pc = "modulus" /\ req.adapter = "toy"
  /\ pc' = IF req.q > 1 THEN "domain" ELSE "failed"
  /\ UNCHANGED <<req, omega, psi, g, frames>>

RefuseLargeModulus ==
  /\ pc = "modulus" /\ req.adapter = "scalar"
  /\ req.q > LargestModulus
  /\ pc' = "failed"
  /\ UNCHANGED <<req, omega, psi, g, frames>>

\* ntt_is_prime.  That Montgomery reduction also refuses q = 2 is left to
\* ValidateDomain, which refuses it for everyone.
TestModulus ==
  /\ pc = "modulus" /\ req.adapter = "scalar"
  /\ req.q <= LargestModulus
  /\ CallMillerRabin(req.q)
  /\ pc' = "prime"
  /\ UNCHANGED <<req, omega, psi, g, fac, sq>>

RunTest ==
  /\ pc = "prime"
  /\ MillerRabinStep
  /\ UNCHANGED <<req, omega, psi, g, pc, fac, sq>>

ModulusTested ==
  /\ pc = "prime" /\ MillerRabinDone
  /\ pc' = IF mr.prime THEN "domain" ELSE "failed"
  /\ mr' = NoTest
  /\ UNCHANGED <<req, omega, psi, g, fac, sq>>

-----------------------------------------------------------------------------
\* ntt__validate_transform_params

PowerOfTwo(x) == \E k \in 0 .. x : 2^k = x

Negacyclic == req.type = "negacyclic"

\* Here the code computes with 64 bits.
Order == IF Negacyclic THEN 2 * req.n ELSE req.n

Achievable ==
  /\ req.q > 2
  /\ PowerOfTwo(req.n)
  /\ req.type \in {"cyclic", "negacyclic"}
  /\ Divides(Order, req.q - 1)

ValidateDomain ==
  /\ pc = "domain"
  /\ pc' = IF Achievable THEN "resolve" ELSE "failed"
  /\ UNCHANGED <<req, omega, psi, g, frames>>

-----------------------------------------------------------------------------
\* ntt__resolve_roots

\* Faulty variant: without the case order == 1.
IsPrimitiveWithoutOne(x, order) ==
  /\ order # 0 /\ x # 0
  /\ ModPow(x, order, req.q) = 1
  /\ ModPow(x, order \div 2, req.q) # 1

\* ntt__is_primitive_root_of_order
IsPrimitive(x, order) ==
  /\ order # 0 /\ x # 0
  /\ ModPow(x, order, req.q) = 1
  /\ order # 1 => ModPow(x, order \div 2, req.q) # 1

\* 2 * n in the type of n
Double == (2 * req.n) % SizeBase

GivenRootsFit ==
  IF ~Negacyclic
    THEN psi = 0 /\ (omega # 0 => IsPrimitive(omega, req.n))
    ELSE /\ omega # 0 /\ psi # 0 => MulMod(psi, psi, req.q) = omega
         /\ psi # 0 => IsPrimitive(psi, Double)
         /\ omega # 0 /\ psi = 0 => IsPrimitive(omega, req.n)

RefuseGiven ==
  /\ pc = "resolve"
  /\ ~GivenRootsFit
  /\ pc' = "failed"
  /\ UNCHANGED <<req, omega, psi, g, frames>>

KeepGiven ==
  /\ pc = "resolve"
  /\ GivenRootsFit
  /\ omega # 0 /\ (Negacyclic => psi # 0)
  /\ pc' = "done"
  /\ UNCHANGED <<req, omega, psi, g, frames>>

OmegaFromPsi ==
  /\ pc = "resolve"
  /\ GivenRootsFit
  /\ Negacyclic /\ psi # 0 /\ omega = 0
  /\ omega' = MulMod(psi, psi, req.q)
  /\ pc' = "done"
  /\ UNCHANGED <<req, psi, g, frames>>

SearchPsi ==
  /\ pc = "resolve"
  /\ GivenRootsFit
  /\ Negacyclic /\ omega # 0 /\ psi = 0
  /\ CallSqrtMod(omega, req.q)
  /\ pc' = "sqrt"
  /\ UNCHANGED <<req, omega, psi, g, mr, fac>>

RunSqrt ==
  /\ pc = "sqrt"
  /\ SqrtModStep
  /\ UNCHANGED <<req, omega, psi, g, pc, mr, fac>>

PsiFound ==
  /\ pc = "sqrt" /\ SqrtModDone
  /\ IF sq.pc = "done" THEN psi' = sq.out /\ pc' = "done"
                       ELSE pc' = "failed" /\ UNCHANGED psi
  /\ sq' = NoRoot
  /\ UNCHANGED <<req, omega, g, mr, fac>>

-----------------------------------------------------------------------------
\* ntt__find_primitive_root, and the roots that come of its result

\* Faulty variant: the table forgets a factor of q - 1.
KnownModuliWithoutTwo ==
  [q \in {3329, 8380417} |-> IF q = 3329 THEN {13} ELSE {2, 3, 11, 31}]

\* The table ntt_known_moduli.  Its third modulus, 2^64 - 2^32 + 1, is left out.
KnownModuli ==
  [q \in {3329, 8380417} |-> IF q = 3329 THEN {2, 13} ELSE {2, 3, 11, 31}]

NoRootsGiven == pc = "resolve" /\ omega = 0 /\ psi = 0

FactorPhi ==
  /\ NoRootsGiven
  /\ req.q \notin DOMAIN KnownModuli
  /\ CallDistinctPrimeFactors(req.q - 1)
  /\ pc' = "factors"
  /\ UNCHANGED <<req, omega, psi, g, mr, sq>>

RunFactoring ==
  /\ pc = "factors"
  /\ FactoringStep
  /\ UNCHANGED <<req, omega, psi, g, pc, sq>>

PhiFactored ==
  /\ pc = "factors" /\ FactoringDone
  /\ pc' = IF fac.pc = "done" THEN "search" ELSE "failed"
  /\ UNCHANGED <<req, omega, psi, g, frames>>

LookUpPhi ==
  /\ NoRootsGiven
  /\ req.q \in DOMAIN KnownModuli
  /\ pc' = "search"
  /\ UNCHANGED <<req, omega, psi, g, frames>>

FactorsOfPhi ==
  IF req.q \in DOMAIN KnownModuli THEN KnownModuli[req.q] ELSE fac.factors

Generates(x) ==
  \A f \in FactorsOfPhi : ModPow(x, (req.q - 1) \div f, req.q) # 1

\* Faulty variant: the same candidate again.
SameCandidate ==
  /\ pc = "search"
  /\ ~Generates(g)
  /\ UNCHANGED vars

NextCandidate ==
  /\ pc = "search"
  /\ ~Generates(g)
  /\ g' = g + 1
  /\ pc' = IF g' = req.q THEN "failed" ELSE pc
  /\ UNCHANGED <<req, omega, psi, frames>>

RootsFromGenerator ==
  /\ pc = "search"
  /\ Generates(g)
  /\ IF Negacyclic
       THEN /\ psi' = ModPow(g, (req.q - 1) \div (2 * req.n), req.q)
            /\ omega' = MulMod(psi', psi', req.q)
       ELSE omega' = ModPow(g, (req.q - 1) \div req.n, req.q) /\ UNCHANGED psi
  /\ pc' = "done"
  /\ UNCHANGED <<req, g, frames>>

ValidateModulus ==
  ValidateModulusToy \/ RefuseLargeModulus \/ TestModulus \/ RunTest \/ ModulusTested

CompleteRoots ==
  RefuseGiven \/ KeepGiven \/ OmegaFromPsi \/ SearchPsi \/ RunSqrt \/ PsiFound

DeriveRoots ==
  \/ FactorPhi \/ RunFactoring \/ PhiFactored \/ LookUpPhi
  \/ NextCandidate \/ RootsFromGenerator

Next == ValidateModulus \/ ValidateDomain \/ CompleteRoots \/ DeriveRoots

\* A function that is called runs on.
Spec == Init /\ [][Next]_vars /\ WF_vars(Next)

-----------------------------------------------------------------------------

TypeOK ==
  /\ req \in Requests
  /\ omega \in 0 .. req.q - 1 \union {req.omega}
  /\ psi \in 0 .. req.q - 1 \union {req.psi}
  /\ g >= 2 /\ (pc # "modulus" => g = 2 \/ g <= req.q)
  /\ pc \in {"modulus", "prime", "domain", "resolve", "sqrt", "factors",
             "search", "done", "failed"}
  /\ MillerRabinTypeOK /\ FactoringTypeOK /\ SqrtModTypeOK

\* What the adapters' transforms rely on
Fit(r, w, p) ==
  /\ HasOrder(w, r.n, r.q)
  /\ r.type = "negacyclic" => HasOrder(p, 2 * r.n, r.q) /\ MulMod(p, p, r.q) = w % r.q

\* For n = 1 a given omega can only be 1, and the code takes 1 for its root,
\* though a primitive second root would be q - 1.
Degenerate == Negacyclic /\ req.n = 1 /\ req.omega # 0 /\ req.psi = 0

(***************************************************************************)
(* For a prime modulus the roots that are returned have the orders that    *)
(* the transform needs, psi^2 is omega, and no root that the caller gave   *)
(* has been replaced.                                                      *)
(***************************************************************************)
RootsFit ==
  pc = "done" /\ Prime(req.q) =>
    /\ Fit(req, omega, psi) \/ Degenerate
    /\ req.omega \in {0, omega}
    /\ req.psi \in {0, psi}

(***************************************************************************)
(* A request for a prime modulus is refused only if no roots would do: the *)
(* comment on ntt__resolve_roots says it returns "false on invalid         *)
(* arguments or if the requested root order is not achievable modulo q".   *)
(* The bounds of the scalar adapter and of the type of n excepted.         *)
(***************************************************************************)
RefusedOnlyIfImpossible ==
  pc = "failed" /\ Prime(req.q) =>
    \/ req.adapter = "scalar" /\ req.q > LargestModulus
    \/ ~Achievable
    \/ ~Negacyclic /\ req.psi # 0
    \/ Negacyclic /\ Double # 2 * req.n
    \/ ~\E w \in 1 .. req.q + 1, p \in 0 .. req.q + 1 :
          /\ req.omega \in {0, w} /\ req.psi \in {0, p}
          /\ Negacyclic /\ req.omega # 0 /\ req.psi # 0 => MulMod(p, p, req.q) = w
          /\ Fit(req, w, p)

(***************************************************************************)
(* The creation of a context decides: the loops of the primality test, of  *)
(* Pollard's rho, of Tonelli and Shanks (for composite moduli too) and of  *)
(* the search for a generator all end.                                     *)
(***************************************************************************)
ResolutionEnds == <>(pc \in {"done", "failed"})

=============================================================================
