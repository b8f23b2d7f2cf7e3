------------------------------ MODULE Transform ------------------------------
(***************************************************************************)
(* The transforms of the three adapters: scalar (src/adapters/scalar/ntt.c,*)
(* decimation in time forward and in frequency back, on encoded values),   *)
(* toy (src/adapters/scalar_toy/ntt.c) and the example adapter naive       *)
(* (examples/adapters/naive/ntt_naive.c).  A client calls ntt_forward,     *)
(* ntt_inverse and ntt_negacyclic_mul one after the other on one array, or *)
(* assembles the product itself as examples/ntt_example_stepwise.c does:   *)
(* twist, forward, multiply the values, inverse, untwist.                  *)
(*                                                                         *)
(* The arithmetic is the one module ScalarArith finds: an encoded value is *)
(* a residue times radix, and a product is divided by it once.             *)
(***************************************************************************)
EXTENDS NumberTheory

CONSTANTS
  Contexts,  \* records of adapter, type, q, n, omega, psi and radix
  Inputs(_), \* for a context, the coefficient vectors a client starts from
  MaxCalls   \* calls of a client

ASSUME TransformAssumption ==
  /\ MaxCalls \in Nat
  /\ \A x \in Contexts :
       /\ x.adapter \in {"scalar", "toy", "naive"} /\ x.type \in {"cyclic", "negacyclic"}
       /\ x.q \in Nat /\ Prime(x.q)
       /\ x.n \in Nat /\ \E k \in 0 .. x.n : x.n = 2^k
       /\ x.radix \in Nat /\ x.radix % x.q # 0
       /\ x.adapter # "scalar" => x.radix = 1
       \* what root resolution and adapter creation leave in a context
       /\ x.omega \in Nat /\ HasOrder(x.omega, x.n, x.q)
       /\ x.psi \in Nat
       /\ IF x.type = "negacyclic"
            THEN HasOrder(x.psi, 2 * x.n, x.q) /\ MulMod(x.psi, x.psi, x.q) = x.omega % x.q
            ELSE x.psi = 0
       /\ Inputs(x) \subseteq [0 .. x.n - 1 -> 0 .. x.q - 1]

VARIABLES
  ctx,    \* what the context was created from
  poly,   \* the client's array
  work,   \* the arrays in the making: a (or ta), and tb of a multiplication
  which,  \* the one the stages work on
  m,      \* the size of the blocks of this stage
  pc,     \* "idle", "dit" or "dif": in which kind of stages
  call,   \* the function running
  twisted, \* whether the client has multiplied its array by powers of psi
  coeffs, form, calls  \* history: what poly stands for, and how many calls

client == <<coeffs, form, calls, twisted>>
vars == <<ctx, poly, work, which, m, pc, call, client>>

n == ctx.n
q == ctx.q
Indices == 0 .. n - 1

-----------------------------------------------------------------------------
\* Setup

Reduced(k) == k % q
Inverted(k) == ModPow(k, q - 2, q)

Psi == Reduced(ctx.psi)
\* The naive adapter never looks at omega.
Omega == IF ctx.adapter = "naive" THEN MulMod(Psi, Psi, q) ELSE Reduced(ctx.omega)
NInv == Inverted(Reduced(n))

Stages(size) == CHOOSE s \in 0 .. size : 2^s = size

\* Faulty variant: one bit too few.
ReverseBitsShort(x, bits) ==
  LET r[k \in Nat] == IF k = 0 THEN 0 ELSE 2 * r[k - 1] + ((x \div 2^(k - 1)) % 2)
  IN  IF bits < 2 THEN x ELSE r[bits - 1]

\* ntt_reverse_bits
ReverseBits(x, bits) ==
  LET r[k \in Nat] == IF k = 0 THEN 0 ELSE 2 * r[k - 1] + ((x \div 2^(k - 1)) % 2)
  IN  r[bits]

\* The reversed counter of bitrev_permute and naive_bitrev
Counter(size) ==
  LET advance[s \in Nat \X Nat] ==
        IF s[2] # 0 /\ (s[1] \div s[2]) % 2 = 1
          THEN advance[<<s[1] - s[2], s[2] \div 2>>]
          ELSE s[1] + s[2]
      j[i \in Nat] == IF i = 0 THEN 0 ELSE advance[<<j[i - 1], size \div 2>>]
  IN  [i \in 0 .. size - 1 |-> j[i]]

Bitrev ==
  IF ctx.adapter = "scalar" THEN [i \in Indices |-> ReverseBits(i, Stages(n))]
                            ELSE Counter(n)

-----------------------------------------------------------------------------
\* Arithmetic on encoded values

RadixInverse == Inverted(ctx.radix)
Enc(k) == MulMod(k, ctx.radix, q)
Dec(k) == MulMod(k, RadixInverse, q)
Mul(x, y) == MulMod(MulMod(x, y, q), RadixInverse, q)
\* Faulty variant: the sum is not reduced.
AddUnreduced(x, y) == x + y

Add(x, y) == (x + y) % q
Sub(x, y) == (x + q - y) % q

\* w = 1, w_m, w_m^2, ... as the loops multiply them up, times first
Powers(first, wm) ==
  LET w[j \in Nat] == IF j = 0 THEN first ELSE Mul(w[j - 1], wm) IN w

\* Faulty variant: the roots of the next stage.
TwiddleEarly(root, size) == Enc(ModPow(root, n \div (2 * size), q))

\* The root of a stage: omega^(n / m) or its inverse, encoded
Twiddle(root, size) == Enc(ModPow(root, n \div size, q))

-----------------------------------------------------------------------------
\* Stages

Permute(v) == [i \in Indices |-> v[Bitrev[i]]]

Halfway(i, size) == i % size < size \div 2
Partner(i, size) == IF Halfway(i, size) THEN i + size \div 2 ELSE i - size \div 2

\* All butterflies of one stage of scalar_forward_internal, iterative_fft, ...
DecimateInTime(v, size, root) ==
  LET w == Powers(Enc(1), Twiddle(root, size))
  IN  [i \in Indices |->
        IF Halfway(i, size)
          THEN Add(v[i], Mul(v[Partner(i, size)], w[i % (size \div 2)]))
          ELSE Sub(v[Partner(i, size)], Mul(v[i], w[i % (size \div 2)]))]

\* One stage of scalar_inverse_internal
DecimateInFrequency(v, size, root) ==
  LET w == Powers(Enc(1), Twiddle(root, size))
  IN  [i \in Indices |->
        IF Halfway(i, size)
          THEN Add(v[i], v[Partner(i, size)])
          ELSE Mul(Sub(v[Partner(i, size)], v[i]), w[i % (size \div 2)])]

Root == IF call \in {"forward", "multiply"} THEN Omega ELSE Inverted(Omega)

-----------------------------------------------------------------------------

Init ==
  /\ ctx \in Contexts
  /\ coeffs \in Inputs(ctx)
  /\ poly = coeffs /\ form = "coefficients"
  /\ work = [a |-> poly, b |-> poly]
  /\ which = "a" /\ m = 0 /\ pc = "idle" /\ call = "none"
  /\ calls = 0 /\ twisted = FALSE

StartTime(name, v) ==
  /\ work' = [work EXCEPT !.a = Permute(v)]
  /\ which' = "a" /\ m' = 2 /\ pc' = "dit" /\ call' = name

StartFrequency(name, v) ==
  /\ work' = [work EXCEPT !.a = v]
  /\ which' = "a" /\ m' = n /\ pc' = "dif" /\ call' = name

Encoded(v) == [i \in Indices |-> Enc(v[i])]
Decoded(v) == [i \in Indices |-> Dec(v[i])]

NttForward ==
  /\ pc = "idle" /\ form = "coefficients" /\ calls < MaxCalls
  /\ StartTime("forward", Encoded(poly))
  /\ calls' = calls + 1
  /\ UNCHANGED <<ctx, poly, coeffs, form, twisted>>

NttInverse ==
  /\ pc = "idle" /\ form = "values" /\ calls < MaxCalls
  /\ IF ctx.adapter = "scalar" THEN StartFrequency("inverse", Encoded(poly))
                               ELSE StartTime("inverse", poly)
  /\ calls' = calls + 1
  /\ UNCHANGED <<ctx, poly, coeffs, form, twisted>>

Twisted(v) == LET tw == Powers(Enc(1), Enc(Psi)) IN [i \in Indices |-> Mul(Enc(v[i]), tw[i])]

\* c(x) = a(x) b(x) modulo x^n + 1
NegacyclicProduct(v, w) ==
  [k \in Indices |->
     Total([i \in Indices |->
              IF i <= k THEN v[i] * w[k - i] ELSE (q - 1) * v[i] * w[n + k - i]], n) % q]

\* Nothing asks for a psi: on a cyclic context the call goes on with psi = 0.
NttNegacyclicMul(b) ==
  /\ pc = "idle" /\ form = "coefficients" /\ ~twisted /\ calls < MaxCalls
  /\ work' = [a |-> Permute(Twisted(poly)), b |-> Permute(Twisted(b))]
  /\ which' = "a" /\ m' = 2 /\ pc' = "dit" /\ call' = "multiply"
  /\ coeffs' = NegacyclicProduct(coeffs, b)
  /\ calls' = calls + 1
  /\ UNCHANGED <<ctx, poly, form, twisted>>

StageInTime ==
  /\ pc = "dit" /\ m <= n
  /\ work' = [work EXCEPT ![which] = DecimateInTime(@, m, Root)]
  /\ m' = 2 * m
  /\ UNCHANGED <<ctx, poly, which, pc, call, client>>

StageInFrequency ==
  /\ pc = "dif" /\ m >= 2
  /\ work' = [work EXCEPT ![which] = DecimateInFrequency(@, m, Inverted(Omega))]
  /\ m' = m \div 2
  /\ UNCHANGED <<ctx, poly, which, pc, call, client>>

SecondOperand ==
  /\ pc = "dit" /\ m > n
  /\ call = "multiply" /\ which = "a"
  /\ which' = "b" /\ m' = 2
  /\ UNCHANGED <<ctx, poly, work, pc, call, client>>

MultiplyValues ==
  /\ pc = "dit" /\ m > n
  /\ call = "multiply" /\ which = "b"
  /\ LET product == [i \in Indices |-> Mul(work.a[i], work.b[i])]
     IN  IF ctx.adapter = "scalar" THEN StartFrequency("product", product)
                                   ELSE StartTime("product", product)
  /\ UNCHANGED <<ctx, poly, client>>

\* What the working arrays hold after a call is never read again.
Return(v) ==
  /\ poly' = v /\ work' = [a |-> v, b |-> v]
  /\ which' = "a" /\ m' = 0 /\ pc' = "idle" /\ call' = "none"
  /\ UNCHANGED <<ctx, calls, twisted>>

ReturnForward ==
  /\ pc = "dit" /\ m > n /\ call = "forward"
  /\ Return(Decoded(work.a))
  /\ form' = "values" /\ UNCHANGED coeffs

StagesDone == (pc = "dit" /\ m > n) \/ (pc = "dif" /\ m < 2)

\* What the last stage leaves, in order: scalar permutes only now.
Ordered == IF pc = "dif" THEN Permute(work.a) ELSE work.a

ReturnInverse ==
  /\ call = "inverse" /\ StagesDone
  /\ Return([i \in Indices |-> Dec(Mul(Ordered[i], Enc(NInv)))])
  /\ form' = "coefficients" /\ UNCHANGED coeffs

\* On a cyclic context, where the product is not what was asked for, the
\* client goes on with what it got.
ReturnToClient(v) ==
  /\ Return(v)
  /\ coeffs' = IF ctx.type = "negacyclic" THEN coeffs ELSE v
  /\ UNCHANGED form

\* Faulty variant: the powers of psi^-1 start at 1, not at n^-1.
ReturnProductUnscaled ==
  /\ call = "product" /\ StagesDone
  /\ LET untw == Powers(Enc(1), Enc(Inverted(Psi)))
     IN  ReturnToClient([i \in Indices |-> Dec(Mul(Ordered[i], untw[i]))])

ReturnProduct ==
  /\ call = "product" /\ StagesDone
  /\ LET untw == Powers(Enc(NInv), Enc(Inverted(Psi)))
     IN  ReturnToClient([i \in Indices |-> Dec(Mul(Ordered[i], untw[i]))])

-----------------------------------------------------------------------------
\* The product step by step, on canonical values

\* The size-point transform of v with the given root
Dft(v, size, root) ==
  [k \in 0 .. size - 1 |->
     Total([i \in 0 .. size - 1 |-> v[i] * ModPow(root, i * k, q)], size) % q]

\* twist_in_place, with the powers of x
TwistedBy(v, x) == [i \in Indices |-> MulMod(v[i], ModPow(x, i, q), q)]

ClientArray(v) ==
  /\ pc = "idle"
  /\ poly' = v /\ work' = [a |-> v, b |-> v]
  /\ UNCHANGED <<ctx, which, m, pc, call, form>>

TwistInPlace ==
  /\ form = "coefficients" /\ ~twisted
  /\ ctx.type = "negacyclic"
  /\ ClientArray(TwistedBy(poly, Psi))
  /\ twisted' = TRUE
  /\ UNCHANGED <<coeffs, calls>>

\* The other operand went through the same two steps.
MultiplyPointwise(b) ==
  /\ form = "values" /\ twisted /\ calls < MaxCalls
  /\ LET tb == Dft(TwistedBy(b, Psi), n, Omega)
     IN  ClientArray([i \in Indices |-> MulMod(poly[i], tb[i], q)])
  /\ coeffs' = NegacyclicProduct(coeffs, b)
  /\ calls' = calls + 1
  /\ UNCHANGED twisted

Untwist ==
  /\ form = "coefficients" /\ twisted
  /\ ClientArray(TwistedBy(poly, Inverted(Psi)))
  /\ twisted' = FALSE
  /\ UNCHANGED <<coeffs, calls>>

Next ==
  \/ NttForward \/ NttInverse
  \/ \E b \in Inputs(ctx) : NttNegacyclicMul(b) \/ MultiplyPointwise(b)
  \/ TwistInPlace \/ Untwist
  \/ StageInTime \/ StageInFrequency \/ SecondOperand \/ MultiplyValues
  \/ ReturnForward \/ ReturnInverse \/ ReturnProduct

Spec == Init /\ [][Next]_vars

-----------------------------------------------------------------------------

TypeOK ==
  /\ \A v \in {poly, work.a, work.b} : \A i \in Indices : v[i] \in 0 .. q - 1
  /\ m \in 0 .. 2 * n
  /\ pc \in {"idle", "dit", "dif"}
  /\ form \in {"coefficients", "values"} /\ twisted \in BOOLEAN

\* What the client's array holds the coefficients of
Expected == IF twisted THEN TwistedBy(coeffs, Psi) ELSE coeffs

(***************************************************************************)
(* Whatever calls were made, the array stands for the same polynomial: its *)
(* values at the powers of omega after a forward transform, in order.      *)
(***************************************************************************)
ValuesAreTransform ==
  pc = "idle" /\ form = "values" => poly = Dft(Expected, n, Omega)

(***************************************************************************)
(* The inverse gives back the coefficients, as ntt.h promises ("scaled by  *)
(* n^{-1} mod q to recover the original polynomial"); on a negacyclic      *)
(* context multiplying, in one call or step by step as the example does,   *)
(* gives those of the product modulo x^n + 1.  What ntt_negacyclic_mul     *)
(* returns on a cyclic context is left to ProductsKept.                    *)
(***************************************************************************)
CoefficientsKept ==
  pc = "idle" /\ form = "coefficients" => poly = Expected

(***************************************************************************)
(* Whatever its context, ntt_negacyclic_mul returns what ntt.h says it     *)
(* computes: "c(x) = a(x)b(x) mod (x^n + 1, q)".                           *)
(***************************************************************************)
ProductsKept == [][call = "product" /\ pc' = "idle" => poly' = coeffs]_vars

(***************************************************************************)
(* Between the stages of a forward transform each block of the array is    *)
(* the transform of a subsequence of the coefficients: block k of size s   *)
(* holds every (n/s)-th coefficient from the reversed k on.                *)
(***************************************************************************)
BlocksAreTransforms ==
  pc = "dit" /\ call = "forward" =>
    LET s == m \div 2
    IN  \A k \in 0 .. n \div s - 1 :
          LET part == [i \in 0 .. s - 1 |-> Expected[Bitrev[k * s] + i * (n \div s)]]
              want == Dft(part, s, ModPow(Omega, n \div s, q))
          IN  \A i \in 0 .. s - 1 : Dec(work.a[k * s + i]) = want[i]

=============================================================================
