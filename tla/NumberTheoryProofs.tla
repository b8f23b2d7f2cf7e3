-------------------------- MODULE NumberTheoryProofs --------------------------
(***************************************************************************)
(* Facts about the numbers that the algorithms of src/common/ntt_utils.c   *)
(* are measured by, for every modulus: powers of two, modular products and *)
(* powers, Euclid's lemma, orders, Fermat's little theorem; and those that *)
(* the transforms rest on: sums, roots of unity, values of polynomials.    *)
(*                                                                         *)
(* An induction is shown with sets in the place of predicates: the         *)
(* numbers a claim fails for have a least element, or are none.            *)
(***************************************************************************)
EXTENDS NumberTheory, Integers, FiniteSetTheorems, TLAPS

\* A set of numbers that is not empty has a least element.
LEMMA LeastElement ==
  ASSUME NEW S \in SUBSET Nat, S # {}
  PROVE  \E k \in S : \A j \in S : k <= j
<1> DEFINE less == {p \in Nat \X Nat : p[1] < p[2]}
<1>1. IsWellFoundedOn(less, Nat)
  BY NatLessThanWellFounded DEF OpToRel
<1>2. PICK k \in S : \A j \in S : <<j, k>> \notin less
  BY <1>1, WFMin
<1>3. \A j \in S : ~(j < k)
  BY <1>2
<1>4. QED
  BY <1>3

\* Induction: a set that holds 0 and with each number the next holds them all.
LEMMA Induction ==
  ASSUME NEW S, 0 \in S, \A k \in Nat : k \in S => k + 1 \in S
  PROVE  Nat \subseteq S
<1> SUFFICES ASSUME NEW bad \in Nat, bad \notin S
             PROVE  FALSE
  OBVIOUS
<1>1. PICK k \in Nat \ S : \A j \in Nat \ S : k <= j
  BY LeastElement
<1>2. k # 0
  OBVIOUS
<1>3. k - 1 \in Nat
  BY <1>2
<1>4. k - 1 \in S
  BY <1>1, <1>3
<1>5. (k - 1) + 1 = k
  OBVIOUS
<1>6. QED
  BY <1>3, <1>4, <1>5

\* Induction with all smaller numbers
LEMMA StrongInduction ==
  ASSUME NEW S, \A k \in Nat : (\A j \in 0 .. k - 1 : j \in S) => k \in S
  PROVE  Nat \subseteq S
<1> SUFFICES ASSUME NEW bad \in Nat, bad \notin S
             PROVE  FALSE
  OBVIOUS
<1>1. PICK k \in Nat \ S : \A j \in Nat \ S : k <= j
  BY LeastElement
<1>2. \A j \in 0 .. k - 1 : j \in S
  BY <1>1
<1>3. QED
  BY <1>2

-----------------------------------------------------------------------------

\* Adding an element doubles the number of subsets.
LEMMA SubsetsDouble ==
  ASSUME NEW S, IsFiniteSet(S), NEW x, x \notin S
  PROVE  Cardinality(SUBSET (S \union {x})) = 2 * Cardinality(SUBSET S)
<1> DEFINE Old == SUBSET S
           New == {T \union {x} : T \in SUBSET S}
           f == [T \in Old |-> T \union {x}]
<1>1. SUBSET (S \union {x}) = Old \union New
  <2>1. ASSUME NEW T \in SUBSET (S \union {x}), x \in T
        PROVE  T \in New
    <3>1. T \ {x} \in SUBSET S /\ T = (T \ {x}) \union {x}
      BY <2>1
    <3>2. QED
      BY <3>1
  <2>2. QED
    BY <2>1
<1>2. Old \cap New = {}
  OBVIOUS
<1>3. f \in Bijection(Old, New)
  <2>1. f \in [Old -> New]
    OBVIOUS
  <2>2. \A T, U \in Old : f[T] = f[U] => T = U
    <3> SUFFICES ASSUME NEW T \in Old, NEW U \in Old, T \union {x} = U \union {x}
                 PROVE  T = U
      OBVIOUS
    <3>1. T = (T \union {x}) \ {x} /\ U = (U \union {x}) \ {x}
      OBVIOUS
    <3>2. QED
      BY <3>1
  <2>3. QED
    BY <2>1, <2>2 DEF Bijection, Injection, IsInjective, Surjection
<1>4. IsFiniteSet(Old) /\ Cardinality(Old) \in Nat
  BY FS_SUBSET, FS_CardinalityType
<1>5. IsFiniteSet(New) /\ Cardinality(New) = Cardinality(Old)
  BY <1>3, <1>4, FS_Bijection DEF ExistsBijection
<1>6. Cardinality(Old \union New) = Cardinality(Old) + Cardinality(New) - Cardinality(Old \cap New)
  BY <1>4, <1>5, FS_Union
<1>7. Cardinality(Old \cap New) = 0
  BY <1>2, FS_EmptySet
<1> HIDE DEF Old, New, f
<1>8. Cardinality(Old \union New) = 2 * Cardinality(Old)
  BY <1>4, <1>5, <1>6, <1>7
<1>9. QED
  BY <1>1, <1>8 DEF Old

\* Powers of two, which the prover knows as numbers of subsets only
LEMMA PowersOfTwo ==
  ASSUME NEW k \in Nat
  PROVE  /\ 2^k \in Nat \ {0}
         /\ 2^(k + 1) = 2 * 2^k
<1>1. ASSUME NEW j \in Nat
      PROVE  /\ IsFiniteSet(1 .. j) /\ Cardinality(1 .. j) = j
             /\ Cardinality(SUBSET (1 .. j)) = 2^j
             /\ Cardinality(SUBSET (1 .. j)) \in Nat
  <2>1. IsFiniteSet(1 .. j) /\ Cardinality(1 .. j) = j
    BY FS_Interval
  <2>2. IsFiniteSet(SUBSET (1 .. j)) /\ Cardinality(SUBSET (1 .. j)) = 2^j
    BY <2>1, FS_SUBSET
  <2>3. QED
    BY <2>1, <2>2, FS_CardinalityType
<1>2. 1 .. k + 1 = (1 .. k) \union {k + 1} /\ k + 1 \notin 1 .. k
  OBVIOUS
<1>3. 2^(k + 1) = 2 * 2^k
  <2>1. Cardinality(SUBSET (1 .. k + 1)) = 2 * Cardinality(SUBSET (1 .. k))
    BY <1>1, <1>2, SubsetsDouble
  <2>2. k + 1 \in Nat
    OBVIOUS
  <2>3. Cardinality(SUBSET (1 .. k + 1)) = 2^(k + 1)
    BY <1>1, <2>2
  <2>4. Cardinality(SUBSET (1 .. k)) = 2^k
    BY <1>1
  <2>5. QED
    BY <2>1, <2>3, <2>4
<1>4. 2^k # 0
  <2>1. {} \in SUBSET (1 .. k)
    OBVIOUS
  <2>2. IsFiniteSet(SUBSET (1 .. k))
    BY <1>1, FS_SUBSET
  <2>3. Cardinality(SUBSET (1 .. k)) # 0
    BY <2>1, <2>2, FS_EmptySet
  <2>4. QED
    BY <1>1, <2>3
<1>5. QED
  BY <1>1, <1>3, <1>4

-----------------------------------------------------------------------------

(***************************************************************************)
(* A recursion that asks for its value at one other argument, G[a], where  *)
(* a measure M is smaller, has a solution; and every solution stays in the *)
(* set V that the recursion's cases stay in.                               *)
(***************************************************************************)

\* Induction along a measure
LEMMA MeasureInduction ==
  ASSUME NEW A, NEW M \in [A -> Nat], NEW S,
         \A a \in A : (\A b \in A : M[b] < M[a] => b \in S) => a \in S
  PROVE  A \subseteq S
<1> DEFINE T == {k \in Nat : \A a \in A : M[a] = k => a \in S}
<1>1. ASSUME NEW k \in Nat, \A j \in 0 .. k - 1 : j \in T
      PROVE  k \in T
  <2> SUFFICES ASSUME NEW a \in A, M[a] = k
               PROVE  a \in S
    OBVIOUS
  <2>1. ASSUME NEW b \in A, M[b] < M[a]
        PROVE  b \in S
    <3>1. M[b] \in 0 .. k - 1
      BY <2>1
    <3>2. QED
      BY <1>1, <3>1
  <2>2. QED
    BY <2>1
<1>2. Nat \subseteq T
  <2> HIDE DEF T
  <2>1. QED
    BY <1>1, StrongInduction
<1>3. QED
  BY <1>2

\* Equations of a recursion: base cases B with the values C, else D of the
\* argument and the value at G.
Solves(f, A, B, C, D, G) ==
  f = [a \in A |-> IF a \in B THEN C[a] ELSE D[<<a, f[G[a]]>>]]

\* What a definition by recursion along a falling measure computes
LEMMA RecursionType ==
  ASSUME NEW A, NEW V, NEW B, NEW C \in [A -> V], NEW D \in [A \X V -> V],
         NEW G, NEW M \in [A -> Nat],
         \A a \in A \ B : G[a] \in A /\ M[G[a]] < M[a],
         NEW f, Solves(f, A, B, C, D, G)
  PROVE  f \in [A -> V]
<1> DEFINE S == {a \in A : f[a] \in V}
<1>1. ASSUME NEW a \in A, \A b \in A : M[b] < M[a] => b \in S
      PROVE  a \in S
  <2>1. f[a] = IF a \in B THEN C[a] ELSE D[<<a, f[G[a]]>>]
    BY DEF Solves
  <2>2. CASE a \in B
    BY <2>1, <2>2
  <2>3. CASE a \notin B
    <3>1. G[a] \in S
      BY <1>1, <2>3
    <3>2. QED
      BY <2>1, <2>3, <3>1
  <2>4. QED
    BY <2>2, <2>3
<1>2. A \subseteq S
  <2> HIDE DEF S
  <2>1. QED
    BY <1>1, MeasureInduction
<1>3. f = [a \in A |-> f[a]]
  BY DEF Solves
<1>4. QED
  BY <1>2, <1>3

\* Such a definition has a solution: the recursive functions of the model
\* are what their equations say.
LEMMA RecursionExists ==
  ASSUME NEW A, NEW V, NEW B, NEW C \in [A -> V], NEW D \in [A \X V -> V],
         NEW G, NEW M \in [A -> Nat],
         \A a \in A \ B : G[a] \in A /\ M[G[a]] < M[a]
  PROVE  \E f : Solves(f, A, B, C, D, G)
<1> DEFINE Below(k) == {a \in A : M[a] < k}
           Partial(f, k) ==
             \A a \in Below(k) :
               /\ f[a] = (IF a \in B THEN C[a] ELSE D[<<a, f[G[a]]>>])
               /\ f[a] \in V
           T == {k \in Nat : \E f \in [A -> V \union {A}] : Partial(f, k)}
\* Partial solutions agree.
<1>1. ASSUME NEW k \in Nat, NEW l \in Nat, NEW f, NEW h, Partial(f, k), Partial(h, l)
      PROVE  \A a \in Below(k) \cap Below(l) : f[a] = h[a]
  <2> DEFINE S == {a \in A : a \in Below(k) \cap Below(l) => f[a] = h[a]}
  <2>1. ASSUME NEW a \in A, \A b \in A : M[b] < M[a] => b \in S
        PROVE  a \in S
    <3> SUFFICES ASSUME a \in Below(k) \cap Below(l)
                 PROVE  f[a] = h[a]
      OBVIOUS
    <3>1. CASE a \in B
      BY <1>1, <3>1
    <3>2. CASE a \notin B
      <4>1. G[a] \in A /\ M[G[a]] < M[a] /\ M[G[a]] \in Nat /\ M[a] \in Nat
        BY <3>2
      <4>2. G[a] \in Below(k) \cap Below(l)
        BY <4>1
      <4>3. f[G[a]] = h[G[a]]
        BY <2>1, <4>1, <4>2
      <4>4. QED
        BY <1>1, <3>2, <4>3
    <3>3. QED
      BY <3>1, <3>2
  <2>2. A \subseteq S
    <3> HIDE DEF S
    <3>1. QED
      BY <2>1, MeasureInduction
  <2>3. QED
    BY <2>2
\* They reach as far as one likes.
<1>2. 0 \in T
  <2> DEFINE f == [a \in A |-> A]
  <2>1. f \in [A -> V \union {A}] /\ Partial(f, 0)
    OBVIOUS
  <2>2. QED
    BY <2>1
<1>3. ASSUME NEW k \in Nat, k \in T
      PROVE  k + 1 \in T
  <2>1. PICK f \in [A -> V \union {A}] : Partial(f, k)
    BY <1>3
  <2> DEFINE h == [a \in A |-> IF a \in Below(k + 1)
                                 THEN IF a \in B THEN C[a] ELSE D[<<a, f[G[a]]>>]
                                 ELSE A]
  <2>2. ASSUME NEW a \in Below(k + 1), a \notin B
        PROVE  G[a] \in Below(k) /\ f[G[a]] \in V
    <3>1. G[a] \in A /\ M[G[a]] < M[a] /\ M[G[a]] \in Nat /\ M[a] \in Nat
      BY <2>2
    <3>2. G[a] \in Below(k)
      BY <2>2, <3>1
    <3>3. f[G[a]] \in V
      BY <2>1, <3>2
    <3>4. QED
      BY <3>2, <3>3
  <2>3. \A a \in Below(k + 1) : h[a] \in V
    BY <2>2
  <2>4. \A a \in Below(k) : h[a] = f[a]
    BY <2>1
  <2>5. ASSUME NEW a \in Below(k + 1)
        PROVE  h[a] = IF a \in B THEN C[a] ELSE D[<<a, h[G[a]]>>]
    <3>1. CASE a \in B
      BY <3>1
    <3>2. CASE a \notin B
      <4>1. h[a] = D[<<a, f[G[a]]>>]
        BY <3>2
      <4>2. h[G[a]] = f[G[a]]
        BY <2>2, <2>4, <3>2
      <4>3. QED
        BY <3>2, <4>1, <4>2
    <3>3. QED
      BY <3>1, <3>2
  <2>6. h \in [A -> V \union {A}] /\ Partial(h, k + 1)
    BY <2>3, <2>5
  <2> HIDE DEF h, Partial, Below
  <2>7. QED
    BY <2>6
<1>4. \A k \in Nat : k \in T
  <2> HIDE DEF T
  <2>1. QED
    BY <1>2, <1>3, Induction
\* Put together they solve the equations.
<1> DEFINE part(k) == CHOOSE f \in [A -> V \union {A}] : Partial(f, k)
           whole == [a \in A |-> part(M[a] + 1)[a]]
<1>5. \A k \in Nat : Partial(part(k), k)
  BY <1>4
<1>6. ASSUME NEW a \in A
      PROVE  whole[a] = IF a \in B THEN C[a] ELSE D[<<a, whole[G[a]]>>]
  <2>1. M[a] + 1 \in Nat /\ a \in Below(M[a] + 1)
    OBVIOUS
  <2>2. whole[a] = part(M[a] + 1)[a] /\ \A b \in A : whole[b] = part(M[b] + 1)[b]
    OBVIOUS
  <2> HIDE DEF part, whole
  <2>3. whole[a] = IF a \in B THEN C[a] ELSE D[<<a, part(M[a] + 1)[G[a]]>>]
    BY <1>5, <2>1, <2>2
  <2>4. ASSUME a \notin B
        PROVE  part(M[a] + 1)[G[a]] = whole[G[a]]
    <3>1. G[a] \in A /\ M[G[a]] < M[a] /\ M[G[a]] \in Nat /\ M[a] \in Nat
      BY <2>4
    <3>2. M[G[a]] + 1 \in Nat /\ G[a] \in Below(M[G[a]] + 1) \cap Below(M[a] + 1)
      BY <3>1
    <3> HIDE DEF Below, Partial
    <3>3. part(M[a] + 1)[G[a]] = part(M[G[a]] + 1)[G[a]]
      BY <1>1, <1>5, <2>1, <3>2
    <3>4. QED
      BY <2>2, <3>1, <3>3
  <2>5. QED
    BY <2>3, <2>4
<1>7. Solves(whole, A, B, C, D, G)
  <2>1. whole = [a \in A |-> whole[a]]
    OBVIOUS
  <2> HIDE DEF whole
  <2>2. QED
    BY <1>6, <2>1 DEF Solves
<1>8. QED
  BY <1>7

-----------------------------------------------------------------------------

\* Quotient and remainder
LEMMA DivMod ==
  ASSUME NEW a \in Nat, NEW q \in Nat \ {0}
  PROVE  /\ a \div q \in Nat /\ a % q \in 0 .. q - 1
         /\ a = (a \div q) * q + (a % q)
OBVIOUS

\* They are unique.
LEMMA ModUnique ==
  ASSUME NEW q \in Nat \ {0}, NEW k \in Nat, NEW r \in 0 .. q - 1,
         NEW a \in Nat, a = k * q + r
  PROVE  a % q = r /\ a \div q = k
<1> DEFINE d == a \div q
           e == a % q
<1>1. d \in Nat /\ e \in 0 .. q - 1 /\ a = d * q + e
  BY DivMod
<1> HIDE DEF d, e
<1>2. ASSUME d > k
      PROVE  FALSE
  <2>1. d * q >= (k + 1) * q
    BY <1>1, <1>2
  <2>2. QED
    BY <1>1, <2>1
<1>3. ASSUME d < k
      PROVE  FALSE
  <2>1. k * q >= (d + 1) * q
    BY <1>1, <1>3
  <2>2. QED
    BY <1>1, <2>1
<1>4. d = k
  BY <1>1, <1>2, <1>3
<1>5. QED
  BY <1>1, <1>4 DEF d, e

\* Multiples of q do not count.
LEMMA ModAdd ==
  ASSUME NEW q \in Nat \ {0}, NEW k \in Nat, NEW a \in Nat
  PROVE  (k * q + a) % q = a % q
<1> DEFINE d == a \div q
           e == a % q
<1>1. d \in Nat /\ e \in 0 .. q - 1 /\ a = d * q + e
  BY DivMod
<1> HIDE DEF d, e
<1>2. k * q \in Nat
  OBVIOUS
<1> DEFINE sum == k * q + a
<1>3. sum \in Nat /\ k + d \in Nat
  BY <1>1, <1>2
<1>4. sum = (k + d) * q + e
  BY <1>1
<1> HIDE DEF sum
<1>5. sum % q = e
  BY <1>1, <1>3, <1>4, ModUnique
<1>6. QED
  BY <1>5 DEF sum, e

\* A factor may be reduced first.
LEMMA ModMul ==
  ASSUME NEW q \in Nat \ {0}, NEW a \in Nat, NEW b \in Nat
  PROVE  /\ ((a % q) * b) % q = (a * b) % q
         /\ (b * (a % q)) % q = (b * a) % q
<1> DEFINE d == a \div q
           e == a % q
<1>1. d \in Nat /\ e \in 0 .. q - 1 /\ a = d * q + e
  BY DivMod
<1> HIDE DEF d, e
<1>2. d * b \in Nat /\ e * b \in Nat
  BY <1>1
<1>3. a * b = (d * b) * q + e * b /\ e * b = b * e /\ a * b = b * a
  BY <1>1
<1>4. (a * b) % q = (e * b) % q
  <2> DEFINE k == d * b
             c == e * b
  <2>1. k \in Nat /\ c \in Nat /\ a * b = k * q + c
    BY <1>2, <1>3
  <2> HIDE DEF k, c
  <2>2. (a * b) % q = c % q
    BY <2>1, ModAdd
  <2>3. QED
    BY <2>2 DEF c
<1>5. QED
  BY <1>3, <1>4 DEF e

\* Both factors
LEMMA ModMulBoth ==
  ASSUME NEW q \in Nat \ {0}, NEW a \in Nat, NEW b \in Nat
  PROVE  ((a % q) * (b % q)) % q = (a * b) % q
<1>1. a % q \in Nat /\ b % q \in Nat
  BY DivMod
<1>2. ((a % q) * (b % q)) % q = ((a % q) * b) % q
  BY <1>1, ModMul
<1>3. QED
  BY <1>2, ModMul

\* Reducing twice
LEMMA ModIdempotent ==
  ASSUME NEW q \in Nat \ {0}, NEW a \in Nat
  PROVE  a % q \in 0 .. q - 1 /\ (a % q) % q = a % q
OBVIOUS

-----------------------------------------------------------------------------

SolvesNat(f, c, D) == f = [k \in Nat |-> IF k = 0 THEN c ELSE D[<<k, f[k - 1]>>]]

\* Primitive recursion
LEMMA NatRecursion ==
  ASSUME NEW V, NEW c \in V, NEW D \in [Nat \X V -> V]
  PROVE  \E f \in [Nat -> V] : SolvesNat(f, c, D)
<1> DEFINE B == {0}
           C == [k \in Nat |-> c]
           G == [k \in Nat |-> k - 1]
           M == [k \in Nat |-> k]
<1>1. \A k \in Nat \ B : G[k] \in Nat /\ M[G[k]] < M[k]
  OBVIOUS
<1>2. C \in [Nat -> V] /\ M \in [Nat -> Nat]
  OBVIOUS
<1>3. \A k \in Nat : G[k] = k - 1 /\ C[k] = c /\ (k \in B <=> k = 0)
  OBVIOUS
<1> HIDE DEF B, C, G, M
<1>4. PICK f : Solves(f, Nat, B, C, D, G)
  BY <1>1, <1>2, RecursionExists
<1>5. f \in [Nat -> V]
  BY <1>1, <1>2, <1>4, RecursionType
<1>6. SolvesNat(f, c, D)
  BY <1>3, <1>4 DEF Solves, SolvesNat
<1>7. QED
  BY <1>5, <1>6

\* b to the power of e
Pow(b, e) == LET p[k \in Nat] == IF k = 0 THEN 1 ELSE b * p[k - 1] IN p[e]

\* The equations of Pow
LEMMA PowStep ==
  ASSUME NEW b \in Nat
  PROVE  /\ Pow(b, 0) = 1
         /\ \A e \in Nat : Pow(b, e) \in Nat /\ Pow(b, e + 1) = b * Pow(b, e)
<1> DEFINE D == [a \in Nat \X Nat |-> b * a[2]]
           p == CHOOSE f : f = [k \in Nat |-> IF k = 0 THEN 1 ELSE b * f[k - 1]]
<1>1. D \in [Nat \X Nat -> Nat]
  OBVIOUS
<1>2. PICK f \in [Nat -> Nat] : SolvesNat(f, 1, D)
  <2> HIDE DEF D
  <2>1. QED
    BY <1>1, NatRecursion
<1>3. \A k \in Nat : k # 0 => D[<<k, f[k - 1]>>] = b * f[k - 1]
  BY <1>2
<1>4. f = [k \in Nat |-> IF k = 0 THEN 1 ELSE b * f[k - 1]]
  <2> HIDE DEF D
  <2>1. QED
    BY <1>2, <1>3 DEF SolvesNat
<1>5. p = [k \in Nat |-> IF k = 0 THEN 1 ELSE b * p[k - 1]]
  BY <1>4
<1>6. \A e : Pow(b, e) = p[e]
  BY DEF Pow
<1> HIDE DEF p, D
<1> DEFINE S == {k \in Nat : p[k] \in Nat}
<1>7. Nat \subseteq S
  <2>1. 0 \in S
    BY <1>5
  <2>2. ASSUME NEW k \in Nat, k \in S
        PROVE  k + 1 \in S
    <3>1. p[k + 1] = b * p[k]
      BY <1>5
    <3>2. QED
      BY <2>2, <3>1
  <2> HIDE DEF S
  <2>3. QED
    BY <2>1, <2>2, Induction
<1>8. ASSUME NEW e \in Nat
      PROVE  p[e + 1] = b * p[e]
  BY <1>5
<1>9. p[0] = 1
  BY <1>5
<1>10. QED
  BY <1>6, <1>7, <1>8, <1>9

\* Its type
LEMMA PowNat ==
  ASSUME NEW b \in Nat, NEW e \in Nat
  PROVE  Pow(b, e) \in Nat
BY PowStep

\* Laws of exponents: a sum,
LEMMA PowSum ==
  ASSUME NEW b \in Nat, NEW e \in Nat, NEW f \in Nat
  PROVE  Pow(b, e + f) = Pow(b, e) * Pow(b, f)
<1> DEFINE S == {k \in Nat : Pow(b, e + k) = Pow(b, e) * Pow(b, k)}
<1>1. 0 \in S
  BY PowStep
<1>2. ASSUME NEW k \in Nat, k \in S
      PROVE  k + 1 \in S
  <2>1. Pow(b, e + (k + 1)) = b * Pow(b, e + k)
    <3>1. e + (k + 1) = (e + k) + 1 /\ e + k \in Nat
      OBVIOUS
    <3>2. QED
      BY <3>1, PowStep
  <2>2. Pow(b, k + 1) = b * Pow(b, k)
    BY PowStep
  <2>3. Pow(b, e) \in Nat /\ Pow(b, k) \in Nat
    BY PowStep
  <2>4. QED
    BY <1>2, <2>1, <2>2, <2>3
<1>3. Nat \subseteq S
  <2> HIDE DEF S
  <2>1. QED
    BY <1>1, <1>2, Induction
<1>4. QED
  BY <1>3

\* a power of a product
LEMMA PowOfProduct ==
  ASSUME NEW a \in Nat, NEW b \in Nat, NEW e \in Nat
  PROVE  Pow(a * b, e) = Pow(a, e) * Pow(b, e)
<1> DEFINE S == {k \in Nat : Pow(a * b, k) = Pow(a, k) * Pow(b, k)}
<1>1. 0 \in S
  BY PowStep
<1>2. ASSUME NEW k \in Nat, k \in S
      PROVE  k + 1 \in S
  <2>1. Pow(a * b, k + 1) = (a * b) * Pow(a * b, k)
    BY PowStep
  <2>2. Pow(a, k + 1) = a * Pow(a, k) /\ Pow(b, k + 1) = b * Pow(b, k)
    BY PowStep
  <2>3. Pow(a, k) \in Nat /\ Pow(b, k) \in Nat
    BY PowStep
  <2>4. QED
    BY <1>2, <2>1, <2>2, <2>3
<1>3. Nat \subseteq S
  <2> HIDE DEF S
  <2>1. QED
    BY <1>1, <1>2, Induction
<1>4. QED
  BY <1>3

\* and a power of a power.
LEMMA PowOfPow ==
  ASSUME NEW b \in Nat, NEW e \in Nat, NEW f \in Nat
  PROVE  Pow(Pow(b, e), f) = Pow(b, e * f)
<1> DEFINE S == {k \in Nat : Pow(Pow(b, e), k) = Pow(b, e * k)}
<1>1. 0 \in S
  BY PowStep
<1>2. ASSUME NEW k \in Nat, k \in S
      PROVE  k + 1 \in S
  <2>1. Pow(Pow(b, e), k + 1) = Pow(b, e) * Pow(Pow(b, e), k)
    BY PowStep
  <2>2. Pow(b, e + e * k) = Pow(b, e) * Pow(b, e * k)
    BY PowSum
  <2>3. e * (k + 1) = e + e * k
    OBVIOUS
  <2>4. QED
    BY <1>2, <2>1, <2>2, <2>3
<1>3. Nat \subseteq S
  <2> HIDE DEF S
  <2>1. QED
    BY <1>1, <1>2, Induction
<1>4. QED
  BY <1>3

\* Powers of residues
LEMMA PowMod ==
  ASSUME NEW q \in Nat \ {0}, NEW b \in Nat, NEW e \in Nat
  PROVE  Pow(b % q, e) % q = Pow(b, e) % q
<1> DEFINE S == {k \in Nat : Pow(b % q, k) % q = Pow(b, k) % q}
<1>1. b % q \in Nat
  BY DivMod
<1>2. 0 \in S
  BY <1>1, PowStep
<1>3. ASSUME NEW k \in Nat, k \in S
      PROVE  k + 1 \in S
  <2> DEFINE x == Pow(b % q, k)
             y == Pow(b, k)
  <2>1. x \in Nat /\ y \in Nat
    BY <1>1, PowStep
  <2>2. Pow(b % q, k + 1) = (b % q) * x /\ Pow(b, k + 1) = b * y
    BY <1>1, PowStep
  <2>3. x % q = y % q
    BY <1>3
  <2> HIDE DEF x, y
  <2>4. ((b % q) * x) % q = ((b % q) * (x % q)) % q
    BY <1>1, <2>1, ModMul
  <2>5. ((b % q) * (y % q)) % q = (b * y) % q
    BY <2>1, ModMulBoth
  <2>6. QED
    BY <2>2, <2>3, <2>4, <2>5
<1>4. Nat \subseteq S
  <2> HIDE DEF S
  <2>1. QED
    BY <1>2, <1>3, Induction
<1>5. QED
  BY <1>4

-----------------------------------------------------------------------------

\* A product modulo q is a residue.
LEMMA MulModType ==
  ASSUME NEW q \in Nat \ {0}, NEW a \in Nat, NEW b \in Nat
  PROVE  MulMod(a, b, q) \in 0 .. q - 1
<1> DEFINE c == a * b
<1>1. c \in Nat
  OBVIOUS
<1> HIDE DEF c
<1>2. c % q \in 0 .. q - 1
  BY <1>1, DivMod
<1>3. QED
  BY <1>2 DEF MulMod, c

\* The equation of the loop of modpow
IsPowLoop(f, q) ==
  f = [s \in Nat \X Nat \X Nat |->
        IF s[3] = 0 THEN s[1]
        ELSE f[<<IF s[3] % 2 = 1 THEN MulMod(s[1], s[2], q) ELSE s[1],
                 MulMod(s[2], s[2], q), s[3] \div 2>>]]

\* One round of the loop
LEMMA PowLoopStep ==
  ASSUME NEW q, NEW f, IsPowLoop(f, q), NEW x \in Nat, NEW y \in Nat, NEW k \in Nat
  PROVE  /\ k = 0 => f[<<x, y, k>>] = x
         /\ k # 0 => f[<<x, y, k>>] =
              f[<<IF k % 2 = 1 THEN MulMod(x, y, q) ELSE x, MulMod(y, y, q), k \div 2>>]
<1> DEFINE s == <<x, y, k>>
<1>1. s \in Nat \X Nat \X Nat /\ s[1] = x /\ s[2] = y /\ s[3] = k
  OBVIOUS
<1> HIDE DEF s
<1>2. f[s] = IF k = 0 THEN x
             ELSE f[<<IF k % 2 = 1 THEN MulMod(x, y, q) ELSE x, MulMod(y, y, q), k \div 2>>]
  BY <1>1 DEF IsPowLoop
<1>3. QED
  BY <1>2 DEF s

\* The loop of modpow: from the product so far, the base and the exponent to
\* the power.
LEMMA ModPowLoop ==
  ASSUME NEW q \in Nat \ {0}, NEW f, IsPowLoop(f, q),
         NEW r \in 0 .. q - 1, NEW b \in Nat, NEW e \in Nat
  PROVE  f[<<r, b, e>>] = (r * Pow(b, e)) % q
<1> DEFINE A == (0 .. q - 1) \X Nat \X Nat
           M == [s \in A |-> s[3]]
           S == {s \in A : f[s] = (s[1] * Pow(s[2], s[3])) % q}
<1>1. ASSUME NEW s \in A, \A t \in A : M[t] < M[s] => t \in S
      PROVE  s \in S
  <2>1. PICK x \in 0 .. q - 1, y \in Nat, k \in Nat : s = <<x, y, k>>
    OBVIOUS
  <2>2. CASE k = 0
    <3>1. x \in Nat
      OBVIOUS
    <3>2. f[s] = x
      <4>1. s \in Nat \X Nat \X Nat /\ s[1] = x /\ s[3] = 0
        BY <2>1, <2>2
      <4>2. QED
        BY <4>1 DEF IsPowLoop
    <3>3. Pow(y, k) = 1
      BY <2>2, PowStep
    <3>4. (x * 1) % q = x
      OBVIOUS
    <3>5. QED
      BY <2>1, <3>2, <3>3, <3>4
  <2>3. CASE k # 0
    <3> DEFINE x1 == IF k % 2 = 1 THEN MulMod(x, y, q) ELSE x
               y1 == MulMod(y, y, q)
               h == k \div 2
    <3>1. x1 \in 0 .. q - 1 /\ y1 \in Nat
      <4>1. x \in Nat
        OBVIOUS
      <4>2. MulMod(x, y, q) \in 0 .. q - 1 /\ MulMod(y, y, q) \in 0 .. q - 1
        BY <4>1, MulModType, Zenon
      <4>3. QED
        BY <4>2
    <3>2. h \in Nat /\ h < k /\ k = 2 * h + (k % 2) /\ k % 2 \in {0, 1}
      BY <2>3
    <3>3. f[s] = f[<<x1, y1, h>>]
      <4>1. x \in Nat
        OBVIOUS
      <4>2. QED
        BY <2>1, <2>3, <4>1, PowLoopStep
    <3>4. f[<<x1, y1, h>>] = (x1 * Pow(y1, h)) % q
      <4>1. <<x1, y1, h>> \in A /\ M[<<x1, y1, h>>] < M[s]
        BY <2>1, <3>1, <3>2
      <4>2. QED
        BY <1>1, <4>1
    <3> HIDE DEF h
    <3>5. Pow(y * y, h) \in Nat /\ Pow(y, h) \in Nat /\ Pow(y, 2 * h) \in Nat
      <4>1. y * y \in Nat /\ 2 * h \in Nat
        BY <3>2
      <4>2. QED
        BY <3>2, <4>1, PowNat
    <3>6. Pow(y * y, h) = Pow(y, 2 * h)
      <4>1. Pow(y, h + h) = Pow(y, h) * Pow(y, h)
        BY <3>2, PowSum
      <4>2. Pow(y * y, h) = Pow(y, h) * Pow(y, h)
        BY <3>2, PowOfProduct
      <4>3. QED
        BY <3>2, <4>1, <4>2
    <3>7. (x1 * Pow(y1, h)) % q = (x1 * Pow(y, 2 * h)) % q
      <4>1. Pow(y1, h) % q = Pow(y * y, h) % q
        <5>1. y * y \in Nat
          OBVIOUS
        <5>2. Pow((y * y) % q, h) % q = Pow(y * y, h) % q
          BY <3>2, <5>1, PowMod
        <5>3. QED
          BY <5>2 DEF MulMod
      <4>2. Pow(y1, h) \in Nat
        BY <3>1, <3>2, PowStep
      <4> HIDE DEF x1, y1
      <4>3. (x1 * Pow(y1, h)) % q = (x1 * (Pow(y1, h) % q)) % q
        BY <3>1, <4>2, ModMul
      <4>4. (x1 * (Pow(y * y, h) % q)) % q = (x1 * Pow(y * y, h)) % q
        BY <3>1, <3>5, ModMul
      <4>5. QED
        BY <3>6, <4>1, <4>3, <4>4
    <3>8. (x1 * Pow(y, 2 * h)) % q = (x * Pow(y, k)) % q
      <4> DEFINE z == Pow(y, 2 * h)
      <4>1. CASE k % 2 = 0
        BY <3>2, <4>1
      <4>2. CASE k % 2 = 1
        <5>1. Pow(y, k) = y * z
          <6>1. k = 2 * h + 1 /\ 2 * h \in Nat
            BY <3>2, <4>2
          <6>2. QED
            BY <6>1, PowStep
        <5>2. z \in Nat
          BY <3>5
        <5> HIDE DEF z
        <5>3. x * y \in Nat /\ (x * y) * z = x * (y * z)
          BY <5>2
        <5>4. (((x * y) % q) * z) % q = ((x * y) * z) % q
          BY <5>2, <5>3, ModMul
        <5>5. (x1 * z) % q = (x * Pow(y, k)) % q
          BY <4>2, <5>1, <5>3, <5>4 DEF MulMod
        <5>6. QED
          BY <5>5 DEF z
      <4>3. QED
        BY <3>2, <4>1, <4>2
    <3>9. QED
      BY <2>1, <3>3, <3>4, <3>7, <3>8
  <2>4. QED
    BY <2>2, <2>3
<1>2. A \subseteq S
  <2>1. M \in [A -> Nat]
    OBVIOUS
  <2> HIDE DEF A, M, S
  <2>2. QED
    BY <1>1, <2>1, MeasureInduction
<1>3. <<r, b, e>> \in A
  OBVIOUS
<1>4. QED
  BY <1>2, <1>3

\* Such a loop is defined.
LEMMA PowLoopExists ==
  ASSUME NEW q \in Nat \ {0, 1}
  PROVE  \E f : IsPowLoop(f, q)
<1> DEFINE A == Nat \X Nat \X Nat
           B == {s \in A : s[3] = 0}
           C == [s \in A |-> s[1]]
           G == [s \in A |-> <<IF s[3] % 2 = 1 THEN MulMod(s[1], s[2], q) ELSE s[1],
                              MulMod(s[2], s[2], q), s[3] \div 2>>]
           D == [t \in A \X Nat |-> t[2]]
           M == [s \in A |-> s[3]]
<1>1. C \in [A -> Nat] /\ D \in [A \X Nat -> Nat] /\ M \in [A -> Nat]
  OBVIOUS
<1>2. \A s \in A \ B : G[s] \in A /\ M[G[s]] < M[s]
  <2> SUFFICES ASSUME NEW s \in A \ B
               PROVE  G[s] \in A /\ M[G[s]] < M[s]
    OBVIOUS
  <2>1. s[1] \in Nat /\ s[2] \in Nat /\ s[3] \in Nat /\ s[3] # 0
    OBVIOUS
  <2>2. ASSUME NEW x \in Nat, NEW y \in Nat
        PROVE  MulMod(x, y, q) \in Nat
    <3>1. q \in Nat \ {0}
      OBVIOUS
    <3>2. MulMod(x, y, q) \in 0 .. q - 1
      BY <3>1, MulModType, Zenon
    <3>3. QED
      BY <3>1, <3>2
  <2>3. s[3] \div 2 \in Nat /\ s[3] \div 2 < s[3]
    BY <2>1
  <2>4. G[s] \in A
    BY <2>1, <2>2, <2>3
  <2>5. QED
    BY <2>3, <2>4
<1>3. PICK f : Solves(f, A, B, C, D, G)
  <2> HIDE DEF A, B, C, D, G, M
  <2>1. QED
    BY <1>1, <1>2, RecursionExists
<1>4. f \in [A -> Nat]
  <2> HIDE DEF A, B, C, D, G, M
  <2>1. QED
    BY <1>1, <1>2, <1>3, RecursionType
<1>5. \A s \in A : f[s] = IF s[3] = 0 THEN s[1] ELSE f[G[s]]
  <2> SUFFICES ASSUME NEW s \in A
               PROVE  f[s] = IF s[3] = 0 THEN s[1] ELSE f[G[s]]
    OBVIOUS
  <2>1. f[s] = IF s \in B THEN C[s] ELSE D[<<s, f[G[s]]>>]
    BY <1>3 DEF Solves
  <2>2. CASE s \in B
    BY <2>1, <2>2
  <2>3. CASE s \notin B
    <3>1. <<s, f[G[s]]>> \in A \X Nat
      BY <1>2, <1>4, <2>3
    <3>2. D[<<s, f[G[s]]>>] = f[G[s]]
      <4> HIDE DEF A, G
      <4>1. QED
        BY <3>1
    <3>3. QED
      BY <2>1, <2>3, <3>2
  <2>4. QED
    BY <2>2, <2>3
<1>6. f = [s \in A |->
            IF s[3] = 0 THEN s[1]
            ELSE f[<<IF s[3] % 2 = 1 THEN MulMod(s[1], s[2], q) ELSE s[1],
                     MulMod(s[2], s[2], q), s[3] \div 2>>]]
  BY <1>4, <1>5
<1>7. QED
  BY <1>6 DEF IsPowLoop

\* modpow computes powers.
LEMMA ModPowIs ==
  ASSUME NEW q \in Nat \ {0, 1}, NEW b \in Nat, NEW e \in Nat
  PROVE  ModPow(b, e, q) = Pow(b, e) % q
<1> DEFINE loop == CHOOSE f : f = [s \in Nat \X Nat \X Nat |->
               IF s[3] = 0 THEN s[1]
               ELSE f[<<IF s[3] % 2 = 1 THEN MulMod(s[1], s[2], q) ELSE s[1],
                        MulMod(s[2], s[2], q), s[3] \div 2>>]]
<1>1. ModPow(b, e, q) = loop[<<1, b % q, e>>]
  BY DEF ModPow
<1>2. IsPowLoop(loop, q)
  BY PowLoopExists DEF IsPowLoop
<1> HIDE DEF loop
<1>3. loop[<<1, b % q, e>>] = (1 * Pow(b % q, e)) % q
  <2>1. 1 \in 0 .. q - 1 /\ b % q \in Nat
    BY DivMod
  <2>2. QED
    BY <1>2, <2>1, ModPowLoop
<1>4. Pow(b % q, e) \in Nat
  BY DivMod, PowStep
<1>5. QED
  BY <1>1, <1>3, <1>4, PowMod

-----------------------------------------------------------------------------

\* Divisibility
LEMMA Multiple ==
  ASSUME NEW d \in Nat \ {0}, NEW a \in Nat
  PROVE  a % d = 0 <=> \E k \in Nat : a = k * d
<1>1. ASSUME a % d = 0
      PROVE  \E k \in Nat : a = k * d
  <2> DEFINE k == a \div d
             r == a % d
  <2>1. k \in Nat /\ r \in 0 .. d - 1 /\ a = k * d + r
    BY DivMod
  <2>2. r = 0
    BY <1>1
  <2> HIDE DEF k, r
  <2>3. QED
    BY <2>1, <2>2
<1>2. ASSUME NEW k \in Nat, a = k * d
      PROVE  a % d = 0
  <2>1. a = k * d + 0 /\ 0 \in 0 .. d - 1
    BY <1>2
  <2>2. QED
    BY <2>1, ModUnique
<1>3. QED
  BY <1>1, <1>2

\* Equal residues and the difference
LEMMA ModDifference ==
  ASSUME NEW q \in Nat \ {0}, NEW x \in Nat, NEW y \in Nat, y <= x
  PROVE  x % q = y % q <=> (x - y) % q = 0
<1>1. x - y \in Nat
  OBVIOUS
<1>2. ASSUME x % q = y % q
      PROVE  (x - y) % q = 0
  <2> DEFINE d == x \div q
             e == y \div q
             r == x % q
  <2>1. d \in Nat /\ e \in Nat /\ r \in Nat /\ x = d * q + r /\ y = e * q + r
    <3>1. d \in Nat /\ r \in Nat /\ x = d * q + r
      BY DivMod
    <3>2. e \in Nat /\ y = e * q + (y % q)
      BY DivMod
    <3>3. QED
      BY <1>2, <3>1, <3>2
  <2> HIDE DEF d, e, r
  <2>2. x - y = (d - e) * q
    BY <2>1
  <2>3. d - e \in Nat
    <3>1. ASSUME d < e
          PROVE  FALSE
      <4>1. (d + 1) * q <= e * q
        BY <2>1, <3>1
      <4>2. QED
        BY <2>1, <4>1
    <3>2. QED
      BY <2>1, <3>1
  <2>4. QED
    BY <1>1, <2>2, <2>3, Multiple
<1>3. ASSUME (x - y) % q = 0
      PROVE  x % q = y % q
  <2>1. PICK k \in Nat : x - y = k * q
    BY <1>1, <1>3, Multiple
  <2>2. x = k * q + y
    BY <2>1
  <2>3. QED
    BY <2>2, ModAdd
<1>4. QED
  BY <1>2, <1>3

\* A prime is divided by 1 and itself only.
LEMMA PrimeDivisors ==
  ASSUME NEW p \in Nat, Prime(p), NEW d \in Nat \ {0}, p % d = 0
  PROVE  d \in {1, p}
<1>1. PICK k \in Nat : p = k * d
  BY Multiple
<1>2. p > 1
  BY DEF Prime
<1> SUFFICES ASSUME d \notin {1, p}
             PROVE  FALSE
  OBVIOUS
<1>3. k # 0 /\ k # 1
  BY <1>1, <1>2
<1>4. 2 * d <= p
  <2>1. 2 * d <= k * d
    BY <1>3
  <2>2. QED
    BY <1>1, <2>1
<1>5. d \in 2 .. p \div 2
  BY <1>2, <1>4
<1>6. QED
  BY <1>5 DEF Prime, Divides

\* Euclid's lemma
LEMMA EuclidsLemma ==
  ASSUME NEW p \in Nat, Prime(p), NEW a \in Nat, NEW b \in Nat, (a * b) % p = 0
  PROVE  a % p = 0 \/ b % p = 0
<1> SUFFICES ASSUME a % p # 0
             PROVE  b % p = 0
  OBVIOUS
<1>1. p \in Nat \ {0, 1}
  BY DEF Prime
<1> DEFINE S == {s \in Nat \ {0} : \E m \in Nat : s * b = m * p}
<1>2. p \in S
  BY <1>1
<1>3. a \in S
  <2>1. a # 0
    BY <1>1
  <2>2. \E m \in Nat : a * b = m * p
    BY <1>1, Multiple
  <2>3. QED
    BY <2>1, <2>2
<1>4. PICK d \in S : \A s \in S : d <= s
  <2>1. S \in SUBSET Nat /\ S # {}
    BY <1>2
  <2> HIDE DEF S
  <2>2. QED
    BY <2>1, LeastElement
<1>5. PICK m \in Nat : d * b = m * p
  BY <1>4
<1>6. d \in Nat \ {0}
  BY <1>4
<1>7. ASSUME NEW s \in S
      PROVE  s % d = 0
  <2>1. PICK l \in Nat : s * b = l * p
    BY <1>7
  <2> DEFINE k == s \div d
             r == s % d
  <2>2. k \in Nat /\ r \in 0 .. d - 1 /\ s = k * d + r
    BY <1>6, <1>7, DivMod
  <2> HIDE DEF k, r
  <2>3. r * b = (l - k * m) * p
    <3>1. s * b = k * (d * b) + r * b
      BY <1>6, <2>2
    <3>2. r * b = l * p - k * (m * p)
      BY <1>5, <2>1, <2>2, <3>1
    <3>3. k * (m * p) = (k * m) * p
      BY <1>1, <2>2
    <3>4. QED
      BY <1>1, <2>2, <3>2, <3>3
  <2>4. l - k * m \in Nat
    <3> DEFINE n == l - k * m
    <3>1. n \in Int /\ r * b = n * p
      BY <2>2, <2>3
    <3>2. r * b >= 0
      BY <2>2
    <3> HIDE DEF n
    <3>3. n >= 0
      BY <1>1, <3>1, <3>2
    <3>4. QED
      BY <3>1, <3>3 DEF n
  <2>5. ASSUME r # 0
        PROVE  FALSE
    <3>1. r \in Nat \ {0} /\ ~(d <= r)
      BY <1>6, <2>2, <2>5
    <3>2. \E n \in Nat : r * b = n * p
      BY <2>3, <2>4
    <3>3. r \in S
      BY <3>1, <3>2
    <3>4. QED
      BY <1>4, <3>1, <3>3
  <2>6. QED
    BY <2>5 DEF r
<1>8. d \in {1, p}
  <2>1. p % d = 0
    BY <1>2, <1>7
  <2>2. QED
    BY <1>6, <2>1, PrimeDivisors
<1>9. d # p
  BY <1>3, <1>7
<1>10. b = m * p
  BY <1>5, <1>8, <1>9
<1>11. QED
  BY <1>1, <1>10, Multiple

\* Square roots of one modulo a prime
LEMMA RootsOfOne ==
  ASSUME NEW p \in Nat, Prime(p), NEW x \in 0 .. p - 1, (x * x) % p = 1
  PROVE  x \in {1, p - 1}
<1>1. p \in Nat \ {0, 1}
  BY DEF Prime
<1>2. x # 0
  BY <1>1
<1>3. ((x - 1) * (x + 1)) % p = 0
  <2> DEFINE y == x * x
  <2>1. y \in Nat /\ y >= 1
    BY <1>2
  <2>2. (x - 1) * (x + 1) = y - 1
    OBVIOUS
  <2>3. 1 % p = 1
    BY <1>1
  <2>4. y % p = 1
    OBVIOUS
  <2> HIDE DEF y
  <2>5. (y - 1) % p = 0
    <3>1. p \in Nat \ {0} /\ 1 \in Nat /\ 1 <= y
      BY <1>1, <2>1
    <3>2. y % p = 1 % p <=> (y - 1) % p = 0
      BY <2>1, <3>1, ModDifference, Zenon
    <3>3. QED
      BY <2>3, <2>4, <3>2
  <2>6. QED
    BY <2>2, <2>5
<1>4. x - 1 \in Nat /\ x + 1 \in Nat
  BY <1>2
<1>5. (x - 1) % p = 0 \/ (x + 1) % p = 0
  BY <1>3, <1>4, EuclidsLemma
<1>6. CASE (x - 1) % p = 0
  BY <1>1, <1>2, <1>6
<1>7. CASE (x + 1) % p = 0
  BY <1>1, <1>7
<1>8. QED
  BY <1>5, <1>6, <1>7

\* A factor that the prime does not divide cancels.
LEMMA Cancel ==
  ASSUME NEW p \in Nat, Prime(p), NEW a \in Nat, a % p # 0,
         NEW x \in Nat, NEW y \in Nat, MulMod(a, x, p) = MulMod(a, y, p)
  PROVE  x % p = y % p
<1>1. p \in Nat \ {0}
  BY DEF Prime
<1>2. ASSUME NEW u \in Nat, NEW v \in Nat, v <= u, (a * u) % p = (a * v) % p
      PROVE  u % p = v % p
  <2>1. a * v <= a * u /\ a * u \in Nat /\ a * v \in Nat
    BY <1>2
  <2>2. (a * u - a * v) % p = 0
    BY <1>1, <1>2, <2>1, ModDifference
  <2>3. a * (u - v) = a * u - a * v /\ u - v \in Nat
    BY <1>2
  <2>4. (u - v) % p = 0
    BY <2>2, <2>3, EuclidsLemma
  <2>5. QED
    BY <1>1, <1>2, <2>4, ModDifference
<1>3. (a * x) % p = (a * y) % p
  BY DEF MulMod
<1>4. CASE y <= x
  BY <1>2, <1>3, <1>4
<1>5. CASE x <= y
  BY <1>2, <1>3, <1>5
<1>6. QED
  BY <1>4, <1>5

-----------------------------------------------------------------------------

\* A power of a residue that p does not divide is not zero.
LEMMA PowNotZero ==
  ASSUME NEW p \in Nat, Prime(p), NEW a \in Nat, a % p # 0, NEW e \in Nat
  PROVE  Pow(a, e) % p # 0
<1> DEFINE S == {k \in Nat : Pow(a, k) % p # 0}
<1>1. 0 \in S
  <2>1. 1 % p = 1
    BY DEF Prime
  <2>2. Pow(a, 0) = 1
    BY PowStep
  <2>3. QED
    BY <2>1, <2>2
<1>2. ASSUME NEW k \in Nat, k \in S
      PROVE  k + 1 \in S
  <2>1. Pow(a, k + 1) = a * Pow(a, k) /\ Pow(a, k) \in Nat
    BY PowStep
  <2>2. QED
    BY <1>2, <2>1, EuclidsLemma
<1>3. Nat \subseteq S
  <2> HIDE DEF S
  <2>1. QED
    BY <1>1, <1>2, Induction
<1>4. QED
  BY <1>3

\* Two equal powers of a: the power between them is one.
LEMMA EqualPowers ==
  ASSUME NEW p \in Nat, Prime(p), NEW a \in Nat, a % p # 0,
         NEW k \in Nat, NEW l \in Nat, k < l, Pow(a, k) % p = Pow(a, l) % p
  PROVE  Pow(a, l - k) % p = 1
<1>1. l - k \in Nat /\ k + (l - k) = l
  OBVIOUS
<1>2. Pow(a, l) = Pow(a, k) * Pow(a, l - k)
  BY <1>1, PowSum
<1>3. Pow(a, k) \in Nat /\ Pow(a, l - k) \in Nat /\ Pow(a, k) % p # 0
  BY <1>1, PowNat, PowNotZero
<1>4. (Pow(a, k) * 1) % p = (Pow(a, k) * Pow(a, l - k)) % p
  BY <1>2, <1>3
<1>5. 1 % p = Pow(a, l - k) % p
  <2> DEFINE u == Pow(a, k)
             v == Pow(a, l - k)
  <2>1. u \in Nat /\ v \in Nat /\ u % p # 0 /\ 1 \in Nat /\ MulMod(u, 1, p) = MulMod(u, v, p)
    BY <1>3, <1>4 DEF MulMod
  <2> HIDE DEF u, v
  <2>2. 1 % p = v % p
    BY <2>1, Cancel
  <2>3. QED
    BY <2>2 DEF v
<1>6. 1 % p = 1
  BY DEF Prime
<1>7. QED
  BY <1>5, <1>6

\* Every residue that the prime does not divide has a power that is one.
LEMMA SomePowerIsOne ==
  ASSUME NEW p \in Nat, Prime(p), NEW a \in Nat, a % p # 0
  PROVE  \E k \in Nat \ {0} : Pow(a, k) % p = 1
<1>1. p \in Nat \ {0, 1}
  BY DEF Prime
<1> DEFINE f == [i \in 0 .. p - 1 |-> Pow(a, i) % p]
<1>2. f \in [0 .. p - 1 -> 1 .. p - 1]
  <2> SUFFICES ASSUME NEW i \in 0 .. p - 1
               PROVE  Pow(a, i) % p \in 1 .. p - 1
    OBVIOUS
  <2>1. Pow(a, i) \in Nat
    <3>1. i \in Nat
      OBVIOUS
    <3>2. QED
      BY <3>1, PowNat, Zenon
  <2>2. Pow(a, i) % p \in 0 .. p - 1
    BY <1>1, <2>1, DivMod
  <2>3. Pow(a, i) % p # 0
    BY PowNotZero
  <2>4. QED
    BY <2>2, <2>3
<1>3. PICK i \in 0 .. p - 1, j \in 0 .. p - 1 : i # j /\ f[i] = f[j]
  <2>1. IsFiniteSet(0 .. p - 1) /\ Cardinality(0 .. p - 1) = p
    BY <1>1, FS_Interval
  <2>2. IsFiniteSet(1 .. p - 1) /\ Cardinality(1 .. p - 1) = p - 1
    BY <1>1, FS_Interval
  <2>3. Cardinality(1 .. p - 1) < Cardinality(0 .. p - 1)
    BY <1>1, <2>1, <2>2
  <2> HIDE DEF f
  <2>4. QED
    BY <1>2, <2>1, <2>2, <2>3, FS_PigeonHole
<1>4. f[i] = Pow(a, i) % p /\ f[j] = Pow(a, j) % p /\ i \in Nat /\ j \in Nat
  OBVIOUS
<1>5. CASE i < j
  <2>1. j - i \in Nat \ {0}
    BY <1>4, <1>5
  <2>2. QED
    BY <1>3, <1>4, <1>5, <2>1, EqualPowers
<1>6. CASE j < i
  <2>1. i - j \in Nat \ {0}
    BY <1>4, <1>6
  <2>2. QED
    BY <1>3, <1>4, <1>6, <2>1, EqualPowers
<1>7. QED
  BY <1>3, <1>4, <1>5, <1>6

\* Powers of what has a power that is one
LEMMA PowPeriod ==
  ASSUME NEW q \in Nat \ {0, 1}, NEW a \in Nat, NEW k \in Nat, Pow(a, k) % q = 1,
         NEW m \in Nat, NEW r \in Nat
  PROVE  Pow(a, m * k + r) % q = Pow(a, r) % q
<1> DEFINE S == {i \in Nat : Pow(a, i * k) % q = 1}
<1>1. 0 \in S
  <2>1. 1 % q = 1
    OBVIOUS
  <2>2. QED
    BY <2>1, PowStep
<1>2. ASSUME NEW i \in Nat, i \in S
      PROVE  i + 1 \in S
  <2>1. (i + 1) * k = i * k + k /\ i * k \in Nat
    OBVIOUS
  <2>2. Pow(a, i * k + k) = Pow(a, i * k) * Pow(a, k)
    BY <2>1, PowSum
  <2>3. Pow(a, i * k) \in Nat /\ Pow(a, k) \in Nat
    BY <2>1, PowNat
  <2>4. ((Pow(a, i * k) % q) * (Pow(a, k) % q)) % q = (Pow(a, i * k) * Pow(a, k)) % q
    BY <2>3, ModMulBoth
  <2>5. (1 * 1) % q = 1
    OBVIOUS
  <2>6. QED
    BY <1>2, <2>1, <2>2, <2>4, <2>5
<1>3. Nat \subseteq S
  <2> HIDE DEF S
  <2>1. QED
    BY <1>1, <1>2, Induction
<1> DEFINE u == Pow(a, m * k)
           v == Pow(a, r)
<1>4. u % q = 1
  BY <1>3
<1>5. m * k \in Nat
  OBVIOUS
<1>6. u \in Nat /\ v \in Nat /\ Pow(a, m * k + r) = u * v
  BY <1>5, PowNat, PowSum
<1> HIDE DEF u, v
<1>7. ((u % q) * v) % q = (u * v) % q
  BY <1>6, ModMul
<1>8. QED
  BY <1>4, <1>6, <1>7 DEF v

\* k is the order of a modulo q: the least power that is one.
IsOrder(a, k, q) ==
  /\ k \in Nat \ {0} /\ Pow(a, k) % q = 1
  /\ \A j \in Nat \ {0} : Pow(a, j) % q = 1 => k <= j

\* What has a power that is one has an order.
LEMMA OrderExists ==
  ASSUME NEW q, NEW a, NEW k \in Nat \ {0}, Pow(a, k) % q = 1
  PROVE  \E j : IsOrder(a, j, q)
<1> DEFINE S == {j \in Nat \ {0} : Pow(a, j) % q = 1}
<1>1. S \in SUBSET Nat /\ S # {}
  OBVIOUS
<1>2. PICK j \in S : \A i \in S : j <= i
  <2> HIDE DEF S
  <2>1. QED
    BY <1>1, LeastElement
<1>3. QED
  BY <1>2 DEF IsOrder

\* The order divides every power that is one.
LEMMA OrderDivides ==
  ASSUME NEW q \in Nat \ {0, 1}, NEW a \in Nat, NEW k, IsOrder(a, k, q),
         NEW e \in Nat, Pow(a, e) % q = 1
  PROVE  e % k = 0
<1> DEFINE m == e \div k
           r == e % k
<1>1. k \in Nat \ {0} /\ Pow(a, k) % q = 1
  BY DEF IsOrder
<1>2. m \in Nat /\ r \in 0 .. k - 1 /\ e = m * k + r
  BY <1>1, DivMod
<1> HIDE DEF m, r
<1>3. Pow(a, r) % q = 1
  <2>1. r \in Nat /\ k \in Nat /\ m \in Nat /\ Pow(a, k) % q = 1
    BY <1>1, <1>2
  <2>2. Pow(a, m * k + r) % q = Pow(a, r) % q
    BY <2>1, PowPeriod
  <2>3. QED
    BY <1>2, <2>2
<1>4. r = 0
  BY <1>1, <1>2, <1>3 DEF IsOrder
<1>5. QED
  BY <1>4 DEF r

-----------------------------------------------------------------------------

\* The residues that come of t by multiplying with a, i times
Orbit(t, a, i, p) == MulMod(t, Pow(a, i), p)

\* Where an orbit starts, and how it goes on
LEMMA OrbitStep ==
  ASSUME NEW p \in Nat, Prime(p), NEW a \in Nat, a % p # 0, NEW t \in 1 .. p - 1
  PROVE  /\ Orbit(t, a, 0, p) = t
         /\ \A i \in Nat : /\ Orbit(t, a, i, p) \in 1 .. p - 1
                           /\ Orbit(t, a, i + 1, p) = MulMod(a, Orbit(t, a, i, p), p)
<1>1. p \in Nat \ {0, 1} /\ t \in Nat /\ t % p # 0
  BY DEF Prime
<1>2. Orbit(t, a, 0, p) = t
  <2>1. Pow(a, 0) = 1
    BY PowStep
  <2>2. (t * 1) % p = t
    BY <1>1
  <2>3. QED
    BY <2>1, <2>2 DEF Orbit, MulMod
<1>3. ASSUME NEW i \in Nat
      PROVE  /\ Orbit(t, a, i, p) \in 1 .. p - 1
             /\ Orbit(t, a, i + 1, p) = MulMod(a, Orbit(t, a, i, p), p)
  <2> DEFINE u == Pow(a, i)
  <2>1. u \in Nat /\ u % p # 0 /\ Pow(a, i + 1) = a * u
    BY PowNat, PowNotZero, PowStep
  <2>2. Orbit(t, a, i, p) = (t * u) % p /\ Orbit(t, a, i + 1, p) = (t * (a * u)) % p
    BY <2>1 DEF Orbit, MulMod
  <2> HIDE DEF u
  <2>3. (t * u) % p # 0
    BY <1>1, <2>1, EuclidsLemma
  <2>4. MulMod(t, u, p) \in 0 .. p - 1
    BY <1>1, <2>1, MulModType
  <2>5. t * u \in Nat /\ a * (t * u) = t * (a * u)
    BY <1>1, <2>1
  <2>6. (a * ((t * u) % p)) % p = (a * (t * u)) % p
    BY <1>1, <2>5, ModMul
  <2>7. QED
    BY <2>2, <2>3, <2>4, <2>5, <2>6 DEF MulMod
<1>4. QED
  BY <1>2, <1>3

\* No residue comes twice before the order.
LEMMA OrbitInjective ==
  ASSUME NEW p \in Nat, Prime(p), NEW a \in Nat, a % p # 0, NEW t \in 1 .. p - 1,
         NEW k, IsOrder(a, k, p), NEW i \in 0 .. k - 1, NEW j \in 0 .. k - 1,
         Orbit(t, a, i, p) = Orbit(t, a, j, p)
  PROVE  i = j
<1>1. k \in Nat \ {0} /\ p \in Nat \ {0} /\ t \in Nat /\ t % p # 0
  BY DEF IsOrder, Prime
<1>2. ASSUME NEW m \in 0 .. k - 1, NEW n \in 0 .. k - 1, m < n,
             Orbit(t, a, m, p) = Orbit(t, a, n, p)
      PROVE  FALSE
  <2>1. m \in Nat /\ n \in Nat
    BY <1>1
  <2>2. Pow(a, m) \in Nat /\ Pow(a, n) \in Nat
    BY <2>1, PowNat
  <2>3. Pow(a, m) % p = Pow(a, n) % p
    BY <1>1, <1>2, <2>2, Cancel DEF Orbit
  <2>4. Pow(a, n - m) % p = 1
    BY <1>2, <2>1, <2>3, EqualPowers
  <2>5. n - m \in Nat \ {0} /\ n - m < k
    BY <1>1, <1>2
  <2>6. QED
    BY <1>1, <2>4, <2>5 DEF IsOrder
<1>3. i \in Nat /\ j \in Nat
  BY <1>1
<1>4. ~(i < j) /\ ~(j < i)
  BY <1>2
<1>5. QED
  BY <1>3, <1>4

\* An orbit is entered nowhere: what a leads into it is in it.
LEMMA OrbitBack ==
  ASSUME NEW p \in Nat, Prime(p), NEW a \in Nat, a % p # 0, NEW t \in 1 .. p - 1,
         NEW k, IsOrder(a, k, p), NEW x \in 1 .. p - 1, NEW i \in 0 .. k - 1,
         MulMod(a, x, p) = Orbit(t, a, i, p)
  PROVE  \E j \in 0 .. k - 1 : x = Orbit(t, a, j, p)
<1>1. k \in Nat \ {0} /\ Pow(a, k) % p = 1 /\ p \in Nat \ {0, 1} /\ t \in Nat /\ i \in Nat
  BY DEF IsOrder, Prime
<1>2. ASSUME NEW j \in 0 .. k - 1, Orbit(t, a, i, p) = Orbit(t, a, j + 1, p)
      PROVE  x = Orbit(t, a, j, p)
  <2>1. j \in Nat
    BY <1>1
  <2>2. Orbit(t, a, j, p) \in 1 .. p - 1
    BY <2>1, OrbitStep
  <2>3. MulMod(a, x, p) = MulMod(a, Orbit(t, a, j, p), p)
    BY <1>2, <2>1, OrbitStep
  <2> DEFINE y == Orbit(t, a, j, p)
  <2> HIDE DEF y
  <2>4. x \in Nat /\ y \in Nat /\ x % p = x /\ y % p = y /\ MulMod(a, x, p) = MulMod(a, y, p)
    BY <1>1, <2>2, <2>3 DEF y
  <2>5. x % p = y % p
    BY <2>4, Cancel
  <2>6. QED
    BY <2>4, <2>5 DEF y
<1>3. CASE i # 0
  <2>1. i - 1 \in 0 .. k - 1 /\ (i - 1) + 1 = i
    BY <1>1, <1>3
  <2>2. QED
    BY <1>2, <2>1
<1>4. CASE i = 0
  <2>1. k - 1 \in 0 .. k - 1 /\ (k - 1) + 1 = k
    BY <1>1
  <2>2. Orbit(t, a, k, p) = t
    <3> DEFINE u == Pow(a, k)
    <3>1. u \in Nat /\ u % p = 1
      BY <1>1, PowNat
    <3> HIDE DEF u
    <3>2. (t * (u % p)) % p = (t * u) % p
      BY <1>1, <3>1, ModMul
    <3>3. (t * 1) % p = t
      BY <1>1
    <3>4. QED
      BY <3>1, <3>2, <3>3 DEF Orbit, MulMod, u
  <2>3. Orbit(t, a, 0, p) = t
    BY OrbitStep
  <2>4. QED
    BY <1>2, <1>4, <2>1, <2>2, <2>3
<1>5. QED
  BY <1>3, <1>4

\* A set of residues that a does not lead out of
Closed(T, a, p) == T \subseteq 1 .. p - 1 /\ \A x \in T : MulMod(a, x, p) \in T

\* It falls into orbits, all of the size of the order.
LEMMA OrderDividesClosed ==
  ASSUME NEW p \in Nat, Prime(p), NEW a \in Nat, a % p # 0, NEW k, IsOrder(a, k, p)
  PROVE  \A T : Closed(T, a, p) => Cardinality(T) % k = 0
<1>1. k \in Nat \ {0} /\ p \in Nat \ {0, 1}
  BY DEF IsOrder, Prime
<1>2. ASSUME NEW T, Closed(T, a, p)
      PROVE  IsFiniteSet(T) /\ Cardinality(T) \in Nat
  <2>1. IsFiniteSet(1 .. p - 1)
    BY <1>1, FS_Interval
  <2>2. T \in SUBSET (1 .. p - 1)
    BY <1>2 DEF Closed
  <2>3. QED
    BY <2>1, <2>2, FS_Subset, FS_CardinalityType
\* An orbit taken out leaves a closed set, smaller by k.
<1>3. ASSUME NEW T, Closed(T, a, p), NEW t \in T
      PROVE  \E U : Closed(U, a, p) /\ Cardinality(U) = Cardinality(T) - k
  <2> DEFINE f == [i \in 0 .. k - 1 |-> Orbit(t, a, i, p)]
             O == {Orbit(t, a, i, p) : i \in 0 .. k - 1}
  <2>1. t \in 1 .. p - 1
    BY <1>3 DEF Closed
  <2>2. O \subseteq T
    <3> DEFINE S == {i \in Nat : Orbit(t, a, i, p) \in T}
    <3>1. 0 \in S
      BY <2>1, OrbitStep
    <3>2. ASSUME NEW i \in Nat, i \in S
          PROVE  i + 1 \in S
      BY <1>3, <2>1, <3>2, OrbitStep DEF Closed
    <3>3. Nat \subseteq S
      <4> HIDE DEF S
      <4>1. QED
        BY <3>1, <3>2, Induction
    <3>4. QED
      BY <1>1, <3>3
  <2>3. f \in Bijection(0 .. k - 1, O)
    <3>1. \A i, j \in 0 .. k - 1 : Orbit(t, a, i, p) = Orbit(t, a, j, p) => i = j
      BY <2>1, OrbitInjective
    <3>2. f \in [0 .. k - 1 -> O]
      OBVIOUS
    <3>3. QED
      BY <3>1, <3>2 DEF Bijection, Injection, IsInjective, Surjection
  <2>4. Cardinality(O) = k
    <3>1. IsFiniteSet(0 .. k - 1) /\ Cardinality(0 .. k - 1) = k
      <4> DEFINE l == k - 1
      <4>1. 0 \in Int /\ l \in Int /\ ~(0 > l) /\ l - 0 + 1 = k
        BY <1>1
      <4> HIDE DEF l
      <4>2. IsFiniteSet(0 .. l) /\ Cardinality(0 .. l) = l - 0 + 1
        BY <4>1, FS_Interval
      <4>3. QED
        BY <4>1, <4>2 DEF l
    <3> HIDE DEF O, f
    <3>2. QED
      BY <2>3, <3>1, FS_Bijection DEF ExistsBijection
  <2>5. Closed(T \ O, a, p)
    <3>1. ASSUME NEW x \in T \ O, MulMod(a, x, p) \in O
          PROVE  FALSE
      <4>1. PICK i \in 0 .. k - 1 : MulMod(a, x, p) = Orbit(t, a, i, p)
        BY <3>1
      <4>2. x \in 1 .. p - 1
        BY <1>3 DEF Closed
      <4>3. QED
        BY <2>1, <4>1, <4>2, OrbitBack
    <3>2. QED
      BY <1>3, <3>1 DEF Closed
  <2>6. Cardinality(T \ O) = Cardinality(T) - k
    <3>1. T \cap O = O
      BY <2>2
    <3>2. IsFiniteSet(T)
      BY <1>2, <1>3
    <3> HIDE DEF O
    <3>3. QED
      BY <2>4, <3>1, <3>2, FS_Difference
  <2>7. QED
    BY <2>5, <2>6
<1> DEFINE S == {c \in Nat : \A T : Closed(T, a, p) /\ Cardinality(T) = c => c % k = 0}
<1>4. ASSUME NEW c \in Nat, \A d \in 0 .. c - 1 : d \in S
      PROVE  c \in S
  <2> SUFFICES ASSUME NEW T, Closed(T, a, p), Cardinality(T) = c
               PROVE  c % k = 0
    OBVIOUS
  <2>1. CASE T = {}
    <3>1. c = 0
      BY <2>1, FS_EmptySet
    <3>2. QED
      BY <1>1, <3>1
  <2>2. CASE T # {}
    <3>1. PICK U : Closed(U, a, p) /\ Cardinality(U) = c - k
      BY <1>3, <2>2
    <3>2. c - k \in 0 .. c - 1
      <4>1. c - k \in Nat
        BY <1>2, <3>1
      <4>2. QED
        BY <1>1, <4>1
    <3>3. (c - k) % k = 0
      BY <1>4, <3>1, <3>2
    <3> DEFINE rest == c - k
    <3>4. rest \in Nat /\ c = 1 * k + rest
      BY <1>1, <3>2
    <3> HIDE DEF rest
    <3>5. (1 * k + rest) % k = rest % k
      BY <1>1, <3>4, ModAdd
    <3>6. rest % k = 0
      BY <3>3 DEF rest
    <3>7. QED
      BY <3>4, <3>5, <3>6
  <2>3. QED
    BY <2>1, <2>2
<1>5. Nat \subseteq S
  <2> HIDE DEF S
  <2>1. QED
    BY <1>4, StrongInduction
<1>6. QED
  BY <1>2, <1>5

\* Fermat's little theorem
THEOREM FermatsLittleTheorem ==
  ASSUME NEW p \in Nat, Prime(p), NEW a \in Nat, a % p # 0
  PROVE  Pow(a, p - 1) % p = 1
<1>1. p \in Nat \ {0, 1}
  BY DEF Prime
<1>2. PICK k : IsOrder(a, k, p)
  BY SomePowerIsOne, OrderExists
<1>3. k \in Nat \ {0} /\ Pow(a, k) % p = 1
  BY <1>2 DEF IsOrder
<1>4. Closed(1 .. p - 1, a, p)
  <2>1. ASSUME NEW x \in 1 .. p - 1
        PROVE  MulMod(a, x, p) \in 1 .. p - 1
    <3>1. x \in Nat /\ x % p # 0
      BY <1>1
    <3>2. (a * x) % p # 0
      BY <3>1, EuclidsLemma
    <3>3. MulMod(a, x, p) \in 0 .. p - 1
      BY <1>1, <3>1, MulModType
    <3>4. QED
      BY <1>1, <3>2, <3>3 DEF MulMod
  <2>2. QED
    BY <2>1 DEF Closed
<1>5. (p - 1) % k = 0
  <2>1. Cardinality(1 .. p - 1) = p - 1
    BY <1>1, FS_Interval
  <2>2. Cardinality(1 .. p - 1) % k = 0
    BY <1>2, <1>4, OrderDividesClosed
  <2>3. QED
    BY <2>1, <2>2
<1>6. PICK m \in Nat : p - 1 = m * k
  <2> DEFINE l == p - 1
  <2>1. l \in Nat /\ l % k = 0
    BY <1>1, <1>5
  <2> HIDE DEF l
  <2>2. \E m \in Nat : l = m * k
    BY <1>3, <2>1, Multiple
  <2>3. QED
    BY <2>2 DEF l
<1>7. Pow(a, m * k + 0) % p = Pow(a, 0) % p
  BY <1>1, <1>3, PowPeriod
<1>8. Pow(a, 0) % p = 1
  <2>1. Pow(a, 0) = 1
    BY PowStep
  <2>2. QED
    BY <1>1, <2>1
<1>9. m * k + 0 = p - 1
  BY <1>1, <1>6
<1>10. QED
  BY <1>7, <1>8, <1>9

-----------------------------------------------------------------------------
(***************************************************************************)
(* The same in the operators of the model                                  *)
(***************************************************************************)

\* modpow returns a residue, and 1 for the exponent 0.
LEMMA ModPowType ==
  ASSUME NEW q \in Nat \ {0, 1}, NEW b \in Nat, NEW e \in Nat
  PROVE  /\ ModPow(b, e, q) \in 0 .. q - 1
         /\ ModPow(b, 0, q) = 1
         /\ ModPow(b, 1, q) = b % q
<1>1. Pow(b, e) \in Nat /\ Pow(b, 0) = 1 /\ Pow(b, 0 + 1) = b * Pow(b, 0)
  BY PowNat, PowStep
<1>2. ModPow(b, e, q) = Pow(b, e) % q /\ ModPow(b, 0, q) = 1 % q
  BY <1>1, ModPowIs
<1>3. ModPow(b, 1, q) = Pow(b, 1) % q
  BY ModPowIs
<1>4. Pow(b, 1) = b
  BY <1>1
<1>5. 1 % q = 1
  OBVIOUS
<1>6. QED
  BY <1>1, <1>2, <1>3, <1>4, <1>5, ModIdempotent

\* The base counts by its residue only.
LEMMA ModPowBase ==
  ASSUME NEW q \in Nat \ {0, 1}, NEW b \in Nat, NEW e \in Nat
  PROVE  ModPow(b % q, e, q) = ModPow(b, e, q)
<1>1. b % q \in Nat
  BY DivMod
<1>2. ModPow(b % q, e, q) = Pow(b % q, e) % q /\ ModPow(b, e, q) = Pow(b, e) % q
  BY <1>1, ModPowIs
<1>3. QED
  BY <1>2, PowMod

\* The product of two powers
LEMMA ModPowSum ==
  ASSUME NEW q \in Nat \ {0, 1}, NEW b \in Nat, NEW e \in Nat, NEW f \in Nat
  PROVE  MulMod(ModPow(b, e, q), ModPow(b, f, q), q) = ModPow(b, e + f, q)
<1> DEFINE u == Pow(b, e)
           v == Pow(b, f)
<1>1. u \in Nat /\ v \in Nat /\ Pow(b, e + f) = u * v
  BY PowNat, PowSum
<1>2. ModPow(b, e, q) = u % q /\ ModPow(b, f, q) = v % q /\ e + f \in Nat
  BY ModPowIs
<1>3. ModPow(b, e + f, q) = (u * v) % q
  BY <1>1, <1>2, ModPowIs
<1> HIDE DEF u, v
<1>4. ((u % q) * (v % q)) % q = (u * v) % q
  BY <1>1, ModMulBoth
<1>5. QED
  BY <1>2, <1>3, <1>4 DEF MulMod

\* A power of a power
LEMMA ModPowOfPow ==
  ASSUME NEW q \in Nat \ {0, 1}, NEW b \in Nat, NEW e \in Nat, NEW f \in Nat
  PROVE  ModPow(ModPow(b, e, q), f, q) = ModPow(b, e * f, q)
<1> DEFINE u == Pow(b, e)
           m == e * f
<1>1. u \in Nat /\ m \in Nat /\ Pow(u, f) = Pow(b, m)
  BY PowNat, PowOfPow
<1>2. ModPow(b, e, q) = u % q /\ ModPow(b, m, q) = Pow(b, m) % q
  BY <1>1, ModPowIs
<1> HIDE DEF u, m
<1>3. ModPow(u % q, f, q) = ModPow(u, f, q) /\ ModPow(u, f, q) = Pow(u, f) % q
  BY <1>1, ModPowBase, ModPowIs
<1>4. QED
  BY <1>1, <1>2, <1>3 DEF m

\* A power of a product
LEMMA ModPowOfProduct ==
  ASSUME NEW q \in Nat \ {0, 1}, NEW a \in Nat, NEW b \in Nat, NEW e \in Nat
  PROVE  ModPow(MulMod(a, b, q), e, q) = MulMod(ModPow(a, e, q), ModPow(b, e, q), q)
<1> DEFINE u == Pow(a, e)
           v == Pow(b, e)
           m == a * b
<1>1. u \in Nat /\ v \in Nat /\ m \in Nat /\ Pow(m, e) = u * v
  BY PowNat, PowOfProduct
<1>2. ModPow(a, e, q) = u % q /\ ModPow(b, e, q) = v % q
  BY ModPowIs
<1> HIDE DEF u, v
<1>3. ModPow(m % q, e, q) = (u * v) % q
  <2> HIDE DEF m
  <2>1. QED
    BY <1>1, ModPowBase, ModPowIs
<1>4. ((u % q) * (v % q)) % q = (u * v) % q
  BY <1>1, ModMulBoth
<1>5. QED
  BY <1>2, <1>3, <1>4 DEF MulMod

\* Powers of one
LEMMA ModPowOfOne ==
  ASSUME NEW q \in Nat \ {0, 1}, NEW e \in Nat
  PROVE  ModPow(1, e, q) = 1
<1>1. ModPow(1, 0, q) = 1
  BY ModPowType
<1>2. 0 * e = 0
  OBVIOUS
<1>3. ModPow(ModPow(1, 0, q), e, q) = ModPow(1, 0 * e, q)
  BY ModPowOfPow
<1>4. QED
  BY <1>1, <1>2, <1>3

\* Products of residues
LEMMA MulModRing ==
  ASSUME NEW q \in Nat \ {0}, NEW a \in Nat, NEW b \in Nat, NEW c \in Nat
  PROVE  /\ MulMod(a, b, q) = MulMod(b, a, q)
         /\ MulMod(MulMod(a, b, q), c, q) = MulMod(a, MulMod(b, c, q), q)
         /\ MulMod(a, 1, q) = a % q
         /\ MulMod(a % q, b, q) = MulMod(a, b, q)
<1>1. a * b = b * a /\ a * 1 = a
  OBVIOUS
<1>2. (((a * b) % q) * c) % q = ((a * b) * c) % q
  <2> DEFINE m == a * b
  <2>1. m \in Nat
    OBVIOUS
  <2> HIDE DEF m
  <2>2. ((m % q) * c) % q = (m * c) % q
    BY <2>1, ModMul
  <2>3. QED
    BY <2>2 DEF m
<1>3. (a * ((b * c) % q)) % q = (a * (b * c)) % q
  <2> DEFINE m == b * c
  <2>1. m \in Nat
    OBVIOUS
  <2> HIDE DEF m
  <2>2. (a * (m % q)) % q = (a * m) % q
    BY <2>1, ModMul
  <2>3. QED
    BY <2>2 DEF m
<1>4. (a * b) * c = a * (b * c)
  OBVIOUS
<1>5. ((a % q) * b) % q = (a * b) % q
  BY ModMul
<1>6. QED
  BY <1>1, <1>2, <1>3, <1>4, <1>5 DEF MulMod

\* Fermat's little theorem for modpow
LEMMA FermatModPow ==
  ASSUME NEW p \in Nat, Prime(p), NEW a \in Nat, a % p # 0
  PROVE  ModPow(a, p - 1, p) = 1
<1> DEFINE l == p - 1
<1>1. p \in Nat \ {0, 1} /\ l \in Nat
  BY DEF Prime
<1>2. Pow(a, l) % p = 1
  BY FermatsLittleTheorem
<1> HIDE DEF l
<1>3. ModPow(a, l, p) = 1
  BY <1>1, <1>2, ModPowIs
<1>4. QED
  BY <1>3 DEF l

\* Square roots of one
LEMMA SquareIsOne ==
  ASSUME NEW p \in Nat, Prime(p), NEW x \in 0 .. p - 1, MulMod(x, x, p) = 1
  PROVE  x \in {1, p - 1}
BY RootsOfOne DEF MulMod

-----------------------------------------------------------------------------
\* An even number above 2 is no prime, nor is a number below 2; 3 is one.
LEMMA SmallPrimes ==
  ASSUME NEW q \in Nat
  PROVE  /\ Prime(q) => q > 1
         /\ Prime(q) /\ q # 2 => q % 2 = 1
<1>1. ASSUME Prime(q), q # 2, q % 2 = 0
      PROVE  FALSE
  <2>1. q > 1 /\ q \div 2 >= 2
    BY <1>1 DEF Prime
  <2>2. 2 \in {d \in 2 .. q \div 2 : Divides(d, q)}
    BY <1>1, <2>1 DEF Divides
  <2>3. QED
    BY <1>1, <2>2 DEF Prime
<1>2. q % 2 \in {0, 1}
  OBVIOUS
<1>3. QED
  BY <1>1, <1>2 DEF Prime

\* Exponents are smaller than the powers of two.
LEMMA ExponentBound ==
  ASSUME NEW k \in Nat
  PROVE  k < 2^k
<1> DEFINE S == {j \in Nat : j < 2^j}
<1>1. 0 \in S
  <2>1. 2^0 \in Nat \ {0}
    BY PowersOfTwo
  <2>2. QED
    BY <2>1
<1>2. ASSUME NEW j \in Nat, j \in S
      PROVE  j + 1 \in S
  <2>1. 2^j \in Nat \ {0} /\ 2^(j + 1) = 2 * 2^j
    BY PowersOfTwo
  <2>2. QED
    BY <1>2, <2>1
<1>3. QED
  <2> HIDE DEF S
  <2>1. Nat \subseteq S
    BY <1>1, <1>2, Induction
  <2>2. QED
    BY <2>1 DEF S

(***************************************************************************)
(* q - 1 = d * 2^s and the squares of the primality test                   *)
(***************************************************************************)

\* A factor of two moves from d to 2^s.
LEMMA HalfSplit ==
  ASSUME NEW q \in Nat, NEW d \in Nat \ {0}, NEW s \in Nat, d * 2^s = q - 1, d % 2 = 0
  PROVE  /\ d \div 2 \in Nat \ {0} /\ s + 1 \in Nat /\ (d \div 2) * 2^(s + 1) = q - 1
         /\ d \div 2 <= q /\ s + 1 <= q
<1> DEFINE h == d \div 2
           t == s + 1
           w == 2^s
           v == 2^t
<1>1. h \in Nat \ {0} /\ d = 2 * h /\ t \in Nat
  OBVIOUS
<1>2. w \in Nat \ {0} /\ v = 2 * w
  BY PowersOfTwo
<1>3. t < v
  <2> HIDE DEF t
  <2>1. QED
    BY <1>1, ExponentBound
<1> HIDE DEF h, t, w, v
<1>4. d * w = q - 1
  BY DEF w
<1>5. h * v = q - 1
  <2>1. (2 * h) * w = h * (2 * w)
    BY <1>1, <1>2
  <2>2. QED
    BY <1>1, <1>2, <1>4, <2>1
<1>6. h <= q /\ t <= q
  <2>1. v \in Nat \ {0}
    BY <1>2
  <2>2. h <= h * v /\ v <= h * v
    BY <1>1, <2>1
  <2>3. QED
    BY <1>1, <1>3, <1>5, <2>1, <2>2
<1>7. QED
  BY <1>1, <1>5, <1>6 DEF h, t, v

\* q - 1 is even: there is at least one square to take.
LEMMA FirstSquare ==
  ASSUME NEW q \in Nat, q % 2 = 1, NEW d \in Nat, d % 2 = 1, NEW s \in Nat, d * 2^s = q - 1
  PROVE  s # 0 /\ d * 2^(1 - 1) = d
<1>1. 2^0 = 1 /\ 1 - 1 = 0
  BY PowersOfTwo
<1>2. d * 1 = d
  OBVIOUS
<1>3. ASSUME s = 0
      PROVE  FALSE
  <2>1. d = q - 1
    BY <1>1, <1>2, <1>3
  <2>2. QED
    BY <2>1
<1>4. QED
  BY <1>1, <1>2, <1>3

IsPower(x, a, e, q) == x = ModPow(a, e, q)

\* A square doubles the exponent.
LEMMA NextSquare ==
  ASSUME NEW q \in Nat \ {0, 1}, NEW a \in Nat, NEW d \in Nat, NEW r \in Nat \ {0},
         NEW x, IsPower(x, a, d * 2^(r - 1), q)
  PROVE  /\ x \in 0 .. q - 1
         /\ MulMod(x, x, q) \in 0 .. q - 1
         /\ IsPower(MulMod(x, x, q), a, d * 2^r, q)
<1> DEFINE k == r - 1
           w == 2^k
           e == d * w
<1>1. k \in Nat /\ k + 1 = r
  OBVIOUS
<1> HIDE DEF k
<1>2. w \in Nat /\ 2^r = 2 * w
  BY <1>1, PowersOfTwo
<1> HIDE DEF w
<1>3. e \in Nat /\ e + e = d * (2 * w)
  BY <1>2
<1>4. x = ModPow(a, e, q)
  BY DEF e, w, k, IsPower
<1> HIDE DEF e
<1>5. x \in 0 .. q - 1
  BY <1>3, <1>4, ModPowType
<1>6. MulMod(x, x, q) = ModPow(a, e + e, q)
  BY <1>3, <1>4, ModPowSum
<1>7. x \in Nat
  BY <1>5
<1>8. QED
  BY <1>2, <1>3, <1>5, <1>6, <1>7, MulModType DEF IsPower

\* Modulo a prime the last square would be one.
LEMMA LastSquare ==
  ASSUME NEW q \in Nat, Prime(q), NEW d \in Nat, NEW s \in Nat \ {0}, d * 2^s = q - 1,
         NEW a \in 1 .. q - 1
  PROVE  ModPow(a, d * 2^(s - 1), q) \in {1, q - 1}
<1> DEFINE x == ModPow(a, d * 2^(s - 1), q)
<1>1. q \in Nat \ {0, 1} /\ a \in Nat /\ a % q # 0
  BY DEF Prime
<1>2. x \in 0 .. q - 1 /\ MulMod(x, x, q) = ModPow(a, d * 2^s, q)
  <2>1. IsPower(x, a, d * 2^(s - 1), q)
    BY DEF IsPower
  <2> HIDE DEF x
  <2>2. QED
    BY <1>1, <2>1, NextSquare DEF IsPower
<1>3. ModPow(a, q - 1, q) = 1
  BY <1>1, FermatModPow
<1> HIDE DEF x
<1>4. MulMod(x, x, q) = 1
  BY <1>2, <1>3
<1>5. QED
  BY <1>2, <1>4, SquareIsOne DEF x

-----------------------------------------------------------------------------
(***************************************************************************)
(* Recursions that end with the value they reach: Euclid's algorithm, and  *)
(* the odd part of a number                                                *)
(***************************************************************************)

Iterates(f, A, B, C, G) == f = [a \in A |-> IF a \in B THEN C[a] ELSE f[G[a]]]

\* They have a solution.
LEMMA IterationExists ==
  ASSUME NEW A, NEW V, NEW B, NEW C \in [A -> V], NEW G, NEW M \in [A -> Nat],
         \A a \in A \ B : G[a] \in A /\ M[G[a]] < M[a]
  PROVE  \E f \in [A -> V] : Iterates(f, A, B, C, G)
<1> DEFINE D == [t \in A \X V |-> t[2]]
<1>1. D \in [A \X V -> V]
  OBVIOUS
<1>2. PICK f : Solves(f, A, B, C, D, G)
  <2> HIDE DEF D
  <2>1. QED
    BY <1>1, RecursionExists
<1>3. f \in [A -> V]
  <2> HIDE DEF D
  <2>1. QED
    BY <1>1, <1>2, RecursionType
<1>4. \A a \in A : f[a] = IF a \in B THEN C[a] ELSE f[G[a]]
  <2> SUFFICES ASSUME NEW a \in A
               PROVE  f[a] = IF a \in B THEN C[a] ELSE f[G[a]]
    OBVIOUS
  <2>1. f[a] = IF a \in B THEN C[a] ELSE D[<<a, f[G[a]]>>]
    BY <1>2 DEF Solves
  <2>2. CASE a \in B
    BY <2>1, <2>2
  <2>3. CASE a \notin B
    <3>1. f[G[a]] \in V
      BY <1>3, <2>3
    <3>2. QED
      BY <2>1, <2>3, <3>1
  <2>4. QED
    BY <2>2, <2>3
<1>5. Iterates(f, A, B, C, G)
  BY <1>3, <1>4 DEF Iterates
<1>6. QED
  BY <1>3, <1>5

\* What divides two numbers divides their sum and their multiples, and what
\* divides the sum and one of them divides the other.
LEMMA DividesSum ==
  ASSUME NEW d \in Nat \ {0}, NEW a \in Nat, NEW b \in Nat, b % d = 0
  PROVE  (a + b) % d = a % d
<1>1. PICK k \in Nat : b = k * d
  BY Multiple
<1>2. (k * d + a) % d = a % d
  BY ModAdd
<1>3. k * d + a = a + b
  BY <1>1
<1>4. QED
  BY <1>2, <1>3

\* Multiples
LEMMA DividesProduct ==
  ASSUME NEW d \in Nat \ {0}, NEW a \in Nat, NEW b \in Nat, b % d = 0
  PROVE  (a * b) % d = 0 /\ (b * a) % d = 0
<1>1. PICK k \in Nat : b = k * d
  BY Multiple
<1>2. a * k \in Nat /\ a * b \in Nat /\ a * b = (a * k) * d /\ b * a = a * b
  BY <1>1
<1>3. QED
  BY <1>2, Multiple

\* Divisibility is transitive, and a divisor of a positive number is not larger.
LEMMA DividesTransitive ==
  ASSUME NEW d \in Nat \ {0}, NEW e \in Nat \ {0}, NEW n \in Nat, e % d = 0, n % e = 0
  PROVE  n % d = 0 /\ (n # 0 => e <= n)
<1>1. PICK k \in Nat : n = k * e
  BY Multiple
<1>2. (k * e) % d = 0
  BY DividesProduct
<1>3. n # 0 => e <= n
  <2>1. ASSUME k # 0 PROVE k * e >= e
    BY <2>1
  <2>2. k = 0 => k * e = 0
    OBVIOUS
  <2>3. QED
    BY <1>1, <2>1, <2>2
<1>4. QED
  BY <1>1, <1>2, <1>3

\* A number and the quotient by a divisor
LEMMA ExactQuotient ==
  ASSUME NEW n \in Nat \ {0}, NEW d \in Nat \ {0}, n % d = 0
  PROVE  /\ n \div d \in Nat \ {0} /\ n = (n \div d) * d
         /\ n % (n \div d) = 0
<1> DEFINE k == n \div d
<1>1. k \in Nat /\ n = k * d + (n % d)
  BY DivMod
<1> HIDE DEF k
<1>2. n = k * d /\ k # 0
  BY <1>1
<1>3. k * d = d * k /\ k \in Nat \ {0}
  BY <1>1, <1>2
<1>4. n % k = 0
  BY <1>2, <1>3, Multiple
<1>5. QED
  BY <1>2, <1>3, <1>4 DEF k

-----------------------------------------------------------------------------

IsGcdLoop(f) ==
  f = [p \in Nat \X Nat |-> IF p[2] = 0 THEN p[1] ELSE f[<<p[2], p[1] % p[2]>>]]

\* One step of Euclid's algorithm
LEMMA GcdLoopStep ==
  ASSUME NEW f, IsGcdLoop(f), NEW a \in Nat, NEW b \in Nat
  PROVE  /\ b = 0 => f[<<a, b>>] = a
         /\ b # 0 => f[<<a, b>>] = f[<<b, a % b>>]
<1> DEFINE p == <<a, b>>
<1>1. p \in Nat \X Nat /\ p[1] = a /\ p[2] = b
  OBVIOUS
<1> HIDE DEF p
<1>2. f[p] = IF b = 0 THEN a ELSE f[<<b, a % b>>]
  BY <1>1 DEF IsGcdLoop
<1>3. QED
  BY <1>2 DEF p

\* Its definition has a solution.
LEMMA GcdLoopExists == \E f : IsGcdLoop(f)
<1> DEFINE A == Nat \X Nat
           B == {p \in A : p[2] = 0}
           C == [p \in A |-> p[1]]
           G == [p \in A |-> <<p[2], p[1] % p[2]>>]
           M == [p \in A |-> p[2]]
<1>1. C \in [A -> Nat] /\ M \in [A -> Nat]
  OBVIOUS
<1>2. \A p \in A \ B : G[p] \in A /\ M[G[p]] < M[p]
  <2> SUFFICES ASSUME NEW p \in A \ B
               PROVE  G[p] \in A /\ M[G[p]] < M[p]
    OBVIOUS
  <2>1. p[1] \in Nat /\ p[2] \in Nat \ {0}
    OBVIOUS
  <2>2. p[1] % p[2] \in 0 .. p[2] - 1
    BY <2>1, DivMod
  <2>3. p[1] % p[2] \in Nat /\ p[1] % p[2] < p[2]
    BY <2>1, <2>2
  <2>4. G[p] = <<p[2], p[1] % p[2]>>
    OBVIOUS
  <2>5. QED
    BY <2>1, <2>3, <2>4
<1>3. PICK f \in [A -> Nat] : Iterates(f, A, B, C, G)
  <2> HIDE DEF A, B, C, G, M
  <2>1. QED
    BY <1>1, <1>2, IterationExists
<1>4. \A p \in A : f[p] = IF p[2] = 0 THEN p[1] ELSE f[<<p[2], p[1] % p[2]>>]
  BY <1>3 DEF Iterates
<1>5. IsGcdLoop(f)
  BY <1>3, <1>4 DEF IsGcdLoop
<1>6. QED
  BY <1>5

\* It finds a divisor of both numbers.
LEMMA GcdLoopDivides ==
  ASSUME NEW f, IsGcdLoop(f)
  PROVE  \A b \in Nat : \A a \in Nat : (a # 0 \/ b # 0) =>
            /\ f[<<a, b>>] \in Nat \ {0}
            /\ a % f[<<a, b>>] = 0
            /\ b % f[<<a, b>>] = 0
<1> DEFINE Good(a, b) == /\ f[<<a, b>>] \in Nat \ {0}
                         /\ a % f[<<a, b>>] = 0
                         /\ b % f[<<a, b>>] = 0
           S == {b \in Nat : \A a \in Nat : (a # 0 \/ b # 0) => Good(a, b)}
<1>1. ASSUME NEW b \in Nat, \A j \in 0 .. b - 1 : j \in S
      PROVE  b \in S
  <2> SUFFICES ASSUME NEW a \in Nat, a # 0 \/ b # 0
               PROVE  Good(a, b)
    OBVIOUS
  <2>1. CASE b = 0
    <3>1. f[<<a, b>>] = a /\ a \in Nat \ {0}
      BY <2>1, GcdLoopStep
    <3>2. a % a = 0 /\ 0 % a = 0
      <4>1. a = 1 * a /\ 0 = 0 * a
        OBVIOUS
      <4>2. QED
        BY <3>1, <4>1, Multiple
    <3>3. QED
      BY <2>1, <3>1, <3>2
  <2>2. CASE b # 0
    <3> DEFINE r == a % b
               m == a \div b
               d == f[<<b, r>>]
    <3>1. r \in 0 .. b - 1 /\ m \in Nat /\ a = m * b + r
      BY <2>2, DivMod
    <3>2. f[<<a, b>>] = d
      BY <2>2, GcdLoopStep
    <3> HIDE DEF r, m
    <3>3. Good(b, r)
      <4>1. r \in S
        BY <1>1, <3>1
      <4>2. QED
        BY <2>2, <4>1
    <3>4. d \in Nat \ {0} /\ b % d = 0 /\ r % d = 0
      BY <3>3
    <3> HIDE DEF d
    <3>5. (m * b) % d = 0 /\ m * b \in Nat /\ r \in Nat
      <4>1. m \in Nat /\ b \in Nat /\ d \in Nat \ {0} /\ b % d = 0
        BY <3>1, <3>4
      <4>2. (m * b) % d = 0
        BY <4>1, DividesProduct
      <4>3. QED
        BY <2>2, <3>1, <4>2
    <3>6. (m * b + r) % d = 0
      <4> DEFINE s == m * b
      <4>1. s \in Nat /\ s % d = 0
        BY <3>5
      <4> HIDE DEF s
      <4>2. (s + r) % d = s % d
        BY <3>4, <3>5, <4>1, DividesSum
      <4>3. QED
        BY <4>1, <4>2 DEF s
    <3>7. QED
      BY <3>1, <3>2, <3>4, <3>6
  <2>3. QED
    BY <2>1, <2>2
<1>2. Nat \subseteq S
  <2> HIDE DEF S
  <2>1. QED
    BY <1>1, StrongInduction
<1>3. QED
  BY <1>2

-----------------------------------------------------------------------------

IsOddLoop(f) == f = [j \in Nat |-> IF j % 2 = 0 THEN f[j \div 2] ELSE j]

\* Its definition has a solution.
LEMMA OddLoopExists == \E f : IsOddLoop(f)
<1> DEFINE B == {j \in Nat : j = 0 \/ j % 2 = 1}
           C == [j \in Nat |-> j]
           G == [j \in Nat |-> j \div 2]
<1>1. C \in [Nat -> Nat] /\ C \in [Nat -> Nat]
  OBVIOUS
<1>2. \A j \in Nat \ B : G[j] \in Nat /\ C[G[j]] < C[j]
  OBVIOUS
<1>3. PICK f \in [Nat -> Nat] : Iterates(f, Nat, B, C, G)
  <2> HIDE DEF B, C, G
  <2>1. QED
    BY <1>1, <1>2, IterationExists
<1>4. \A j \in Nat : f[j] = IF j \in B THEN j ELSE f[j \div 2]
  BY <1>3 DEF Iterates
<1>5. \A j \in Nat : f[j] = IF j % 2 = 0 THEN f[j \div 2] ELSE j
  <2> SUFFICES ASSUME NEW j \in Nat
               PROVE  f[j] = IF j % 2 = 0 THEN f[j \div 2] ELSE j
    OBVIOUS
  <2>1. CASE j = 0
    <3>1. j \div 2 = j /\ j % 2 = 0
      BY <2>1
    <3>2. QED
      BY <3>1
  <2>2. CASE j # 0
    BY <1>4, <2>2
  <2>3. QED
    BY <2>1, <2>2
<1>6. IsOddLoop(f)
  BY <1>3, <1>5 DEF IsOddLoop
<1>7. QED
  BY <1>6

\* It strips the factors of two: what is left is odd, and has the same odd
\* prime factors.
LEMMA OddLoopIs ==
  ASSUME NEW f, IsOddLoop(f)
  PROVE  \A k \in Nat \ {0} :
           /\ f[k] \in 1 .. k /\ f[k] % 2 = 1
           /\ \E s \in Nat : f[k] * 2^s = k
<1> DEFINE Good(k) == f[k] \in 1 .. k /\ f[k] % 2 = 1 /\ \E s \in Nat : f[k] * 2^s = k
           S == {k \in Nat : k # 0 => Good(k)}
<1>1. ASSUME NEW k \in Nat, \A j \in 0 .. k - 1 : j \in S
      PROVE  k \in S
  <2> SUFFICES ASSUME k # 0
               PROVE  Good(k)
    OBVIOUS
  <2>0. f[k] = IF k % 2 = 0 THEN f[k \div 2] ELSE k
    BY DEF IsOddLoop
  <2>1. CASE k % 2 = 1
    <3>1. f[k] = k
      BY <2>0, <2>1
    <3>2. f[k] * 2^0 = k
      <4>1. 2^0 = 1 /\ k * 1 = k
        BY PowersOfTwo
      <4>2. QED
        BY <3>1, <4>1
    <3>3. 0 \in Nat /\ f[k] \in 1 .. k /\ f[k] % 2 = 1
      BY <2>1, <3>1
    <3>4. QED
      BY <3>2, <3>3, Zenon
  <2>2. CASE k % 2 = 0
    <3> DEFINE h == k \div 2
               o == f[h]
    <3>1. h \in 1 .. k - 1 /\ k = 2 * h
      BY <2>2
    <3>2. f[k] = o
      BY <2>0, <2>2
    <3> HIDE DEF h
    <3>3. Good(h)
      <4>1. h \in S /\ h # 0
        BY <1>1, <3>1
      <4>2. QED
        BY <4>1
    <3>4. PICK s \in Nat : o * 2^s = h
      BY <3>3
    <3>5. o \in 1 .. h /\ o % 2 = 1
      BY <3>3
    <3> HIDE DEF o
    <3>6. o * 2^(s + 1) = k
      <4> DEFINE w == 2^s
      <4>1. w \in Nat /\ 2^(s + 1) = 2 * w /\ o * w = h
        BY <3>4, PowersOfTwo
      <4> HIDE DEF w
      <4>2. o * (2 * w) = 2 * (o * w)
        BY <3>1, <3>5, <4>1
      <4>3. QED
        BY <3>1, <4>1, <4>2
    <3>7. o \in 1 .. k /\ s + 1 \in Nat
      BY <3>1, <3>5
    <3>8. QED
      BY <3>2, <3>5, <3>6, <3>7
  <2>3. k % 2 \in {0, 1}
    OBVIOUS
  <2>4. QED
    BY <2>1, <2>2, <2>3
<1>2. Nat \subseteq S
  <2> HIDE DEF S
  <2>1. QED
    BY <1>1, StrongInduction
<1>3. QED
  BY <1>2

\* The only prime that divides a power of two is two.
LEMMA PrimesOfPowersOfTwo ==
  ASSUME NEW p \in Nat, Prime(p), NEW s \in Nat, 2^s % p = 0
  PROVE  p = 2
<1>1. p \in Nat \ {0, 1}
  BY DEF Prime
<1> DEFINE S == {k \in Nat : 2^k % p = 0 => p = 2}
<1>2. 0 \in S
  <2>1. 2^0 = 1 /\ 1 % p = 1
    BY <1>1, PowersOfTwo
  <2>2. QED
    BY <2>1
<1>3. ASSUME NEW k \in Nat, k \in S
      PROVE  k + 1 \in S
  <2> DEFINE w == 2^k
  <2>1. w \in Nat /\ 2^(k + 1) = 2 * w /\ (w % p = 0 => p = 2)
    BY <1>3, PowersOfTwo
  <2> HIDE DEF w
  <2>2. (2 * w) % p = 0 => 2 % p = 0 \/ w % p = 0
    BY <2>1, EuclidsLemma
  <2>3. 2 % p = 0 => p = 2
    <3>1. p > 2 => 2 % p = 2
      BY <1>1
    <3>2. QED
      BY <1>1, <3>1
  <2>4. QED
    BY <2>1, <2>2, <2>3
<1>4. Nat \subseteq S
  <2> HIDE DEF S
  <2>1. QED
    BY <1>2, <1>3, Induction
<1>5. QED
  BY <1>4

\* The prime factors of a number, and those of its parts
LEMMA PrimeFactorsIs ==
  ASSUME NEW n \in Nat \ {0}, NEW p
  PROVE  p \in PrimeFactors(n) <=> p \in Nat /\ Prime(p) /\ n % p = 0
<1>1. ASSUME p \in Nat, Prime(p), n % p = 0
      PROVE  p \in PrimeFactors(n)
  <2>1. p > 1
    BY <1>1 DEF Prime
  <2>2. PICK k \in Nat : n = k * p
    BY <1>1, <2>1, Multiple
  <2>3. p <= n
    <3>1. k # 0
      <4>1. 0 * p = 0
        BY <1>1
      <4>2. QED
        BY <2>2, <4>1
    <3>2. k * p >= p
      BY <1>1, <3>1
    <3>3. QED
      BY <2>2, <3>2
  <2>4. p \in 2 .. n
    BY <1>1, <2>1, <2>3
  <2>5. QED
    BY <1>1, <2>4 DEF PrimeFactors, Divides
<1>2. ASSUME p \in PrimeFactors(n)
      PROVE  p \in Nat /\ Prime(p) /\ n % p = 0
  BY <1>2 DEF PrimeFactors, Divides
<1>3. QED
  BY <1>1, <1>2

\* Products
LEMMA PrimeFactorsOfProduct ==
  ASSUME NEW a \in Nat \ {0}, NEW b \in Nat \ {0}
  PROVE  PrimeFactors(a * b) = PrimeFactors(a) \union PrimeFactors(b)
<1>1. a * b \in Nat \ {0}
  <2>1. a * b # 0
    OBVIOUS
  <2>2. QED
    BY <2>1
<1>2. ASSUME NEW p \in Nat, Prime(p)
      PROVE  (a * b) % p = 0 <=> a % p = 0 \/ b % p = 0
  <2>1. p \in Nat \ {0}
    BY <1>2 DEF Prime
  <2>2. QED
    BY <1>2, <2>1, EuclidsLemma, DividesProduct
<1>3. QED
  BY <1>1, <1>2, PrimeFactorsIs

-----------------------------------------------------------------------------
(***************************************************************************)
(* Square roots: the identities behind the direct formula and the loop of  *)
(* Tonelli and Shanks                                                      *)
(***************************************************************************)

\* The law of exponents for powers of two
LEMMA TwoPowSum ==
  ASSUME NEW m \in Nat, NEW n \in Nat
  PROVE  2^(m + n) = 2^m * 2^n
<1> DEFINE S == {k \in Nat : 2^(m + k) = 2^m * 2^k}
           u == 2^m
<1>1. u \in Nat /\ 2^0 = 1
  BY PowersOfTwo
<1>2. 0 \in S
  <2>1. m + 0 = m /\ u * 1 = u
    BY <1>1
  <2>2. QED
    BY <1>1, <2>1
<1>3. ASSUME NEW k \in Nat, k \in S
      PROVE  k + 1 \in S
  <2> DEFINE v == 2^k
             w == 2^(m + k)
  <2>1. m + k \in Nat /\ m + (k + 1) = (m + k) + 1
    OBVIOUS
  <2>2. v \in Nat /\ w \in Nat /\ 2^(k + 1) = 2 * v /\ 2^((m + k) + 1) = 2 * w
    BY <2>1, PowersOfTwo
  <2>3. w = u * v
    BY <1>3
  <2> HIDE DEF u, v, w
  <2>4. 2 * (u * v) = u * (2 * v)
    BY <1>1, <2>2
  <2>5. 2^(m + (k + 1)) = u * 2^(k + 1)
    BY <2>1, <2>2, <2>3, <2>4
  <2>6. QED
    BY <2>5 DEF u
<1>4. Nat \subseteq S
  <2> HIDE DEF S
  <2>1. QED
    BY <1>2, <1>3, Induction
<1>5. QED
  BY <1>4

\* An odd part is at most as often doubled as another with the same product.
LEMMA SplitOrdered ==
  ASSUME NEW d \in Nat, NEW e \in Nat, NEW s \in Nat, NEW t \in Nat, d % 2 = 1, e % 2 = 1,
         d * 2^s = e * 2^t, s <= t
  PROVE  d = e /\ s = t
<1> DEFINE w == t - s
           P == 2^s
           Q == 2^w
<1>1. w \in Nat /\ t = s + w
  OBVIOUS
<1>2. P \in Nat \ {0} /\ Q \in Nat \ {0} /\ 2^t = P * Q
  <2>1. P \in Nat \ {0} /\ Q \in Nat \ {0}
    BY <1>1, PowersOfTwo
  <2>2. 2^(s + w) = P * Q
    BY <1>1, TwoPowSum
  <2>3. QED
    BY <1>1, <2>1, <2>2
<1>3. d * P = e * (P * Q)
  BY <1>2
<1>4. w # 0 => Q % 2 = 0
  <2> SUFFICES ASSUME w # 0
               PROVE  Q % 2 = 0
    OBVIOUS
  <2>1. w - 1 \in Nat /\ (w - 1) + 1 = w
    BY <1>1
  <2> DEFINE h == 2^(w - 1)
  <2>2. Q = 2 * h /\ h \in Nat
    BY <2>1, PowersOfTwo
  <2> HIDE DEF h, Q
  <2>3. QED
    BY <2>2
<1> HIDE DEF P, Q, w
<1>5. d = e * Q
  <2>1. e * (P * Q) = (e * Q) * P
    BY <1>2
  <2> DEFINE k == e * Q
  <2>2. k \in Nat /\ d * P = k * P
    BY <1>2, <1>3, <2>1
  <2> HIDE DEF k
  <2>3. d = k
    BY <1>2, <2>2
  <2>4. QED
    BY <2>3 DEF k
<1>6. w = 0
  <2> SUFFICES ASSUME w # 0
               PROVE  FALSE
    OBVIOUS
  <2>1. (e * Q) % 2 = 0
    <3>1. Q % 2 = 0 /\ Q \in Nat
      BY <1>2, <1>4
    <3>2. 2 \in Nat \ {0}
      OBVIOUS
    <3>3. QED
      BY <3>1, <3>2, DividesProduct
  <2>2. QED
    BY <1>5, <2>1
<1>7. Q = 1
  BY <1>6, PowersOfTwo DEF Q
<1>8. QED
  BY <1>1, <1>5, <1>6, <1>7

\* The split into an odd number and a power of two is unique.
LEMMA SplitUnique ==
  ASSUME NEW d \in Nat, NEW e \in Nat, NEW s \in Nat, NEW t \in Nat, d % 2 = 1, e % 2 = 1,
         d * 2^s = e * 2^t
  PROVE  d = e /\ s = t
<1>1. CASE s <= t
  BY <1>1, SplitOrdered
<1>2. CASE t <= s
  BY <1>2, SplitOrdered
<1>3. QED
  BY <1>1, <1>2

\* -1 squared
LEMMA MinusOneSquared ==
  ASSUME NEW q \in Nat \ {0, 1}
  PROVE  MulMod(q - 1, q - 1, q) = 1
<1> DEFINE k == q - 2
<1>1. k \in Nat /\ 1 \in 0 .. q - 1 /\ q = k + 2
  OBVIOUS
<1>2. (q - 1) * (q - 1) \in Nat /\ (q - 1) * (q - 1) = k * q + 1
  <2>1. (k + 1) * (k + 1) = k * (k + 2) + 1
    BY <1>1
  <2>2. q - 1 = k + 1
    BY <1>1
  <2> HIDE DEF k
  <2>3. QED
    BY <1>1, <2>1, <2>2
<1> DEFINE a == (q - 1) * (q - 1)
<1>3. a \in Nat /\ a = k * q + 1
  BY <1>2
<1> HIDE DEF a, k
<1>4. a % q = 1
  BY <1>1, <1>3, ModUnique
<1>5. QED
  BY <1>4 DEF a, MulMod

\* Half of an odd number's power, twice: t = a^o and R = a^((o + 1) / 2)
LEMMA HalfPower ==
  ASSUME NEW q \in Nat \ {0, 1}, NEW a \in 0 .. q - 1, NEW h \in Nat, NEW o \in Nat,
         h + h = o + 1
  PROVE  MulMod(ModPow(a, h, q), ModPow(a, h, q), q) = MulMod(a, ModPow(a, o, q), q)
<1>1. a \in Nat /\ a % q = a /\ 1 \in Nat
  OBVIOUS
<1>2. MulMod(ModPow(a, h, q), ModPow(a, h, q), q) = ModPow(a, h + h, q)
  BY <1>1, ModPowSum
<1>3. MulMod(ModPow(a, 1, q), ModPow(a, o, q), q) = ModPow(a, 1 + o, q)
  BY <1>1, ModPowSum
<1>4. ModPow(a, 1, q) = a
  BY <1>1, ModPowType
<1>5. h + h = 1 + o
  OBVIOUS
<1>6. QED
  BY <1>2, <1>3, <1>4, <1>5

\* The direct formula for q % 4 = 3
LEMMA DirectRoot ==
  ASSUME NEW q \in Nat \ {0, 1}, q % 4 = 3, NEW a \in 0 .. q - 1,
         ModPow(a, (q - 1) \div 2, q) = 1
  PROVE  MulMod(ModPow(a, (q + 1) \div 4, q), ModPow(a, (q + 1) \div 4, q), q) = a
<1> DEFINE h == (q + 1) \div 4
           o == (q - 1) \div 2
<1>1. h \in Nat /\ o \in Nat /\ h + h = o + 1
  OBVIOUS
<1> HIDE DEF h, o
<1>2. MulMod(ModPow(a, h, q), ModPow(a, h, q), q) = MulMod(a, ModPow(a, o, q), q)
  BY <1>1, HalfPower
<1>3. ModPow(a, o, q) = 1
  BY DEF o
<1>4. a \in Nat /\ a % q = a /\ q \in Nat \ {0}
  OBVIOUS
<1>5. MulMod(a, 1, q) = a
  BY <1>4, MulModRing
<1>6. QED
  BY <1>2, <1>3, <1>5 DEF h

\* The odd-and-even split of q - 1
SplitOf(q, d, s) == d * 2^s = q - 1

\* R^2 = a * t
IsRootOf(R, a, t, q) == MulMod(R, R, q) = MulMod(a, t, q)

\* Euler's criterion in terms of the odd part
LEMMA EulerOfOddPower ==
  ASSUME NEW q \in Nat \ {0, 1}, NEW o \in Nat, NEW s \in Nat \ {0}, SplitOf(q, o, s),
         NEW a \in Nat
  PROVE  IsPower(ModPow(a, (q - 1) \div 2, q), ModPow(a, o, q), 2^(s - 1), q)
<1> DEFINE k == s - 1
           w == 2^k
           l == q - 1
<1>1. k \in Nat /\ k + 1 = s /\ l \in Nat
  OBVIOUS
<1>2. w \in Nat /\ 2^(k + 1) = 2 * w
  BY <1>1, PowersOfTwo
<1>3. o * 2^(k + 1) = l
  BY <1>1 DEF SplitOf
<1> HIDE DEF k, l
<1>4. ModPow(ModPow(a, o, q), w, q) = ModPow(a, o * w, q)
  BY <1>2, ModPowOfPow
<1> HIDE DEF w
<1>5. o * w \in Nat /\ l = 2 * (o * w)
  BY <1>2, <1>3
<1>6. l \div 2 = o * w
  <2> DEFINE m == o * w
  <2>1. m \in Nat /\ l = 2 * m
    BY <1>5
  <2> HIDE DEF m
  <2>2. l \div 2 = m
    BY <2>1
  <2>3. QED
    BY <2>2 DEF m
<1>7. QED
  BY <1>4, <1>6 DEF w, k, l, IsPower

\* The correction of R and t keeps R^2 = a * t.
LEMMA CorrectionKeeps ==
  ASSUME NEW q \in Nat \ {0}, NEW a \in Nat, NEW t \in Nat, NEW R \in Nat, NEW b \in Nat,
         IsRootOf(R, a, t, q)
  PROVE  IsRootOf(MulMod(R, b, q), a, MulMod(t, MulMod(b, b, q), q), q)
<1> DEFINE bb == MulMod(b, b, q)
           Rb == MulMod(R, b, q)
           bR == MulMod(b, R, q)
<1>1. \A x, y \in Nat : MulMod(x, y, q) \in Nat
  <2> SUFFICES ASSUME NEW x \in Nat, NEW y \in Nat
               PROVE  MulMod(x, y, q) \in Nat
    OBVIOUS
  <2>1. MulMod(x, y, q) \in 0 .. q - 1
    BY MulModType
  <2>2. QED
    BY <2>1
<1>2. bb \in Nat /\ Rb \in Nat /\ Rb = bR
  BY <1>1, MulModRing
<1>3. MulMod(Rb, Rb, q) = MulMod(R, MulMod(b, Rb, q), q)
  BY <1>2, MulModRing
<1>4. MulMod(b, Rb, q) = MulMod(Rb, b, q)
  BY <1>2, MulModRing
<1>5. MulMod(Rb, b, q) = MulMod(R, bb, q)
  BY MulModRing
<1>6. MulMod(R, MulMod(R, bb, q), q) = MulMod(MulMod(R, R, q), bb, q)
  <2> HIDE DEF bb
  <2>1. QED
    BY <1>2, MulModRing
<1>7. MulMod(MulMod(a, t, q), bb, q) = MulMod(a, MulMod(t, bb, q), q)
  <2> HIDE DEF bb
  <2>1. QED
    BY <1>2, MulModRing
<1>8. MulMod(R, R, q) = MulMod(a, t, q)
  BY DEF IsRootOf
<1>9. QED
  BY <1>3, <1>4, <1>5, <1>6, <1>7, <1>8 DEF IsRootOf

\* Squaring 2^k times, once more
LEMMA TwoPowerSquared ==
  ASSUME NEW q \in Nat \ {0, 1}, NEW a \in Nat, NEW k \in Nat,
         NEW x, IsPower(x, a, 2^k, q)
  PROVE  IsPower(MulMod(x, x, q), a, 2^(k + 1), q)
<1> DEFINE w == 2^k
<1>1. w \in Nat /\ 2^(k + 1) = 2 * w /\ w + w = 2 * w
  BY PowersOfTwo
<1>2. x = ModPow(a, w, q)
  BY DEF IsPower
<1> HIDE DEF w
<1>3. MulMod(x, x, q) = ModPow(a, w + w, q)
  BY <1>1, <1>2, ModPowSum
<1>4. QED
  BY <1>1, <1>3 DEF IsPower

\* The correction halves the order of t and of c: what makes M smaller.
LEMMA CorrectionOrders ==
  ASSUME NEW q \in Nat, Prime(q), NEW M \in Nat, NEW i \in Nat \ {0}, i < M,
         NEW c \in Nat, NEW t \in Nat, NEW b \in Nat,
         IsPower(q - 1, c, 2^(M - 1), q), IsPower(b, c, 2^(M - i - 1), q),
         IsPower(1, t, 2^i, q), ~IsPower(1, t, 2^(i - 1), q)
  PROVE  /\ IsPower(q - 1, MulMod(b, b, q), 2^(i - 1), q)
         /\ IsPower(1, MulMod(t, MulMod(b, b, q), q), 2^(i - 1), q)
<1> DEFINE h == i - 1
           w == 2^h
           e == M - i - 1
           v == 2^e
           B == MulMod(b, b, q)
<1>1. q \in Nat \ {0, 1} /\ h \in Nat /\ h + 1 = i /\ e \in Nat /\ M - 1 = (e + 1) + h
  BY DEF Prime
<1>2. w \in Nat /\ v \in Nat /\ 2^i = 2 * w /\ 2^(e + 1) = 2 * v
  BY <1>1, PowersOfTwo
<1>3. 2^(M - 1) = (2 * v) * w
  <2>1. e + 1 \in Nat
    BY <1>1
  <2>2. 2^((e + 1) + h) = 2^(e + 1) * 2^h
    <3> HIDE DEF e, h
    <3>1. QED
      BY <1>1, <2>1, TwoPowSum
  <2>3. QED
    BY <1>1, <1>2, <2>2
<1>4. b = ModPow(c, v, q) /\ q - 1 = ModPow(c, (2 * v) * w, q)
      /\ 1 = ModPow(t, 2 * w, q) /\ 1 # ModPow(t, w, q)
  BY <1>2, <1>3 DEF IsPower
<1> HIDE DEF w, v, h, e
<1>5. B = ModPow(c, 2 * v, q) /\ B \in Nat
  <2>1. v + v = 2 * v
    BY <1>2
  <2>2. MulMod(ModPow(c, v, q), ModPow(c, v, q), q) = ModPow(c, v + v, q)
    BY <1>1, <1>2, ModPowSum
  <2>3. MulMod(b, b, q) \in 0 .. q - 1
    BY <1>1, MulModType
  <2>4. QED
    BY <1>1, <1>4, <2>1, <2>2, <2>3
<1>6. ModPow(B, w, q) = q - 1
  <2>1. 2 * v \in Nat
    BY <1>2
  <2>2. ModPow(ModPow(c, 2 * v, q), w, q) = ModPow(c, (2 * v) * w, q)
    BY <1>1, <1>2, <2>1, ModPowOfPow
  <2>3. QED
    BY <1>4, <1>5, <2>2
<1>7. ModPow(t, w, q) = q - 1
  <2> DEFINE x == ModPow(t, w, q)
  <2>1. x \in 0 .. q - 1
    BY <1>1, <1>2, ModPowType
  <2>2. MulMod(x, x, q) = ModPow(t, w + w, q)
    BY <1>1, <1>2, ModPowSum
  <2>3. w + w = 2 * w
    BY <1>2
  <2>4. MulMod(x, x, q) = 1 /\ x # 1
    BY <1>4, <2>2, <2>3
  <2> HIDE DEF x
  <2>5. x \in {1, q - 1}
    BY <2>1, <2>4, SquareIsOne
  <2>6. QED
    BY <2>4, <2>5 DEF x
<1> HIDE DEF B
<1>8. ModPow(MulMod(t, B, q), w, q) = MulMod(ModPow(t, w, q), ModPow(B, w, q), q)
  BY <1>1, <1>2, <1>5, ModPowOfProduct
<1>9. MulMod(q - 1, q - 1, q) = 1
  BY <1>1, MinusOneSquared
<1>10. ModPow(MulMod(t, B, q), w, q) = 1
  BY <1>6, <1>7, <1>8, <1>9
<1>11. QED
  BY <1>6, <1>10 DEF B, w, h, IsPower

\* A square satisfies Euler's criterion.
LEMMA SquareHasEuler ==
  ASSUME NEW p \in Nat, Prime(p), p # 2, NEW s \in 0 .. p - 1, NEW a, a = MulMod(s, s, p),
         a # 0
  PROVE  ModPow(a, (p - 1) \div 2, p) = 1
<1> DEFINE h == (p - 1) \div 2
<1>1. p \in Nat \ {0, 1} /\ p % 2 = 1 /\ s \in Nat
  BY SmallPrimes DEF Prime
<1>2. h \in Nat /\ h + h = p - 1
  BY <1>1
<1> HIDE DEF h
<1>3. s % p # 0
  <2>1. ASSUME s = 0
        PROVE  FALSE
    <3>1. s * s = 0 /\ 0 % p = 0
      BY <1>1, <2>1
    <3>2. QED
      BY <3>1 DEF MulMod
  <2>2. QED
    BY <1>1, <2>1
<1>4. ModPow(s, p - 1, p) = 1
  BY <1>3, FermatModPow
<1>5. ModPow(MulMod(s, s, p), h, p) = MulMod(ModPow(s, h, p), ModPow(s, h, p), p)
  BY <1>1, <1>2, ModPowOfProduct
<1>6. MulMod(ModPow(s, h, p), ModPow(s, h, p), p) = ModPow(s, h + h, p)
  BY <1>1, <1>2, ModPowSum
<1>7. QED
  BY <1>2, <1>4, <1>5, <1>6 DEF h

\* A set is paired off by an involution without fixed points.
LEMMA PairedOff ==
  ASSUME NEW T \in SUBSET Nat, IsFiniteSet(T), NEW f \in [T -> T],
         \A x \in T : f[f[x]] = x /\ f[x] # x,
         NEW L, L = {x \in T : x < f[x]}
  PROVE  IsFiniteSet(L) /\ Cardinality(L) \in Nat /\ Cardinality(T) = 2 * Cardinality(L)
<1> DEFINE U == {x \in T : f[x] < x}
           g == [x \in L |-> f[x]]
<1>1. IsFiniteSet(L) /\ IsFiniteSet(U)
  BY FS_Subset
<1>2. g \in [L -> U]
  OBVIOUS
<1>3. ASSUME NEW y \in U
      PROVE  \E x \in L : g[x] = y
  <2>1. f[y] \in T /\ f[f[y]] = y /\ f[y] < y
    OBVIOUS
  <2>2. f[y] \in L /\ g[f[y]] = y
    BY <2>1
  <2>3. QED
    BY <2>2
<1>4. \A x, y \in L : g[x] = g[y] => x = y
  OBVIOUS
<1> HIDE DEF g
<1>5. g \in Bijection(L, U)
  BY <1>2, <1>3, <1>4 DEF Bijection, Injection, IsInjective, Surjection
<1>6. Cardinality(U) = Cardinality(L)
  BY <1>1, <1>5, FS_Bijection DEF ExistsBijection
<1>7. L \cap U = {} /\ L \union U = T
  <2>1. \A x \in T : x \in Nat /\ f[x] \in Nat /\ f[x] # x
    OBVIOUS
  <2>2. \A x \in T : (x < f[x] /\ ~(f[x] < x)) \/ (f[x] < x /\ ~(x < f[x]))
    BY <2>1
  <2>3. QED
    BY <2>2
<1>8. Cardinality(L \cap U) = 0
  BY <1>7, FS_EmptySet
<1>9. Cardinality(L) \in Nat /\ Cardinality(U) \in Nat
  BY <1>1, FS_CardinalityType
<1>10. Cardinality(T) = Cardinality(L) + Cardinality(U) - Cardinality(L \cap U)
  <2>1. Cardinality(L \union U) = Cardinality(L) + Cardinality(U) - Cardinality(L \cap U)
    BY <1>1, FS_Union
  <2>2. QED
    BY <1>7, <2>1
<1> HIDE DEF U
<1>11. QED
  BY <1>1, <1>6, <1>8, <1>9, <1>10

\* Residues that form a group under the multiplication modulo p
Group(T, p) ==
  /\ T \subseteq 1 .. p - 1 /\ 1 \in T
  /\ \A x, y \in T : MulMod(x, y, p) \in T
  /\ \A x \in T : \E y \in T : MulMod(x, y, p) = 1

SquaresIn(T, p) == {MulMod(x, x, p) : x \in T}

\* What is not zero modulo a prime has an inverse.
LEMMA UnitsGroup ==
  ASSUME NEW p \in Nat, Prime(p)
  PROVE  Group(1 .. p - 1, p)
<1>1. p \in Nat \ {0, 1} /\ 1 \in 1 .. p - 1
  BY DEF Prime
<1>2. ASSUME NEW x \in 1 .. p - 1, NEW y \in 1 .. p - 1
      PROVE  MulMod(x, y, p) \in 1 .. p - 1
  <2>1. x \in Nat /\ y \in Nat /\ x % p # 0 /\ y % p # 0
    BY <1>1
  <2>2. MulMod(x, y, p) \in 0 .. p - 1
    BY <1>1, <2>1, MulModType
  <2>3. MulMod(x, y, p) # 0
    BY <2>1, EuclidsLemma DEF MulMod
  <2>4. QED
    BY <1>1, <2>2, <2>3
<1>3. ASSUME NEW x \in 1 .. p - 1
      PROVE  \E y \in 1 .. p - 1 : MulMod(x, y, p) = 1
  <2> DEFINE e == p - 2
             y == ModPow(x, e, p)
  <2>1. x \in Nat /\ x % p = x /\ x # 0 /\ e \in Nat /\ 1 + e = p - 1 /\ 1 \in Nat
    BY <1>1
  <2> HIDE DEF e
  <2>2. ModPow(x, 1, p) = x
    BY <1>1, <2>1, ModPowType
  <2>3. MulMod(ModPow(x, 1, p), y, p) = ModPow(x, 1 + e, p)
    BY <1>1, <2>1, ModPowSum
  <2>4. ModPow(x, p - 1, p) = 1
    BY <2>1, FermatModPow
  <2>5. MulMod(x, y, p) = 1
    BY <2>1, <2>2, <2>3, <2>4
  <2>6. y \in 0 .. p - 1
    BY <1>1, <2>1, ModPowType
  <2> HIDE DEF y
  <2>7. y # 0
    <3>1. ASSUME y = 0
          PROVE  FALSE
      <4>1. x * 0 = 0 /\ 0 % p = 0
        BY <1>1, <2>1
      <4>2. QED
        BY <2>5, <3>1, <4>1 DEF MulMod
    <3>2. QED
      BY <3>1
  <2>8. y \in 1 .. p - 1
    BY <1>1, <2>6, <2>7
  <2>9. QED
    BY <2>5, <2>8
<1>4. QED
  BY <1>1, <1>2, <1>3 DEF Group

\* The inverses in a group
LEMMA Inverses ==
  ASSUME NEW p \in Nat, Prime(p), NEW T, Group(T, p)
  PROVE  \E f \in [T -> T] : \A x \in T : MulMod(x, f[x], p) = 1 /\ f[f[x]] = x
<1> DEFINE f == [x \in T |-> CHOOSE y \in T : MulMod(x, y, p) = 1]
<1>1. \A x \in T : x \in Nat /\ x % p = x
  BY DEF Group, Prime
<1>2. p \in Nat \ {0}
  BY DEF Prime
<1>3. ASSUME NEW x \in T
      PROVE  f[x] \in T /\ MulMod(x, f[x], p) = 1
  <2>1. \E y \in T : MulMod(x, y, p) = 1
    BY DEF Group
  <2>2. QED
    BY <2>1
<1> HIDE DEF f
<1>4. ASSUME NEW x \in T
      PROVE  f[f[x]] = x
  <2> DEFINE y == f[x]
             z == f[y]
  <2>1. y \in T /\ z \in T /\ MulMod(x, y, p) = 1 /\ MulMod(y, z, p) = 1
    BY <1>3
  <2> HIDE DEF y, z
  <2>2. x \in Nat /\ y \in Nat /\ z \in Nat /\ x % p = x /\ z % p = z
    BY <1>1, <2>1
  <2>3. MulMod(MulMod(x, y, p), z, p) = MulMod(x, MulMod(y, z, p), p)
    BY <1>2, <2>2, MulModRing
  <2>4. MulMod(1, z, p) = MulMod(x, 1, p)
    BY <2>1, <2>3
  <2>5. MulMod(1, z, p) = MulMod(z, 1, p) /\ MulMod(z, 1, p) = z % p /\ MulMod(x, 1, p) = x % p
    BY <1>2, <2>2, MulModRing
  <2>6. QED
    BY <2>2, <2>4, <2>5 DEF y, z
<1>5. f \in [T -> T]
  BY <1>3 DEF f
<1>6. QED
  BY <1>3, <1>4, <1>5

\* Without -1 no element but 1 is its own inverse, and the group is odd.
LEMMA GroupIsOdd ==
  ASSUME NEW p \in Nat, Prime(p), NEW T, Group(T, p), p - 1 \notin T
  PROVE  \E m \in Nat : Cardinality(T) = 2 * m + 1
<1>1. T \in SUBSET Nat /\ 1 \in T /\ p \in Nat \ {0, 1} /\ T \subseteq 1 .. p - 1
  BY DEF Group, Prime
<1>2. IsFiniteSet(T)
  <2>1. IsFiniteSet(1 .. p - 1)
    BY <1>1, FS_Interval
  <2>2. T \in SUBSET (1 .. p - 1)
    BY <1>1
  <2>3. QED
    BY <2>1, <2>2, FS_Subset
<1>3. PICK f \in [T -> T] : \A x \in T : MulMod(x, f[x], p) = 1 /\ f[f[x]] = x
  BY Inverses
<1> DEFINE V == T \ {1}
           g == [x \in V |-> f[x]]
           L == {x \in V : x < g[x]}
<1>4. \A x \in T : f[x] = x => x = 1
  <2> SUFFICES ASSUME NEW x \in T, f[x] = x
               PROVE  x = 1
    OBVIOUS
  <2>1. MulMod(x, x, p) = 1
    BY <1>3
  <2>2. x \in 0 .. p - 1
    BY <1>1
  <2>3. x \in {1, p - 1}
    BY <2>1, <2>2, SquareIsOne
  <2>4. QED
    BY <2>3
<1>5. f[1] = 1
  <2>1. f[1] \in T /\ MulMod(1, f[1], p) = 1
    BY <1>1, <1>3
  <2> DEFINE y == f[1]
  <2> HIDE DEF y
  <2>2. y \in T /\ MulMod(1, y, p) = 1
    BY <2>1 DEF y
  <2>3. y \in Nat /\ y % p = y
    BY <1>1, <2>2
  <2>4. MulMod(1, y, p) = MulMod(y, 1, p) /\ MulMod(y, 1, p) = y % p
    BY <1>1, <2>3, MulModRing
  <2>5. QED
    BY <2>2, <2>3, <2>4 DEF y
<1>6. \A x \in V : f[x] \in V /\ f[x] # x
  <2> SUFFICES ASSUME NEW x \in V
               PROVE  f[x] \in V /\ f[x] # x
    OBVIOUS
  <2>1. f[x] \in T /\ f[f[x]] = x /\ x # 1
    BY <1>3
  <2>2. f[x] # 1
    BY <1>5, <2>1
  <2>3. QED
    BY <1>4, <2>1, <2>2
<1>7. g \in [V -> V] /\ \A x \in V : g[g[x]] = x /\ g[x] # x
  <2>1. g \in [V -> V]
    BY <1>6
  <2>2. \A x \in V : g[x] = f[x] /\ g[x] \in V
    BY <1>6
  <2> HIDE DEF g, V
  <2>3. \A x \in V : g[g[x]] = f[f[x]]
    BY <2>2
  <2>4. QED
    BY <1>3, <1>6, <2>1, <2>2, <2>3 DEF V
<1>8. V \in SUBSET Nat /\ IsFiniteSet(V)
  BY <1>1, <1>2, FS_Subset
<1>9. Cardinality(T) = Cardinality(V) + 1
  <2>1. Cardinality(V) = Cardinality(T) - 1
    BY <1>1, <1>2, FS_RemoveElement
  <2>2. Cardinality(T) \in Nat /\ Cardinality(V) \in Nat
    BY <1>2, <1>8, FS_CardinalityType
  <2>3. QED
    BY <2>1, <2>2
<1> HIDE DEF V, g
<1>10. Cardinality(L) \in Nat /\ Cardinality(V) = 2 * Cardinality(L)
  BY <1>7, <1>8, PairedOff
<1>11. QED
  BY <1>9, <1>10

\* The negative
LEMMA NegativeIs ==
  ASSUME NEW p \in Nat, NEW x \in 1 .. p - 1
  PROVE  MulMod(p - 1, x, p) = p - x
<1> DEFINE y == x - 1
           r == p - x
           m == (p - 1) * x
<1>1. y \in Nat /\ x \in Nat /\ p \in Nat \ {0} /\ r \in 0 .. p - 1 /\ m \in Nat
  OBVIOUS
<1>2. m = y * p + r
  <2>1. (p - 1) * x = p * x - x /\ y * p = p * x - p /\ p * x \in Nat
    BY <1>1
  <2>2. QED
    BY <1>1, <2>1
<1> HIDE DEF y, r, m
<1>3. m % p = r
  BY <1>1, <1>2, ModUnique
<1>4. QED
  BY <1>3 DEF r, m, MulMod

\* With -1 each square has two roots.
LEMMA SquaresGroup ==
  ASSUME NEW p \in Nat, Prime(p), p # 2, NEW T, Group(T, p), p - 1 \in T
  PROVE  /\ Group(SquaresIn(T, p), p) /\ Cardinality(SquaresIn(T, p)) \in Nat
         /\ Cardinality(T) = 2 * Cardinality(SquaresIn(T, p))
<1>1. T \in SUBSET Nat /\ 1 \in T /\ p \in Nat \ {0, 1} /\ T \subseteq 1 .. p - 1
  BY DEF Group, Prime
<1>2. IsFiniteSet(T)
  <2>1. IsFiniteSet(1 .. p - 1)
    BY <1>1, FS_Interval
  <2>2. T \in SUBSET (1 .. p - 1)
    BY <1>1
  <2>3. QED
    BY <2>1, <2>2, FS_Subset
<1>3. \A x \in T : x \in Nat /\ x % p = x /\ x # 0
  BY <1>1
<1>4. \A x, y \in T : MulMod(x, y, p) \in T
  BY DEF Group
<1> DEFINE Q == SquaresIn(T, p)
           sqr(x) == MulMod(x, x, p)
\* (x y)^2 = x^2 y^2
<1>5. ASSUME NEW x \in T, NEW y \in T
      PROVE  MulMod(sqr(x), sqr(y), p) = sqr(MulMod(x, y, p))
  <2>1. x \in Nat /\ y \in Nat /\ 1 \in Nat
    BY <1>3
  <2>2. \A z \in Nat : ModPow(z, 1, p) = z % p /\ ModPow(z, 1 + 1, p) = MulMod(z % p, z % p, p)
    <3> SUFFICES ASSUME NEW z \in Nat
                 PROVE  ModPow(z, 1, p) = z % p
                        /\ ModPow(z, 1 + 1, p) = MulMod(z % p, z % p, p)
      OBVIOUS
    <3>1. ModPow(z, 1, p) = z % p
      BY <1>1, <2>1, ModPowType
    <3>2. MulMod(ModPow(z, 1, p), ModPow(z, 1, p), p) = ModPow(z, 1 + 1, p)
      BY <1>1, <2>1, ModPowSum
    <3>3. QED
      BY <3>1, <3>2
  <2>3. ModPow(MulMod(x, y, p), 1 + 1, p)
          = MulMod(ModPow(x, 1 + 1, p), ModPow(y, 1 + 1, p), p)
    <3>1. 1 + 1 \in Nat
      OBVIOUS
    <3>2. QED
      BY <1>1, <2>1, <3>1, ModPowOfProduct
  <2>4. MulMod(x, y, p) \in T
    BY <1>4
  <2> DEFINE m == MulMod(x, y, p)
  <2> HIDE DEF m
  <2>5. m \in Nat /\ m % p = m /\ x % p = x /\ y % p = y
    BY <1>3, <2>4 DEF m
  <2>6. ModPow(m, 1 + 1, p) = sqr(m) /\ ModPow(x, 1 + 1, p) = sqr(x)
        /\ ModPow(y, 1 + 1, p) = sqr(y)
    BY <2>1, <2>2, <2>5
  <2>7. QED
    BY <2>3, <2>6 DEF m
<1>6. Group(Q, p)
  <2>1. Q \subseteq 1 .. p - 1
    BY <1>1, <1>4 DEF SquaresIn
  <2>2. sqr(1) = 1
    <3>1. 1 % p = 1 /\ 1 \in Nat
      BY <1>1
    <3>2. QED
      BY <1>1, <3>1, MulModRing
  <2>3. ASSUME NEW u \in Q, NEW v \in Q
        PROVE  MulMod(u, v, p) \in Q
    <3>1. PICK x \in T, y \in T : u = sqr(x) /\ v = sqr(y)
      BY <2>3 DEF SquaresIn
    <3>2. MulMod(u, v, p) = sqr(MulMod(x, y, p)) /\ MulMod(x, y, p) \in T
      BY <1>4, <1>5, <3>1
    <3>3. QED
      BY <3>2 DEF SquaresIn
  <2>4. ASSUME NEW u \in Q
        PROVE  \E v \in Q : MulMod(u, v, p) = 1
    <3>1. PICK x \in T : u = sqr(x)
      BY <2>4 DEF SquaresIn
    <3>2. PICK y \in T : MulMod(x, y, p) = 1
      BY DEF Group
    <3>3. MulMod(u, sqr(y), p) = 1 /\ sqr(y) \in Q
      BY <1>5, <2>2, <3>1, <3>2 DEF SquaresIn
    <3>4. QED
      BY <3>3
  <2>5. 1 \in Q
    BY <1>1, <2>2 DEF SquaresIn
  <2>6. QED
    BY <2>1, <2>3, <2>4, <2>5 DEF Group
\* -x is in T, and has the same square.
<1>7. ASSUME NEW x \in T
      PROVE  p - x \in T /\ p - x # x /\ p - (p - x) = x /\ sqr(p - x) = sqr(x)
  <2>1. x \in 1 .. p - 1 /\ x \in Nat /\ p - x \in Nat /\ p - 1 \in Nat
    BY <1>1
  <2>2. MulMod(p - 1, x, p) = p - x
    BY <2>1, NegativeIs
  <2>3. p - x \in T
    BY <1>4, <2>2
  <2>4. p - x # x /\ p - (p - x) = x
    BY <2>1, SmallPrimes
  <2>5. sqr(p - x) = MulMod(sqr(p - 1), sqr(x), p)
    BY <1>5, <2>2
  <2>6. sqr(p - 1) = 1
    BY <1>1, MinusOneSquared
  <2>7. MulMod(1, sqr(x), p) = sqr(x)
    <3> DEFINE s == sqr(x)
    <3>1. s \in T
      BY <1>4
    <3> HIDE DEF s
    <3>2. s \in Nat /\ s % p = s
      BY <1>3, <3>1
    <3>3. MulMod(1, s, p) = MulMod(s, 1, p) /\ MulMod(s, 1, p) = s % p
      BY <1>1, <3>2, MulModRing
    <3>4. QED
      BY <3>2, <3>3 DEF s
  <2>8. QED
    BY <2>3, <2>4, <2>5, <2>6, <2>7
<1> DEFINE f == [x \in T |-> p - x]
           L == {x \in T : x < f[x]}
<1>8. f \in [T -> T] /\ \A x \in T : f[f[x]] = x /\ f[x] # x
  BY <1>7
<1> HIDE DEF f
<1>9. IsFiniteSet(L) /\ Cardinality(L) \in Nat /\ Cardinality(T) = 2 * Cardinality(L)
  BY <1>1, <1>2, <1>8, PairedOff
\* Equal squares come of x and -x.
<1>10. ASSUME NEW x \in T, NEW y \in T, sqr(x) = sqr(y)
       PROVE  x = y \/ x = p - y
  <2>1. PICK z \in T : MulMod(y, z, p) = 1
    BY DEF Group
  <2> DEFINE m == MulMod(x, z, p)
  <2>2. /\ m \in T /\ sqr(m) = MulMod(sqr(x), sqr(z), p)
        /\ sqr(MulMod(y, z, p)) = MulMod(sqr(y), sqr(z), p)
    BY <1>4, <1>5
  <2>3. sqr(1) = 1
    <3>1. 1 % p = 1 /\ 1 \in Nat
      BY <1>1
    <3>2. QED
      BY <1>1, <3>1, MulModRing
  <2>4. sqr(m) = 1
    BY <1>10, <2>1, <2>2, <2>3
  <2> HIDE DEF m
  <2>5. m \in {1, p - 1}
    <3>1. m \in 0 .. p - 1
      BY <1>1, <2>2
    <3>2. QED
      BY <2>4, <3>1, SquareIsOne
  <2>6. x \in Nat /\ y \in Nat /\ z \in Nat /\ x % p = x /\ y % p = y /\ z % p # 0
    BY <1>3
  <2>7. m = 1 => x = y
    <3>1. MulMod(z, x, p) = MulMod(x, z, p) /\ MulMod(z, y, p) = MulMod(y, z, p)
      BY <1>1, <2>6, MulModRing
    <3>2. QED
      BY <2>1, <2>6, <3>1, Cancel DEF m
  <2>8. m = p - 1 => x = p - y
    <3>1. p - y \in T /\ p - y = MulMod(p - 1, y, p)
      <4>1. p - y \in T
        BY <1>7
      <4>2. y \in 1 .. p - 1
        BY <1>1
      <4>3. QED
        BY <4>1, <4>2, NegativeIs
    <3> DEFINE n == p - 1
    <3>0. n \in Nat /\ n % p = n
      BY <1>3
    <3> HIDE DEF n
    <3>2. MulMod(MulMod(n, y, p), z, p) = MulMod(n, MulMod(y, z, p), p)
      BY <1>1, <2>6, <3>0, MulModRing
    <3>3. MulMod(n, 1, p) = n
      BY <1>1, <3>0, MulModRing
    <3>4. MulMod(p - y, z, p) = p - 1
      BY <2>1, <3>1, <3>2, <3>3 DEF n
    <3>5. p - y \in Nat /\ (p - y) % p = p - y
      BY <1>3, <3>1
    <3>6. MulMod(z, x, p) = MulMod(x, z, p) /\ MulMod(z, p - y, p) = MulMod(p - y, z, p)
      BY <1>1, <2>6, <3>5, MulModRing
    <3>7. QED
      BY <2>6, <3>4, <3>5, <3>6, Cancel DEF m
  <2>9. QED
    BY <2>5, <2>7, <2>8
<1> DEFINE g == [x \in L |-> sqr(x)]
<1>11. g \in [L -> Q]
  BY DEF SquaresIn
<1>12. \A x, y \in L : g[x] = g[y] => x = y
  <2> SUFFICES ASSUME NEW x \in L, NEW y \in L, sqr(x) = sqr(y)
               PROVE  x = y
    OBVIOUS
  <2>1. x \in T /\ y \in T /\ x < p - x /\ y < p - y
    BY DEF f
  <2>2. x = y \/ x = p - y
    BY <1>10, <2>1
  <2>3. x \in Nat /\ y \in Nat
    BY <1>3, <2>1
  <2>4. QED
    BY <2>1, <2>2, <2>3
<1>13. \A u \in Q : \E x \in L : g[x] = u
  <2> SUFFICES ASSUME NEW x \in T
               PROVE  \E y \in L : sqr(y) = sqr(x)
    BY DEF SquaresIn
  <2>1. p - x \in T /\ sqr(p - x) = sqr(x) /\ p - x # x /\ p - (p - x) = x
    BY <1>7
  <2>2. x < p - x \/ p - x < p - (p - x)
    <3>1. x \in Nat /\ p - x \in Nat
      BY <1>3, <2>1
    <3>2. x < p - x \/ p - x < x
      BY <2>1, <3>1
    <3>3. QED
      BY <2>1, <3>2
  <2>3. x \in L \/ p - x \in L
    BY <2>1, <2>2 DEF f
  <2>4. QED
    BY <2>1, <2>3
<1> HIDE DEF g, Q
<1>14. g \in Bijection(L, Q)
  BY <1>11, <1>12, <1>13 DEF Bijection, Injection, IsInjective, Surjection
<1>15. Cardinality(Q) = Cardinality(L)
  BY <1>9, <1>14, FS_Bijection DEF ExistsBijection
<1>16. QED
  BY <1>6, <1>9, <1>15 DEF Q

\* -1 to an odd power
LEMMA MinusOneToOdd ==
  ASSUME NEW q \in Nat \ {0, 1}, NEW d \in Nat, d % 2 = 1
  PROVE  ModPow(q - 1, d, q) = q - 1
<1> DEFINE n == q - 1
           h == d \div 2
<1>1. h \in Nat /\ d = 1 + (2 * h) /\ n \in Nat /\ n % q = n
  OBVIOUS
<1> HIDE DEF h
<1>2. ModPow(n, 1, q) = n
  <2> HIDE DEF n
  <2>1. QED
    BY <1>1, ModPowType
<1>3. MulMod(n, n, q) = 1
  BY MinusOneSquared
<1> HIDE DEF n
<1>4. ModPow(n, 1 + 1, q) = 1
  BY <1>1, <1>2, <1>3, ModPowSum
<1>5. ModPow(n, 2 * h, q) = 1
  <2>1. ModPow(ModPow(n, 2, q), h, q) = ModPow(n, 2 * h, q)
    BY <1>1, ModPowOfPow
  <2>2. 1 + 1 = 2
    OBVIOUS
  <2>3. ModPow(1, h, q) = 1
    BY <1>1, ModPowOfOne
  <2>4. QED
    BY <1>4, <2>1, <2>2, <2>3
<1>6. ModPow(n, 1 + (2 * h), q) = MulMod(n, 1, q)
  <2> DEFINE g == 2 * h
  <2>1. g \in Nat
    BY <1>1
  <2>2. ModPow(n, g, q) = 1
    BY <1>5
  <2> HIDE DEF g
  <2>3. MulMod(ModPow(n, 1, q), ModPow(n, g, q), q) = ModPow(n, 1 + g, q)
    BY <1>1, <2>1, ModPowSum
  <2>4. QED
    BY <1>2, <2>2, <2>3 DEF g
<1>7. MulMod(n, 1, q) = n
  BY <1>1, MulModRing
<1>8. QED
  BY <1>1, <1>6, <1>7 DEF n

\* The k-th powers of two of residues, in a group of d * 2^k elements
PowerGroup(T, p, d, j, k) ==
  /\ Group(T, p) /\ Cardinality(T) = d * 2^k
  /\ \A y \in T : \E x \in 1 .. p - 1 : IsPower(y, x, 2^j, p)

\* While the number of elements is even the squares are half of them.
LEMMA HalvePowers ==
  ASSUME NEW p \in Nat, Prime(p), p # 2, NEW d \in Nat, NEW j \in Nat, NEW k \in Nat \ {0},
         NEW T, PowerGroup(T, p, d, j, k)
  PROVE  p - 1 \in T /\ \E Q : PowerGroup(Q, p, d, j + 1, k - 1)
<1>1. Group(T, p) /\ Cardinality(T) = d * 2^k /\ p \in Nat \ {0, 1}
  BY DEF PowerGroup, Prime
<1> DEFINE i == k - 1
           w == 2^i
           c == Cardinality(T)
<1>2. i \in Nat /\ k = i + 1
  OBVIOUS
<1>3. w \in Nat /\ 2^k = 2 * w
  BY <1>2, PowersOfTwo
<1> HIDE DEF i
<1>4. c = 2 * (d * w) /\ d * w \in Nat
  <2>1. c = d * (2 * w)
    BY <1>1, <1>3
  <2> HIDE DEF w, c
  <2>2. QED
    BY <1>3, <2>1
<1>5. p - 1 \in T
  <2>1. ASSUME p - 1 \notin T
        PROVE  FALSE
    <3>1. PICK m \in Nat : c = 2 * m + 1
      BY <1>1, <2>1, GroupIsOdd
    <3> DEFINE e == d * w
    <3>2. e \in Nat /\ c = 2 * e
      BY <1>4
    <3> HIDE DEF e, c
    <3>3. QED
      BY <3>1, <3>2
  <2>2. QED
    BY <2>1
<1> DEFINE Q == SquaresIn(T, p)
<1>6. Group(Q, p) /\ Cardinality(Q) \in Nat /\ c = 2 * Cardinality(Q)
  BY <1>1, <1>5, SquaresGroup
<1>7. Cardinality(Q) = d * w
  <2> DEFINE e == d * w
             f == Cardinality(Q)
  <2>1. e \in Nat /\ c = 2 * e /\ f \in Nat /\ c = 2 * f
    BY <1>4, <1>6
  <2> HIDE DEF e, f, c
  <2>2. e = f
    BY <2>1
  <2>3. QED
    BY <2>2 DEF e, f
<1>8. ASSUME NEW u \in Q
      PROVE  \E x \in 1 .. p - 1 : IsPower(u, x, 2^(j + 1), p)
  <2>1. PICK y \in T : u = MulMod(y, y, p)
    BY DEF SquaresIn
  <2>2. PICK x \in 1 .. p - 1 : IsPower(y, x, 2^j, p)
    BY DEF PowerGroup
  <2>3. x \in Nat
    BY <1>1
  <2>4. IsPower(MulMod(y, y, p), x, 2^(j + 1), p)
    BY <1>1, <2>2, <2>3, TwoPowerSquared
  <2>5. QED
    BY <2>1, <2>4
<1> HIDE DEF Q
<1>9. PowerGroup(Q, p, d, j + 1, k - 1)
  BY <1>6, <1>7, <1>8 DEF PowerGroup, i
<1>10. QED
  BY <1>5, <1>9

\* There is a number that is no square modulo an odd prime.
LEMMA NonResidueExists ==
  ASSUME NEW p \in Nat, Prime(p), p # 2
  PROVE  \E z \in 2 .. p - 1 : ModPow(z, (p - 1) \div 2, p) = p - 1
<1>1. p \in Nat \ {0, 1} /\ p > 2 /\ p % 2 = 1 /\ p - 1 \in Nat \ {0} /\ (p - 1) % 2 = 0
  BY SmallPrimes DEF Prime
<1>2. PICK f : IsOddLoop(f)
  BY OddLoopExists
<1> DEFINE d == f[p - 1]
<1>3. d \in 1 .. p - 1 /\ d % 2 = 1 /\ \E s \in Nat : d * 2^s = p - 1
  BY <1>1, <1>2, OddLoopIs, Zenon
<1> HIDE DEF d
<1>4. PICK s \in Nat : SplitOf(p, d, s)
  BY <1>3 DEF SplitOf
<1>5. d \in Nat \ {0}
  BY <1>1, <1>3
<1>6. s # 0
  <2>1. ASSUME s = 0
        PROVE  FALSE
    <3>1. 2^0 = 1 /\ d * 1 = d
      BY <1>5, PowersOfTwo
    <3>2. d = p - 1
      BY <1>4, <2>1, <3>1 DEF SplitOf
    <3>3. QED
      BY <1>1, <1>3, <3>2
  <2>2. QED
    BY <2>1
<1> DEFINE S == {j \in Nat : j < s => \E T : PowerGroup(T, p, d, j, s - j)}
<1>7. 0 \in S
  <2> DEFINE G == 1 .. p - 1
  <2>1. Group(G, p)
    BY UnitsGroup
  <2>2. Cardinality(G) = p - 1
    BY <1>1, FS_Interval
  <2>3. ASSUME NEW y \in G
        PROVE  IsPower(y, y, 2^0, p)
    <3>1. 2^0 = 1
      BY PowersOfTwo
    <3>2. y \in Nat /\ y % p = y
      BY <1>1
    <3>3. ModPow(y, 1, p) = y
      BY <1>1, <3>2, ModPowType
    <3>4. QED
      BY <3>1, <3>3 DEF IsPower
  <2> HIDE DEF G
  <2>4. Cardinality(G) = d * 2^s
    BY <1>4, <2>2 DEF SplitOf
  <2>5. \A y \in G : \E x \in 1 .. p - 1 : IsPower(y, x, 2^0, p)
    BY <2>3 DEF G
  <2>6. PowerGroup(G, p, d, 0, s)
    BY <2>1, <2>4, <2>5 DEF PowerGroup
  <2>7. s - 0 = s
    OBVIOUS
  <2>8. QED
    BY <2>6, <2>7
<1>8. \A j \in Nat : j \in S => j + 1 \in S
  <2> SUFFICES ASSUME NEW j \in Nat, j \in S, j + 1 < s
               PROVE  \E T : PowerGroup(T, p, d, j + 1, s - (j + 1))
    OBVIOUS
  <2>1. s - j \in Nat \ {0} /\ (s - j) - 1 = s - (j + 1) /\ j < s
    OBVIOUS
  <2>2. PICK T : PowerGroup(T, p, d, j, s - j)
    BY <2>1
  <2>3. \E Q : PowerGroup(Q, p, d, j + 1, (s - j) - 1)
    BY <1>5, <2>1, <2>2, HalvePowers
  <2>4. QED
    BY <2>1, <2>3
<1> HIDE DEF S
<1>9. s - 1 \in S
  <2>1. Nat \subseteq S
    BY <1>7, <1>8, Induction
  <2>2. QED
    BY <1>6, <2>1
<1> DEFINE k == s - 1
<1>10. k \in Nat /\ k < s /\ s - k = 1 /\ 1 \in Nat \ {0}
  BY <1>6
<1>11. PICK T : PowerGroup(T, p, d, k, 1)
  BY <1>9, <1>10 DEF S
<1> HIDE DEF k
<1>12. p - 1 \in T
  BY <1>5, <1>10, <1>11, HalvePowers
<1>13. PICK x \in 1 .. p - 1 : IsPower(p - 1, x, 2^k, p)
  BY <1>11, <1>12 DEF PowerGroup
<1>14. x \in Nat
  BY <1>1
<1>15. ModPow(x, (p - 1) \div 2, p) = p - 1
  <2> DEFINE w == 2^k
             h == (p - 1) \div 2
  <2>1. w \in Nat /\ 2^(k + 1) = 2 * w
    BY <1>10, PowersOfTwo
  <2>2. k + 1 = s
    BY DEF k
  <2>3. d * (2 * w) = p - 1
    BY <1>4, <2>1, <2>2 DEF SplitOf
  <2>4. ModPow(x, w, p) = p - 1
    BY <1>13 DEF IsPower
  <2> HIDE DEF w
  <2>5. w * d \in Nat /\ p - 1 = 2 * (w * d)
    BY <1>5, <2>1, <2>3
  <2>6. h = w * d
    <3> DEFINE m == w * d
    <3>1. m \in Nat /\ p - 1 = 2 * m
      BY <2>5
    <3> HIDE DEF m
    <3>2. h = m
      BY <3>1
    <3>3. QED
      BY <3>2 DEF m
  <2> HIDE DEF h
  <2>7. ModPow(ModPow(x, w, p), d, p) = ModPow(x, w * d, p)
    BY <1>1, <1>5, <1>14, <2>1, ModPowOfPow
  <2>8. ModPow(p - 1, d, p) = p - 1
    BY <1>1, <1>3, <1>5, MinusOneToOdd
  <2>9. QED
    BY <2>4, <2>6, <2>7, <2>8 DEF h
<1>16. x # 1
  <2>1. ModPow(1, (p - 1) \div 2, p) = 1
    BY <1>1, ModPowOfOne
  <2>2. QED
    BY <1>1, <1>15, <2>1
<1>17. QED
  BY <1>1, <1>15, <1>16

-----------------------------------------------------------------------------
(***************************************************************************)
(* Orders that are powers of two                                           *)
(***************************************************************************)

\* A proper divisor of a power of two divides its half.
LEMMA DividesPowerOfTwo ==
  ASSUME NEW k \in Nat, NEW j \in Nat \ {0}, 2^k % j = 0, j # 2^k
  PROVE  k # 0 /\ 2^(k - 1) % j = 0
<1> DEFINE S == {i \in Nat : \A d \in Nat \ {0} :
                   2^i % d = 0 /\ d # 2^i => i # 0 /\ 2^(i - 1) % d = 0}
<1>1. 0 \in S
  <2> SUFFICES ASSUME NEW d \in Nat \ {0}, 2^0 % d = 0, d # 2^0
               PROVE  FALSE
    OBVIOUS
  <2>1. 2^0 = 1
    BY PowersOfTwo
  <2>2. QED
    BY <2>1
<1>2. ASSUME NEW i \in Nat, i \in S
      PROVE  i + 1 \in S
  <2> SUFFICES ASSUME NEW d \in Nat \ {0}, 2^(i + 1) % d = 0, d # 2^(i + 1)
               PROVE  2^i % d = 0
    <3>1. (i + 1) - 1 = i /\ i + 1 \in Nat /\ i + 1 # 0
      OBVIOUS
    <3>2. QED
      BY <3>1
  <2> DEFINE w == 2^i
             v == 2^(i + 1)
  <2>1. w \in Nat /\ v = 2 * w
    BY PowersOfTwo
  <2>0. v % d = 0 /\ d # v /\ v \in Nat
    BY <2>1
  <2>2. i \in S
    BY <1>2
  <2>3. \A e \in Nat \ {0} : w % e = 0 /\ e # w => i # 0 /\ 2^(i - 1) % e = 0
    BY <2>2
  <2> HIDE DEF v, S
  <2>4. PICK m \in Nat : v = m * d
    BY <2>0, Multiple
  <2>5. CASE m % 2 = 0
    <3> DEFINE h == m \div 2
    <3>1. h \in Nat /\ m = 2 * h
      BY <2>5
    <3> HIDE DEF h
    <3>2. v = 2 * (h * d) /\ h * d \in Nat
      BY <2>4, <3>1
    <3> HIDE DEF w
    <3>3. w = h * d
      <4> DEFINE e == h * d
      <4>1. e \in Nat /\ 2 * w = 2 * e
        BY <2>1, <3>2
      <4> HIDE DEF e
      <4>2. w = e
        BY <2>1, <4>1
      <4>3. QED
        BY <4>2 DEF e
    <3>4. w % d = 0
      BY <2>1, <3>1, <3>3, Multiple
    <3>5. QED
      BY <3>4 DEF w
  <2>6. CASE m % 2 = 1
    <3> DEFINE h == m \div 2
               e == d \div 2
    <3>1. h \in Nat /\ m = 2 * h + 1
      BY <2>6
    <3>2. d % 2 = 0
      <4> HIDE DEF h, w
      <4>1. v = 2 * (h * d) + d /\ h * d \in Nat
        BY <2>4, <3>1
      <4> DEFINE u == h * d
      <4>2. u \in Nat /\ 2 * w = 2 * u + d
        BY <2>1, <4>1
      <4> HIDE DEF u
      <4>3. QED
        BY <2>1, <4>2
    <3>3. e \in Nat \ {0} /\ d = 2 * e
      BY <3>2
    <3> HIDE DEF h, e, w
    <3>4. w = m * e
      <4> DEFINE u == m * e
      <4>1. u \in Nat /\ v = 2 * u
        BY <2>4, <3>3
      <4> HIDE DEF u
      <4>2. w = u
        BY <2>1, <4>1
      <4>3. QED
        BY <4>2 DEF u
    <3>5. w % e = 0
      BY <2>1, <3>3, <3>4, Multiple
    <3>6. e # w
      BY <2>0, <2>1, <3>3
    <3>7. i # 0 /\ 2^(i - 1) % e = 0
      BY <2>3, <3>3, <3>5, <3>6
    <3> DEFINE x == 2^(i - 1)
    <3>8. i - 1 \in Nat /\ (i - 1) + 1 = i
      BY <3>7
    <3>9. x \in Nat /\ w = 2 * x
      <4>1. x \in Nat /\ 2^((i - 1) + 1) = 2 * x
        BY <3>8, PowersOfTwo
      <4>2. QED
        BY <3>8, <4>1 DEF w
    <3>10. x % e = 0
      BY <3>7
    <3> HIDE DEF x
    <3>11. PICK n \in Nat : x = n * e
      BY <3>3, <3>9, <3>10, Multiple
    <3>12. w = n * d
      <4>1. n * d = n * (2 * e) /\ n * (2 * e) = 2 * (n * e)
        BY <3>3
      <4>2. QED
        BY <3>9, <3>11, <4>1
    <3>13. w % d = 0
      BY <2>1, <3>12, Multiple
    <3>14. QED
      BY <3>13 DEF w
  <2>7. QED
    BY <2>5, <2>6
<1> HIDE DEF S
<1>3. k \in S
  <2>1. Nat \subseteq S
    BY <1>1, <1>2, Induction
  <2>2. QED
    BY <2>1
<1>4. QED
  BY <1>3 DEF S

\* Half of a power of two
LEMMA HalfOfPower ==
  ASSUME NEW k \in Nat, NEW n, n = 2^k, n # 1
  PROVE  n \div 2 \in Nat /\ n = 2 * (n \div 2)
<1>1. k # 0
  <2>1. 2^0 = 1
    BY PowersOfTwo
  <2>2. QED
    BY <2>1
<1>2. k - 1 \in Nat /\ (k - 1) + 1 = k
  BY <1>1
<1> DEFINE u == 2^(k - 1)
<1>3. u \in Nat /\ n = 2 * u
  <2>1. u \in Nat /\ 2^((k - 1) + 1) = 2 * u
    BY <1>2, PowersOfTwo
  <2>2. QED
    BY <1>2, <2>1
<1> HIDE DEF u
<1>4. QED
  BY <1>3

\* Is x a root of unity of the order n? (The test of the code.)
Primitive(x, n, q) ==
  ModPow(x, n, q) = 1 /\ (n # 1 => ModPow(x, n \div 2, q) # 1)

\* For a power of two the test decides.
LEMMA PrimitiveHasOrder ==
  ASSUME NEW q \in Nat \ {0, 1}, NEW x \in Nat, NEW k \in Nat, NEW n, n = 2^k,
         Primitive(x, n, q)
  PROVE  HasOrder(x, n, q)
<1>1. n \in Nat \ {0}
  BY PowersOfTwo
<1>2. 1 % q = 1
  OBVIOUS
<1>3. \A e \in Nat : ModPow(x % q, e, q) = ModPow(x, e, q) /\ ModPow(x, e, q) = Pow(x, e) % q
  <2>1. 1 \in 0 .. q - 1
    OBVIOUS
  <2>2. QED
    BY ModPowBase, ModPowIs
<1>4. Pow(x, n) % q = 1
  BY <1>1, <1>3 DEF Primitive
<1>5. PICK j : IsOrder(x, j, q)
  BY <1>1, <1>4, OrderExists
<1>6. j \in Nat \ {0} /\ n % j = 0 /\ \A i \in Nat \ {0} : Pow(x, i) % q = 1 => j <= i
  <2>1. n \in Nat
    BY <1>1
  <2>2. QED
    BY <1>4, <1>5, <2>1, OrderDivides DEF IsOrder
<1>7. j = n
  <2>1. ASSUME j # n
        PROVE  FALSE
    <3>1. k # 0 /\ 2^(k - 1) % j = 0
      BY <1>6, <2>1, DividesPowerOfTwo
    <3> DEFINE h == 2^(k - 1)
    <3>2. k - 1 \in Nat /\ (k - 1) + 1 = k
      BY <3>1
    <3>3. h \in Nat \ {0} /\ n = 2 * h
      <4>1. h \in Nat \ {0} /\ 2^((k - 1) + 1) = 2 * h
        BY <3>2, PowersOfTwo
      <4>2. QED
        BY <3>2, <4>1
    <3>4. h % j = 0
      BY <3>1
    <3> HIDE DEF h
    <3>5. n \div 2 = h /\ n # 1
      BY <3>3
    <3>6. ModPow(x, h, q) # 1
      BY <3>5 DEF Primitive
    <3>7. PICK m \in Nat : h = m * j
      BY <1>6, <3>3, <3>4, Multiple
    <3>8. j \in Nat /\ Pow(x, j) % q = 1
      BY <1>5 DEF IsOrder
    <3>9. ModPow(x, j, q) = 1
      BY <1>3, <3>8
    <3>10. ModPow(ModPow(x, j, q), m, q) = ModPow(x, j * m, q)
      BY <3>7, <3>8, ModPowOfPow
    <3>11. ModPow(1, m, q) = 1 /\ j * m = h
      BY <3>7, <3>8, ModPowOfOne
    <3>12. QED
      BY <3>6, <3>9, <3>10, <3>11
  <2>2. QED
    BY <2>1
<1>8. ASSUME NEW i \in 1 .. n - 1
      PROVE  ModPow(x % q, i, q) # 1 % q
  <2>1. i \in Nat \ {0} /\ ~(j <= i)
    BY <1>1, <1>7
  <2>2. Pow(x, i) % q # 1
    BY <1>6, <2>1
  <2>3. QED
    BY <1>2, <1>3, <2>1, <2>2
<1>9. ModPow(x % q, n, q) = 1 % q
  BY <1>1, <1>2, <1>3, <1>4
<1>10. QED
  BY <1>8, <1>9 DEF HasOrder

\* The square of a root of order 2n has the order n.
LEMMA SquareHasHalfOrder ==
  ASSUME NEW q \in Nat \ {0, 1}, NEW p \in Nat, NEW n \in Nat \ {0}, HasOrder(p, 2 * n, q)
  PROVE  HasOrder(MulMod(p, p, q), n, q)
<1> DEFINE w == MulMod(p, p, q)
<1>1. w \in Nat /\ w % q = w
  <2>1. w \in 0 .. q - 1
    BY MulModType
  <2> HIDE DEF w
  <2>2. QED
    BY <2>1
<1>2. ASSUME NEW e \in Nat
      PROVE  ModPow(w % q, e, q) = ModPow(p % q, 2 * e, q)
  <2>1. ModPow(w, e, q) = MulMod(ModPow(p, e, q), ModPow(p, e, q), q)
    BY ModPowOfProduct
  <2>2. MulMod(ModPow(p, e, q), ModPow(p, e, q), q) = ModPow(p, e + e, q)
    BY ModPowSum
  <2>3. e + e = 2 * e /\ 2 * e \in Nat
    OBVIOUS
  <2>4. ModPow(p % q, 2 * e, q) = ModPow(p, 2 * e, q)
    BY <2>3, ModPowBase
  <2>5. QED
    BY <1>1, <2>1, <2>2, <2>3, <2>4
<1> HIDE DEF w
<1>3. ModPow(w % q, n, q) = 1 % q
  BY <1>2 DEF HasOrder
<1>4. ASSUME NEW j \in 1 .. n - 1
      PROVE  ModPow(w % q, j, q) # 1 % q
  <2>1. j \in Nat /\ 2 * j \in 1 .. (2 * n) - 1
    OBVIOUS
  <2>2. ModPow(p % q, 2 * j, q) # 1 % q
    BY <2>1 DEF HasOrder
  <2>3. QED
    BY <1>2, <2>1, <2>2
<1>5. QED
  BY <1>3, <1>4 DEF HasOrder, w

\* A power of a generator
LEMMA GeneratorRoot ==
  ASSUME NEW q \in Nat, Prime(q), NEW g \in Nat, g % q # 0, NEW k \in Nat, NEW n, n = 2^k,
         (q - 1) % n = 0, ModPow(g, (q - 1) \div 2, q) # 1
  PROVE  /\ HasOrder(ModPow(g, (q - 1) \div n, q), n, q)
         /\ ModPow(g, (q - 1) \div n, q) \in 0 .. q - 1
<1> DEFINE l == q - 1
           e == l \div n
           x == ModPow(g, e, q)
<1>1. q \in Nat \ {0, 1} /\ l \in Nat \ {0} /\ n \in Nat \ {0}
  BY PowersOfTwo DEF Prime
<1>2. ModPow(g, l, q) = 1
  BY FermatModPow
<1>3. l % n = 0 /\ ModPow(g, l \div 2, q) # 1
  OBVIOUS
<1> HIDE DEF l
<1>4. e \in Nat /\ l = e * n
  BY <1>1, <1>3, ExactQuotient
<1> HIDE DEF e
<1>5. x \in 0 .. q - 1 /\ x \in Nat
  <2>1. x \in 0 .. q - 1
    BY <1>1, <1>4, ModPowType
  <2> HIDE DEF x
  <2>2. QED
    BY <1>1, <2>1
<1>6. ModPow(x, n, q) = 1
  BY <1>1, <1>2, <1>4, ModPowOfPow
<1>7. ASSUME n # 1
      PROVE  ModPow(x, n \div 2, q) # 1
  <2> DEFINE h == n \div 2
  <2>1. h \in Nat /\ n = 2 * h
    BY <1>7, HalfOfPower
  <2> HIDE DEF h
  <2>2. e * h \in Nat /\ l = 2 * (e * h)
    BY <1>4, <2>1
  <2>3. l \div 2 = e * h
    <3> DEFINE m == e * h
    <3>1. m \in Nat /\ l = 2 * m
      BY <2>2
    <3> HIDE DEF m
    <3>2. l \div 2 = m
      BY <3>1
    <3>3. QED
      BY <3>2 DEF m
  <2>4. ModPow(x, h, q) = ModPow(g, e * h, q)
    BY <1>1, <1>4, <2>1, ModPowOfPow
  <2>5. QED
    BY <1>3, <2>3, <2>4 DEF h
<1> HIDE DEF x
<1>8. HasOrder(x, n, q)
  BY <1>1, <1>5, <1>6, <1>7, PrimitiveHasOrder DEF Primitive
<1>9. QED
  BY <1>5, <1>8 DEF x, e, l

\* A square root of a root of unity that is not 1
LEMMA RootHasDoubleOrder ==
  ASSUME NEW q \in Nat \ {0, 1}, NEW w \in Nat, NEW k \in Nat, NEW n, n = 2^k, n # 1,
         Primitive(w, n, q), NEW p \in Nat, MulMod(p, p, q) = w % q
  PROVE  HasOrder(p, 2 * n, q)
<1>1. n \in Nat \ {0}
  BY PowersOfTwo
<1>2. \A e \in Nat : ModPow(p, 2 * e, q) = ModPow(w, e, q)
  <2> SUFFICES ASSUME NEW e \in Nat
               PROVE  ModPow(p, 2 * e, q) = ModPow(w, e, q)
    OBVIOUS
  <2>1. ModPow(MulMod(p, p, q), e, q) = MulMod(ModPow(p, e, q), ModPow(p, e, q), q)
    BY ModPowOfProduct
  <2>2. MulMod(ModPow(p, e, q), ModPow(p, e, q), q) = ModPow(p, e + e, q)
    BY ModPowSum
  <2>3. e + e = 2 * e
    OBVIOUS
  <2>4. ModPow(w % q, e, q) = ModPow(w, e, q)
    BY ModPowBase
  <2>5. QED
    BY <2>1, <2>2, <2>3, <2>4
<1> DEFINE h == n \div 2
<1>4. h \in Nat /\ n = 2 * h
  BY HalfOfPower
<1>5. ModPow(p, 2 * n, q) = 1
  BY <1>1, <1>2 DEF Primitive
<1>6. ModPow(p, n, q) # 1
  <2>1. ModPow(w, h, q) # 1
    BY DEF Primitive
  <2> HIDE DEF h
  <2>2. QED
    BY <1>2, <1>4, <2>1
<1>7. (2 * n) \div 2 = n
  BY <1>1
<1>8. Primitive(p, 2 * n, q)
  BY <1>5, <1>6, <1>7 DEF Primitive
<1>9. k + 1 \in Nat /\ 2 * n = 2^(k + 1)
  BY PowersOfTwo
<1>10. QED
  BY <1>8, <1>9, PrimitiveHasOrder

-----------------------------------------------------------------------------
(***************************************************************************)
(* Sums                                                                    *)
(***************************************************************************)

\* Residues add.
LEMMA SumMod ==
  ASSUME NEW q \in Nat \ {0}, NEW a \in Nat, NEW b \in Nat
  PROVE  (a + b) % q = ((a % q) + b) % q
<1> DEFINE d == a \div q
           r == a % q
<1>1. d \in Nat /\ r \in 0 .. q - 1 /\ a = d * q + r
  BY DivMod
<1> HIDE DEF d
<1>2. r \in Nat /\ r + b \in Nat
  BY <1>1
<1>3. (d * q + (r + b)) % q = (r + b) % q
  BY <1>1, <1>2, ModAdd
<1>4. d * q + (r + b) = a + b
  <2> DEFINE m == d * q
  <2>1. m \in Nat /\ a = m + r
    BY <1>1
  <2> HIDE DEF m, r
  <2>2. m + (r + b) = a + b
    BY <1>2, <2>1
  <2>3. QED
    BY <2>2 DEF m
<1>5. QED
  BY <1>3, <1>4

Congruent(a, b, q) == a % q = b % q

\* Sums of congruent numbers are congruent,
LEMMA SumCongruent ==
  ASSUME NEW q \in Nat \ {0}, NEW a \in Nat, NEW b \in Nat, NEW c \in Nat, NEW d \in Nat,
         Congruent(a, b, q), Congruent(c, d, q)
  PROVE  Congruent(a + c, b + d, q)
<1>1. (a + c) % q = ((a % q) + c) % q /\ (b + c) % q = ((b % q) + c) % q
  BY SumMod
<1>2. (c + b) % q = ((c % q) + b) % q /\ (d + b) % q = ((d % q) + b) % q
  BY SumMod
<1>3. b + c = c + b /\ b + d = d + b
  OBVIOUS
<1>4. QED
  BY <1>1, <1>2, <1>3 DEF Congruent

\* and so are products.
LEMMA ProductCongruent ==
  ASSUME NEW q \in Nat \ {0}, NEW a \in Nat, NEW b \in Nat, NEW c \in Nat, NEW d \in Nat,
         Congruent(a, b, q), Congruent(c, d, q)
  PROVE  Congruent(a * c, b * d, q)
<1>1. ((a % q) * (c % q)) % q = (a * c) % q /\ ((b % q) * (d % q)) % q = (b * d) % q
  BY ModMulBoth
<1>2. QED
  BY <1>1 DEF Congruent

IsSum(s, f, k) == s = [j \in 0 .. k |-> IF j = 0 THEN 0 ELSE s[j - 1] + f[j - 1]]

Summable(f, k) == \A i \in 0 .. k - 1 : f[i] \in Nat

\* The function that Total defines exists.
LEMMA SumExists ==
  ASSUME NEW k \in Nat, NEW f, Summable(f, k)
  PROVE  \E s : IsSum(s, f, k)
<1> DEFINE A == 0 .. k
           B == {0}
           C == [j \in A |-> 0]
           D == [t \in A \X Nat |-> IF t[1] = 0 THEN 0 ELSE t[2] + f[t[1] - 1]]
           G == [j \in A |-> j - 1]
           M == [j \in A |-> j]
<1>1. C \in [A -> Nat] /\ M \in [A -> Nat]
  OBVIOUS
<1>2. D \in [A \X Nat -> Nat]
  <2> SUFFICES ASSUME NEW t \in A \X Nat
               PROVE  (IF t[1] = 0 THEN 0 ELSE t[2] + f[t[1] - 1]) \in Nat
    OBVIOUS
  <2>1. t[1] \in A /\ t[2] \in Nat
    OBVIOUS
  <2>2. CASE t[1] = 0
    BY <2>2
  <2>3. CASE t[1] # 0
    <3>1. f[t[1] - 1] \in Nat
      BY <2>1, <2>3 DEF Summable
    <3>2. QED
      BY <2>1, <2>3, <3>1
  <2>4. QED
    BY <2>2, <2>3
<1>3. \A j \in A \ B : G[j] \in A /\ M[G[j]] < M[j]
  OBVIOUS
<1>4. \A j \in A : G[j] = j - 1 /\ C[j] = 0 /\ (j \in B <=> j = 0)
  OBVIOUS
<1>5. \A j \in A, v \in Nat : j # 0 => D[<<j, v>>] = v + f[j - 1]
  OBVIOUS
<1>6. \A j \in A : j # 0 => j - 1 \in A
  OBVIOUS
<1> HIDE DEF A, B, C, D, G, M
<1>7. PICK s : Solves(s, A, B, C, D, G)
  BY <1>1, <1>2, <1>3, RecursionExists
<1>8. s \in [A -> Nat]
  BY <1>1, <1>2, <1>3, <1>7, RecursionType
<1>9. \A j \in A : s[j] = IF j = 0 THEN 0 ELSE s[j - 1] + f[j - 1]
  <2> SUFFICES ASSUME NEW j \in A
               PROVE  s[j] = IF j = 0 THEN 0 ELSE s[j - 1] + f[j - 1]
    OBVIOUS
  <2>1. s[j] = IF j \in B THEN C[j] ELSE D[<<j, s[G[j]]>>]
    BY <1>7 DEF Solves
  <2>2. CASE j = 0
    BY <1>4, <2>1, <2>2
  <2>3. CASE j # 0
    <3>1. s[j - 1] \in Nat
      BY <1>6, <1>8, <2>3
    <3>2. s[j] = D[<<j, s[j - 1]>>]
      BY <1>4, <2>1, <2>3
    <3>3. QED
      BY <1>5, <2>3, <3>1, <3>2
  <2>4. QED
    BY <2>2, <2>3
<1>10. s = [j \in A |-> IF j = 0 THEN 0 ELSE s[j - 1] + f[j - 1]]
  BY <1>8, <1>9
<1>11. QED
  BY <1>10 DEF IsSum, A

\* Total is its last value.
LEMMA TotalIs ==
  ASSUME NEW k \in Nat, NEW f, Summable(f, k)
  PROVE  \E s : IsSum(s, f, k) /\ Total(f, k) = s[k]
<1> DEFINE s == CHOOSE h : h = [j \in 0 .. k |-> IF j = 0 THEN 0 ELSE h[j - 1] + f[j - 1]]
<1>1. IsSum(s, f, k)
  BY SumExists DEF IsSum
<1>2. Total(f, k) = s[k]
  BY DEF Total
<1>3. QED
  BY <1>1, <1>2

\* The values of it
LEMMA SumStep ==
  ASSUME NEW k \in Nat, NEW f, NEW s, IsSum(s, f, k), NEW j \in 0 .. k
  PROVE  s[j] = IF j = 0 THEN 0 ELSE s[j - 1] + f[j - 1]
BY DEF IsSum

\* A sum is a number, and its first values do not depend on where it ends.
LEMMA SumsAgree ==
  ASSUME NEW k \in Nat, NEW l \in Nat, k <= l, NEW f, Summable(f, l),
         NEW s, IsSum(s, f, k), NEW t, IsSum(t, f, l)
  PROVE  s[k] = t[k] /\ s[k] \in Nat
<1> DEFINE S == {j \in Nat : j <= k => s[j] = t[j] /\ s[j] \in Nat}
<1>1. 0 \in S
  <2>1. s[0] = 0 /\ t[0] = 0
    BY SumStep
  <2>2. QED
    BY <2>1
<1>2. ASSUME NEW j \in Nat, j \in S
      PROVE  j + 1 \in S
  <2> SUFFICES ASSUME j + 1 <= k
               PROVE  s[j + 1] = t[j + 1] /\ s[j + 1] \in Nat
    OBVIOUS
  <2>1. j + 1 \in 0 .. k /\ j + 1 \in 0 .. l /\ j + 1 # 0 /\ (j + 1) - 1 = j
    OBVIOUS
  <2>2. s[j + 1] = s[j] + f[j] /\ t[j + 1] = t[j] + f[j]
    BY <2>1, SumStep
  <2>3. f[j] \in Nat
    BY DEF Summable
  <2>4. QED
    BY <1>2, <2>2, <2>3
<1>3. Nat \subseteq S
  <2> HIDE DEF S
  <2>1. QED
    BY <1>1, <1>2, Induction
<1>4. QED
  BY <1>3

\* The equations of Total
LEMMA TotalStep ==
  ASSUME NEW k \in Nat, NEW f
  PROVE  /\ Total(f, 0) = 0
         /\ Summable(f, k) => Total(f, k) \in Nat
         /\ Summable(f, k + 1) => Total(f, k + 1) = Total(f, k) + f[k]
<1>1. Total(f, 0) = 0
  <2>1. Summable(f, 0)
    BY DEF Summable
  <2>2. PICK s : IsSum(s, f, 0) /\ Total(f, 0) = s[0]
    BY <2>1, TotalIs
  <2>3. QED
    BY <2>2, SumStep
<1>2. ASSUME Summable(f, k)
      PROVE  Total(f, k) \in Nat
  <2>1. PICK s : IsSum(s, f, k) /\ Total(f, k) = s[k]
    BY <1>2, TotalIs
  <2>2. QED
    BY <1>2, <2>1, SumsAgree
<1>3. ASSUME Summable(f, k + 1)
      PROVE  Total(f, k + 1) = Total(f, k) + f[k]
  <2>1. Summable(f, k) /\ k + 1 \in Nat /\ k <= k + 1
    BY <1>3 DEF Summable
  <2>2. PICK s : IsSum(s, f, k) /\ Total(f, k) = s[k]
    BY <2>1, TotalIs
  <2>3. PICK t : IsSum(t, f, k + 1) /\ Total(f, k + 1) = t[k + 1]
    BY <1>3, <2>1, TotalIs
  <2>4. s[k] = t[k]
    BY <1>3, <2>1, <2>2, <2>3, SumsAgree
  <2>5. k + 1 \in 0 .. k + 1 /\ k + 1 # 0 /\ (k + 1) - 1 = k
    OBVIOUS
  <2>6. t[k + 1] = t[k] + f[k]
    BY <2>1, <2>3, <2>5, SumStep
  <2>7. QED
    BY <2>2, <2>3, <2>4, <2>6
<1>4. QED
  BY <1>1, <1>2, <1>3

\* A sum is a number.
LEMMA TotalNat ==
  ASSUME NEW k \in Nat, NEW f, Summable(f, k)
  PROVE  Total(f, k) \in Nat
BY TotalStep

\* What the partial sums satisfy at 0 and keep, the sum satisfies.
\* Congruent terms have congruent sums.
LEMMA TotalCongruent ==
  ASSUME NEW q \in Nat \ {0}, NEW k \in Nat, NEW f, NEW g, Summable(f, k), Summable(g, k),
         \A i \in 0 .. k - 1 : Congruent(f[i], g[i], q)
  PROVE  Congruent(Total(f, k), Total(g, k), q)
<1> DEFINE S == {j \in Nat : j <= k => Congruent(Total(f, j), Total(g, j), q)}
<1>1. 0 \in S
  BY TotalStep DEF Congruent
<1>2. ASSUME NEW j \in Nat, j \in S
      PROVE  j + 1 \in S
  <2> SUFFICES ASSUME j + 1 <= k
               PROVE  Congruent(Total(f, j + 1), Total(g, j + 1), q)
    OBVIOUS
  <2> DEFINE a == Total(f, j)
             b == Total(g, j)
  <2>1. Summable(f, j + 1) /\ Summable(g, j + 1) /\ Summable(f, j) /\ Summable(g, j)
    BY DEF Summable
  <2>2. Total(f, j + 1) = a + f[j] /\ Total(g, j + 1) = b + g[j]
    BY <2>1, TotalStep
  <2>3. a \in Nat /\ b \in Nat /\ f[j] \in Nat /\ g[j] \in Nat /\ Congruent(f[j], g[j], q)
    BY <2>1, TotalNat DEF Summable
  <2>4. Congruent(a, b, q)
    BY <1>2
  <2> HIDE DEF a, b
  <2>5. Congruent(a + f[j], b + g[j], q)
    BY <2>3, <2>4, SumCongruent
  <2>6. QED
    BY <2>2, <2>5
<1>3. Nat \subseteq S
  <2> HIDE DEF S
  <2>1. QED
    BY <1>1, <1>2, Induction
<1>4. QED
  BY <1>3

\* So do equal terms have equal sums.
LEMMA TotalEqual ==
  ASSUME NEW k \in Nat, NEW f, NEW g, Summable(f, k), \A i \in 0 .. k - 1 : f[i] = g[i]
  PROVE  Total(f, k) = Total(g, k)
<1> DEFINE S == {j \in Nat : j <= k => Total(f, j) = Total(g, j)}
<1>1. 0 \in S
  BY TotalStep
<1>2. ASSUME NEW j \in Nat, j \in S
      PROVE  j + 1 \in S
  <2> SUFFICES ASSUME j + 1 <= k
               PROVE  Total(f, j + 1) = Total(g, j + 1)
    OBVIOUS
  <2>1. Summable(f, j + 1) /\ Summable(g, j + 1)
    BY DEF Summable
  <2>2. Total(f, j + 1) = Total(f, j) + f[j] /\ Total(g, j + 1) = Total(g, j) + g[j]
    BY <2>1, TotalStep
  <2>3. Total(f, j) = Total(g, j) /\ f[j] = g[j]
    BY <1>2
  <2>4. QED
    BY <2>2, <2>3
<1>3. Nat \subseteq S
  <2> HIDE DEF S
  <2>1. QED
    BY <1>1, <1>2, Induction
<1>4. QED
  BY <1>3

\* The sum of sums
LEMMA TotalPlus ==
  ASSUME NEW k \in Nat, NEW f, NEW g, NEW h, Summable(f, k), Summable(g, k),
         \A i \in 0 .. k - 1 : h[i] = f[i] + g[i]
  PROVE  Total(h, k) = Total(f, k) + Total(g, k)
<1> DEFINE S == {j \in Nat : j <= k => Total(h, j) = Total(f, j) + Total(g, j)}
<1>1. 0 \in S
  BY TotalStep
<1>2. ASSUME NEW j \in Nat, j \in S
      PROVE  j + 1 \in S
  <2> SUFFICES ASSUME j + 1 <= k
               PROVE  Total(h, j + 1) = Total(f, j + 1) + Total(g, j + 1)
    OBVIOUS
  <2> DEFINE a == Total(f, j)
             b == Total(g, j)
             c == Total(h, j)
  <2>1. /\ Summable(f, j + 1) /\ Summable(g, j + 1) /\ Summable(h, j + 1)
        /\ Summable(f, j) /\ Summable(g, j)
    BY DEF Summable
  <2>2. /\ Total(f, j + 1) = a + f[j] /\ Total(g, j + 1) = b + g[j]
        /\ Total(h, j + 1) = c + h[j]
    BY <2>1, TotalStep
  <2>3. a \in Nat /\ b \in Nat
    BY <2>1, TotalNat
  <2>4. c = a + b /\ h[j] = f[j] + g[j] /\ f[j] \in Nat /\ g[j] \in Nat
    BY <1>2 DEF Summable
  <2> HIDE DEF a, b, c
  <2>5. QED
    BY <2>2, <2>3, <2>4
<1>3. Nat \subseteq S
  <2> HIDE DEF S
  <2>1. QED
    BY <1>1, <1>2, Induction
<1>4. QED
  BY <1>3

\* The sum of multiples
LEMMA TotalTimes ==
  ASSUME NEW k \in Nat, NEW f, NEW h, NEW a \in Nat, Summable(f, k),
         \A i \in 0 .. k - 1 : h[i] = a * f[i]
  PROVE  Total(h, k) = a * Total(f, k)
<1> DEFINE S == {j \in Nat : j <= k => Total(h, j) = a * Total(f, j)}
<1>1. 0 \in S
  BY TotalStep
<1>2. ASSUME NEW j \in Nat, j \in S
      PROVE  j + 1 \in S
  <2> SUFFICES ASSUME j + 1 <= k
               PROVE  Total(h, j + 1) = a * Total(f, j + 1)
    OBVIOUS
  <2> DEFINE b == Total(f, j)
             c == Total(h, j)
             x == f[j]
  <2>1. Summable(f, j + 1) /\ Summable(f, j) /\ x \in Nat
    BY DEF Summable
  <2>2. Summable(h, j + 1)
    <3>1. \A i \in 0 .. k - 1 : a * f[i] \in Nat
      BY DEF Summable
    <3>2. QED
      BY <3>1 DEF Summable
  <2>3. Total(f, j + 1) = b + x /\ Total(h, j + 1) = c + h[j]
    BY <2>1, <2>2, TotalStep
  <2>4. b \in Nat
    BY <2>1, TotalNat
  <2>5. c = a * b /\ h[j] = a * x
    BY <1>2
  <2> HIDE DEF b, c, x
  <2>6. a * (b + x) = (a * b) + (a * x)
    BY <2>1, <2>4
  <2>7. QED
    BY <2>3, <2>5, <2>6
<1>3. Nat \subseteq S
  <2> HIDE DEF S
  <2>1. QED
    BY <1>1, <1>2, Induction
<1>4. QED
  BY <1>3

\* The sum of zeros, but for one term
LEMMA TotalOnly ==
  ASSUME NEW k \in Nat, NEW f, NEW p \in 0 .. k - 1, f[p] \in Nat,
         \A i \in 0 .. k - 1 : i # p => f[i] = 0
  PROVE  Total(f, k) = f[p]
<1> DEFINE S == {j \in Nat : j <= k => Total(f, j) = IF p < j THEN f[p] ELSE 0}
<1>1. 0 \in S
  BY TotalStep
<1>2. ASSUME NEW j \in Nat, j \in S
      PROVE  j + 1 \in S
  <2> SUFFICES ASSUME j + 1 <= k
               PROVE  Total(f, j + 1) = IF p < j + 1 THEN f[p] ELSE 0
    OBVIOUS
  <2>1. Summable(f, j + 1)
    BY DEF Summable
  <2>2. Total(f, j + 1) = Total(f, j) + f[j]
    BY <2>1, TotalStep
  <2>3. Total(f, j) = IF p < j THEN f[p] ELSE 0
    BY <1>2
  <2>4. QED
    BY <2>2, <2>3
<1>3. Nat \subseteq S
  <2> HIDE DEF S
  <2>1. QED
    BY <1>1, <1>2, Induction
<1>4. QED
  BY <1>3

\* The sum of zeros
LEMMA TotalZero ==
  ASSUME NEW k \in Nat, NEW f, \A i \in 0 .. k - 1 : f[i] = 0
  PROVE  Total(f, k) = 0
<1>1. CASE k = 0
  BY <1>1, TotalStep
<1>2. CASE k # 0
  <2>1. 0 \in 0 .. k - 1
    BY <1>2
  <2>2. Total(f, k) = f[0]
    BY <2>1, TotalOnly
  <2>3. QED
    BY <2>1, <2>2
<1>3. QED
  BY <1>1, <1>2

\* A sum in two parts
LEMMA TotalAppend ==
  ASSUME NEW a \in Nat, NEW b \in Nat, NEW f, NEW g, Summable(f, a + b),
         \A i \in 0 .. b - 1 : g[i] = f[a + i]
  PROVE  Total(f, a + b) = Total(f, a) + Total(g, b)
<1> DEFINE S == {j \in Nat : j <= b => Total(f, a + j) = Total(f, a) + Total(g, j)}
<1>5. Summable(f, a) /\ Summable(g, b)
  BY DEF Summable
<1>6. Total(f, a) \in Nat
  BY <1>5, TotalNat
<1>1. 0 \in S
  <2>1. Total(g, 0) = 0 /\ a + 0 = a
    BY TotalStep
  <2>2. QED
    BY <1>6, <2>1
<1>2. ASSUME NEW j \in Nat, j \in S
      PROVE  j + 1 \in S
  <2> SUFFICES ASSUME j + 1 <= b
               PROVE  Total(f, a + (j + 1)) = Total(f, a) + Total(g, j + 1)
    OBVIOUS
  <2> DEFINE l == a + j
             x == Total(f, a)
             y == Total(g, j)
  <2>1. l \in Nat /\ a + (j + 1) = l + 1
    OBVIOUS
  <2>2. Summable(f, l + 1) /\ Summable(g, j + 1) /\ Summable(g, j)
    BY <1>5 DEF Summable
  <2>3. Total(f, l + 1) = Total(f, l) + f[l] /\ Total(g, j + 1) = y + g[j]
    <3> HIDE DEF l
    <3>1. QED
      BY <2>1, <2>2, TotalStep
  <2>4. Total(f, l) = x + y /\ g[j] = f[l] /\ f[l] \in Nat
    BY <1>2, <1>5, <2>2 DEF Summable
  <2>5. y \in Nat
    BY <2>2, TotalNat
  <2> HIDE DEF l, x, y
  <2>6. QED
    BY <1>6, <2>1, <2>3, <2>4, <2>5 DEF x
<1>3. Nat \subseteq S
  <2> HIDE DEF S
  <2>1. QED
    BY <1>1, <1>2, Induction
<1>4. QED
  BY <1>3

\* The terms with even index, and those with odd index
LEMMA TotalHalves ==
  ASSUME NEW k \in Nat, NEW f, NEW e, NEW o, Summable(f, 2 * k),
         \A i \in 0 .. k - 1 : e[i] = f[2 * i] /\ o[i] = f[2 * i + 1]
  PROVE  Total(f, 2 * k) = Total(e, k) + Total(o, k)
<1> DEFINE S == {j \in Nat : j <= k => Total(f, 2 * j) = Total(e, j) + Total(o, j)}
<1>5. Summable(e, k) /\ Summable(o, k)
  BY DEF Summable
<1>1. 0 \in S
  BY TotalStep
<1>2. ASSUME NEW j \in Nat, j \in S
      PROVE  j + 1 \in S
  <2> SUFFICES ASSUME j + 1 <= k
               PROVE  Total(f, 2 * (j + 1)) = Total(e, j + 1) + Total(o, j + 1)
    OBVIOUS
  <2> DEFINE l == 2 * j
             h == l + 1
             x == Total(e, j)
             y == Total(o, j)
  <2>1. l \in Nat /\ h \in Nat /\ 2 * (j + 1) = h + 1
    OBVIOUS
  <2>2. /\ Summable(f, l + 1) /\ Summable(f, h + 1)
        /\ Summable(e, j + 1) /\ Summable(o, j + 1)
        /\ Summable(e, j) /\ Summable(o, j)
    BY <1>5 DEF Summable
  <2>3. /\ Total(f, h + 1) = Total(f, h) + f[h] /\ Total(f, l + 1) = Total(f, l) + f[l]
        /\ Total(e, j + 1) = x + e[j] /\ Total(o, j + 1) = y + o[j]
    <3>1. Total(e, j + 1) = x + e[j] /\ Total(o, j + 1) = y + o[j]
      BY <2>2, TotalStep
    <3> HIDE DEF l, h
    <3>2. QED
      BY <2>1, <2>2, <3>1, TotalStep
  <2>4. /\ Total(f, l) = x + y /\ e[j] = f[l] /\ o[j] = f[h]
        /\ f[l] \in Nat /\ f[h] \in Nat
    BY <1>2, <2>2 DEF Summable
  <2>5. x \in Nat /\ y \in Nat
    BY <2>2, TotalNat
  <2>6. h = l + 1
    OBVIOUS
  <2> HIDE DEF l, h, x, y
  <2>7. QED
    BY <2>1, <2>3, <2>4, <2>5, <2>6 DEF x, y
<1>3. Nat \subseteq S
  <2> HIDE DEF S
  <2>1. QED
    BY <1>1, <1>2, Induction
<1>4. QED
  BY <1>3

\* A sum that starts somewhere else and goes round
LEMMA TotalRotate ==
  ASSUME NEW k \in Nat, NEW i \in 0 .. k - 1, NEW g, NEW h, Summable(g, k),
         \A j \in 0 .. k - 1 : h[j] = g[IF i <= j THEN j - i ELSE k + j - i]
  PROVE  Total(h, k) = Total(g, k)
<1> DEFINE l == k - i
           u == [j \in 0 .. l - 1 |-> h[i + j]]
           v == [j \in 0 .. i - 1 |-> g[l + j]]
<1>1. l \in Nat /\ i + l = k /\ l + i = k /\ i \in Nat
  OBVIOUS
<1>2. Summable(h, i + l) /\ Summable(g, l + i) /\ Summable(g, l)
  <2>1. \A j \in 0 .. k - 1 : (IF i <= j THEN j - i ELSE k + j - i) \in 0 .. k - 1
    OBVIOUS
  <2>2. Summable(h, k)
    BY <2>1 DEF Summable
  <2>3. Summable(g, l)
    BY DEF Summable
  <2>4. QED
    BY <1>1, <2>2, <2>3
<1>3. Total(h, i + l) = Total(h, i) + Total(u, l)
  <2>1. \A j \in 0 .. l - 1 : u[j] = h[i + j]
    OBVIOUS
  <2> HIDE DEF l, u
  <2>2. QED
    BY <1>1, <1>2, <2>1, TotalAppend
<1>4. Total(g, l + i) = Total(g, l) + Total(v, i)
  <2>1. \A j \in 0 .. i - 1 : v[j] = g[l + j]
    OBVIOUS
  <2> HIDE DEF l, v
  <2>2. QED
    BY <1>1, <1>2, <2>1, TotalAppend
<1>5. Total(u, l) = Total(g, l)
  <2>1. ASSUME NEW j \in 0 .. l - 1
        PROVE  g[j] = u[j]
    <3>1. i + j \in 0 .. k - 1 /\ i <= i + j /\ (i + j) - i = j
      OBVIOUS
    <3>2. QED
      BY <3>1
  <2> HIDE DEF l, u
  <2>2. QED
    BY <1>1, <1>2, <2>1, TotalEqual
<1>6. Total(h, i) = Total(v, i)
  <2>1. ASSUME NEW j \in 0 .. i - 1
        PROVE  h[j] = v[j]
    <3>1. j \in 0 .. k - 1 /\ ~(i <= j) /\ k + j - i = l + j
      OBVIOUS
    <3>2. QED
      BY <3>1
  <2>2. Summable(h, i)
    BY <1>2 DEF Summable
  <2> HIDE DEF v
  <2>3. QED
    BY <1>1, <2>1, <2>2, TotalEqual
<1>7. Total(h, i) \in Nat /\ Total(u, l) \in Nat
  <2>1. Summable(h, i)
    BY <1>2 DEF Summable
  <2>2. Summable(u, l)
    BY <1>2 DEF Summable
  <2> HIDE DEF l, u
  <2>3. QED
    BY <1>1, <2>1, <2>2, TotalNat
<1> HIDE DEF l, u, v
<1>8. QED
  BY <1>1, <1>3, <1>4, <1>5, <1>6, <1>7

AreSums(r, c, a, b) == \A i \in 0 .. a - 1 : Summable(c[i], b) /\ r[i] = Total(c[i], b)

Transposed(d, c, a, b) == \A i \in 0 .. a - 1 : \A j \in 0 .. b - 1 : d[j][i] = c[i][j]

\* A sum of sums by rows is one by columns.
LEMMA TotalExchange ==
  ASSUME NEW a \in Nat, NEW b \in Nat, NEW c, NEW d, NEW r, NEW s,
         AreSums(r, c, a, b), AreSums(s, d, b, a), Transposed(d, c, a, b)
  PROVE  Total(r, a) = Total(s, b)
<1> USE DEF AreSums, Transposed
<1> DEFINE part(k) == [j \in 0 .. b - 1 |-> Total(d[j], k)]
           S == {k \in Nat : k <= a => Total(r, k) = Total(part(k), b)}
<1>1. \A j \in 0 .. b - 1 : Summable(d[j], a)
  OBVIOUS
<1>2. 0 \in S
  <2>1. \A j \in 0 .. b - 1 : part(0)[j] = 0
    BY TotalStep
  <2> HIDE DEF part
  <2>2. Total(part(0), b) = 0
    BY <2>1, TotalZero
  <2>3. QED
    BY <2>2, TotalStep
<1>3. ASSUME NEW k \in Nat, k \in S
      PROVE  k + 1 \in S
  <2> SUFFICES ASSUME k + 1 <= a
               PROVE  Total(r, k + 1) = Total(part(k + 1), b)
    OBVIOUS
  <2>1. k \in 0 .. a - 1
    OBVIOUS
  <2>2. Total(r, k + 1) = Total(r, k) + r[k]
    <3>1. \A i \in 0 .. a - 1 : r[i] \in Nat
      BY TotalNat
    <3>2. Summable(r, k + 1)
      BY <3>1 DEF Summable
    <3>3. QED
      BY <3>2, TotalStep
  <2>3. \A j \in 0 .. b - 1 : part(k + 1)[j] = part(k)[j] + c[k][j]
    <3> SUFFICES ASSUME NEW j \in 0 .. b - 1
                 PROVE  Total(d[j], k + 1) = Total(d[j], k) + c[k][j]
      OBVIOUS
    <3>1. Summable(d[j], k + 1)
      BY <1>1 DEF Summable
    <3>2. Total(d[j], k + 1) = Total(d[j], k) + d[j][k]
      BY <3>1, TotalStep
    <3>3. QED
      BY <2>1, <3>2
  <2>4. Summable(part(k), b)
    <3>1. \A j \in 0 .. b - 1 : Summable(d[j], k)
      BY <1>1 DEF Summable
    <3>2. \A j \in 0 .. b - 1 : Total(d[j], k) \in Nat
      BY <3>1, TotalNat
    <3>3. QED
      BY <3>2 DEF Summable
  <2>5. Summable(c[k], b) /\ r[k] = Total(c[k], b)
    BY <2>1
  <2>6. Total(r, k) = Total(part(k), b)
    BY <1>3
  <2> HIDE DEF part
  <2>7. Total(part(k + 1), b) = Total(part(k), b) + Total(c[k], b)
    BY <2>3, <2>4, <2>5, TotalPlus
  <2>8. QED
    BY <2>2, <2>5, <2>6, <2>7
<1>4. Nat \subseteq S
  <2> HIDE DEF S
  <2>1. QED
    BY <1>2, <1>3, Induction
<1>5. Total(r, a) = Total(part(a), b)
  BY <1>4
<1>6. Total(part(a), b) = Total(s, b)
  <2>1. \A j \in 0 .. b - 1 : part(a)[j] = s[j]
    OBVIOUS
  <2>2. \A j \in 0 .. b - 1 : part(a)[j] \in Nat
    BY <1>1, TotalNat
  <2> HIDE DEF part
  <2>3. Summable(part(a), b)
    BY <2>2 DEF Summable
  <2>4. QED
    BY <2>1, <2>3, TotalEqual
<1>7. QED
  BY <1>5, <1>6

-----------------------------------------------------------------------------
(***************************************************************************)
(* Roots of unity                                                          *)
(***************************************************************************)

\* A power is its own residue.
LEMMA ModPowNat ==
  ASSUME NEW p \in Nat \ {0, 1}, NEW x \in Nat, NEW e \in Nat
  PROVE  /\ ModPow(x, e, p) \in Nat /\ ModPow(x, e, p) \in 0 .. p - 1
         /\ ModPow(x, e, p) % p = ModPow(x, e, p)
<1>1. ModPow(x, e, p) \in 0 .. p - 1
  BY ModPowType
<1>2. \A y \in 0 .. p - 1 : y \in Nat /\ y % p = y
  OBVIOUS
<1>3. QED
  BY <1>1, <1>2

\* The powers of an element of order k
LEMMA OrderIs ==
  ASSUME NEW p \in Nat \ {0, 1}, NEW x \in Nat, NEW k \in Nat, HasOrder(x, k, p)
  PROVE  ModPow(x, k, p) = 1 /\ \A j \in 1 .. k - 1 : ModPow(x, j, p) # 1
<1>1. 1 % p = 1
  OBVIOUS
<1>2. \A e \in Nat : ModPow(x % p, e, p) = ModPow(x, e, p)
  BY ModPowBase
<1>3. \A j \in 1 .. k - 1 : j \in Nat
  OBVIOUS
<1>4. QED
  BY <1>1, <1>2, <1>3 DEF HasOrder

\* It is no multiple of the modulus.
LEMMA RootNotZero ==
  ASSUME NEW p \in Nat \ {0, 1}, NEW x \in Nat, NEW k \in Nat \ {0}, ModPow(x, k, p) = 1
  PROVE  x % p # 0
<1> SUFFICES ASSUME x % p = 0
             PROVE  FALSE
  OBVIOUS
<1> DEFINE l == k - 1
           y == ModPow(x, l, p)
<1>1. l \in Nat /\ 1 + l = k /\ 1 \in Nat
  OBVIOUS
<1>2. ModPow(x, 1, p) = 0
  BY ModPowType
<1>3. MulMod(ModPow(x, 1, p), y, p) = ModPow(x, 1 + l, p)
  <2> HIDE DEF l
  <2>1. QED
    BY <1>1, ModPowSum
<1>4. y \in Nat
  <2> HIDE DEF l
  <2>1. QED
    BY <1>1, ModPowNat
<1> HIDE DEF l, y
<1>5. MulMod(0, y, p) = 0
  <2>1. 0 * y = 0 /\ 0 % p = 0
    BY <1>4
  <2>2. QED
    BY <2>1 DEF MulMod
<1>6. QED
  BY <1>1, <1>2, <1>3, <1>5

\* The inverse by Fermat's little theorem
LEMMA InverseIs ==
  ASSUME NEW p \in Nat, Prime(p), NEW x \in Nat, x % p # 0
  PROVE  MulMod(x, ModPow(x, p - 2, p), p) = 1
<1> DEFINE l == p - 2
<1>1. p \in Nat \ {0, 1} /\ l \in Nat /\ 1 + l = p - 1 /\ 1 \in Nat
  BY DEF Prime
<1> HIDE DEF l
<1>2. MulMod(ModPow(x, 1, p), ModPow(x, l, p), p) = ModPow(x, 1 + l, p)
  BY <1>1, ModPowSum
<1>3. ModPow(x, 1, p) = x % p
  BY <1>1, ModPowType
<1>4. ModPow(x, l, p) \in Nat
  BY <1>1, ModPowNat
<1>5. MulMod(x % p, ModPow(x, l, p), p) = MulMod(x, ModPow(x, l, p), p)
  BY <1>1, <1>4, MulModRing
<1>6. ModPow(x, p - 1, p) = 1
  BY FermatModPow
<1>7. QED
  BY <1>1, <1>2, <1>3, <1>5, <1>6 DEF l

\* Powers of the inverse are the inverses of the powers,
LEMMA InversePowers ==
  ASSUME NEW p \in Nat \ {0, 1}, NEW x \in Nat, NEW y \in Nat, MulMod(x, y, p) = 1,
         NEW e \in Nat
  PROVE  MulMod(ModPow(x, e, p), ModPow(y, e, p), p) = 1
<1>1. ModPow(MulMod(x, y, p), e, p) = MulMod(ModPow(x, e, p), ModPow(y, e, p), p)
  BY ModPowOfProduct
<1>2. ModPow(1, e, p) = 1
  BY ModPowOfOne
<1>3. QED
  BY <1>1, <1>2

\* and 1 together.
LEMMA InverseIsOne ==
  ASSUME NEW p \in Nat \ {0, 1}, NEW x \in 0 .. p - 1, NEW y \in 0 .. p - 1,
         MulMod(x, y, p) = 1
  PROVE  x = 1 <=> y = 1
<1>1. \A z \in 0 .. p - 1 : MulMod(1, z, p) = z /\ MulMod(z, 1, p) = z
  <2> SUFFICES ASSUME NEW z \in 0 .. p - 1
               PROVE  (1 * z) % p = z /\ (z * 1) % p = z
    BY DEF MulMod
  <2>1. 1 * z = z /\ z * 1 = z /\ z % p = z
    OBVIOUS
  <2>2. QED
    BY <2>1
<1>2. QED
  BY <1>1

\* The inverse has the same order.
LEMMA InverseOrder ==
  ASSUME NEW p \in Nat \ {0, 1}, NEW x \in Nat, NEW y \in Nat, MulMod(x, y, p) = 1,
         NEW k \in Nat, HasOrder(x, k, p)
  PROVE  HasOrder(y, k, p)
<1>1. \A e \in Nat : ModPow(y, e, p) = 1 <=> ModPow(x, e, p) = 1
  <2> SUFFICES ASSUME NEW e \in Nat
               PROVE  ModPow(y, e, p) = 1 <=> ModPow(x, e, p) = 1
    OBVIOUS
  <2>1. MulMod(ModPow(x, e, p), ModPow(y, e, p), p) = 1
    BY InversePowers
  <2>2. ModPow(x, e, p) \in 0 .. p - 1 /\ ModPow(y, e, p) \in 0 .. p - 1
    BY ModPowNat
  <2>3. QED
    BY <2>1, <2>2, InverseIsOne
<1>2. ModPow(x, k, p) = 1 /\ \A j \in 1 .. k - 1 : ModPow(x, j, p) # 1
  BY OrderIs
<1>3. \A e \in Nat : ModPow(y % p, e, p) = ModPow(y, e, p)
  BY ModPowBase
<1>4. 1 % p = 1 /\ \A j \in 1 .. k - 1 : j \in Nat
  OBVIOUS
<1>5. QED
  BY <1>1, <1>2, <1>3, <1>4 DEF HasOrder

\* Half way round is -1.
LEMMA HalfTurn ==
  ASSUME NEW p \in Nat, Prime(p), NEW x \in Nat, NEW h \in Nat \ {0}, HasOrder(x, 2 * h, p)
  PROVE  ModPow(x, h, p) = p - 1
<1>1. p \in Nat \ {0, 1} /\ 2 * h \in Nat /\ h + h = 2 * h /\ h \in 1 .. 2 * h - 1
  BY DEF Prime
<1>2. ModPow(x, 2 * h, p) = 1 /\ ModPow(x, h, p) # 1
  BY <1>1, OrderIs
<1>3. MulMod(ModPow(x, h, p), ModPow(x, h, p), p) = ModPow(x, h + h, p)
  BY <1>1, ModPowSum
<1>4. ModPow(x, h, p) \in 0 .. p - 1
  BY <1>1, ModPowNat
<1>5. ModPow(x, h, p) \in {1, p - 1}
  BY <1>1, <1>2, <1>3, <1>4, SquareIsOne
<1>6. QED
  BY <1>2, <1>5

\* All the way round from anywhere
LEMMA RootPeriod ==
  ASSUME NEW p \in Nat \ {0, 1}, NEW x \in Nat, NEW k \in Nat, ModPow(x, k, p) = 1,
         NEW i \in Nat
  PROVE  ModPow(ModPow(x, i, p), k, p) = 1
<1>1. ModPow(ModPow(x, i, p), k, p) = ModPow(x, i * k, p)
  BY ModPowOfPow
<1>2. ModPow(ModPow(x, k, p), i, p) = ModPow(x, k * i, p)
  BY ModPowOfPow
<1>3. i * k = k * i
  OBVIOUS
<1>4. ModPow(1, i, p) = 1
  BY ModPowOfOne
<1>5. QED
  BY <1>1, <1>2, <1>3, <1>4

\* The powers of a root of unity other than 1 add up to zero,
LEMMA GeometricZero ==
  ASSUME NEW p \in Nat, Prime(p), NEW x \in 0 .. p - 1, x # 1, NEW k \in Nat,
         ModPow(x, k, p) = 1, NEW f, \A i \in 0 .. k : f[i] = ModPow(x, i, p)
  PROVE  Total(f, k) % p = 0
<1> DEFINE g == [i \in 0 .. k - 1 |-> f[1 + i]]
           h == [i \in 0 .. k - 1 |-> x * f[i]]
           T == Total(f, k)
<1>1. p \in Nat \ {0, 1} /\ p \in Nat \ {0} /\ x \in Nat /\ x % p = x
  BY DEF Prime
<1>2. \A i \in 0 .. k : f[i] \in Nat /\ f[i] % p = f[i]
  <2> SUFFICES ASSUME NEW i \in 0 .. k
               PROVE  f[i] \in Nat /\ f[i] % p = f[i]
    OBVIOUS
  <2>1. i \in Nat /\ f[i] = ModPow(x, i, p)
    OBVIOUS
  <2>2. QED
    BY <1>1, <2>1, ModPowNat
<1>3. Summable(f, k + 1) /\ Summable(f, 1 + k) /\ Summable(f, k) /\ Summable(g, k)
  BY <1>2 DEF Summable
<1>4. f[0] = 1 /\ f[k] = 1
  <2>1. 0 \in 0 .. k /\ k \in 0 .. k /\ 0 \in Nat
    OBVIOUS
  <2>2. ModPow(x, 0, p) = 1
    BY <1>1, <2>1, ModPowType
  <2>3. QED
    BY <2>1, <2>2
<1>5. T \in Nat /\ Total(f, k + 1) = T + f[k]
  BY <1>3, TotalStep
<1>6. Total(f, 1 + k) = Total(f, 1) + Total(g, k)
  <2>1. 1 \in Nat /\ \A i \in 0 .. k - 1 : g[i] = f[1 + i]
    OBVIOUS
  <2> HIDE DEF g
  <2>2. QED
    BY <1>3, <2>1, TotalAppend
<1>7. Total(f, 1) = 1
  <2>1. Summable(f, 0 + 1)
    BY <1>2 DEF Summable
  <2>2. Total(f, 0 + 1) = Total(f, 0) + f[0] /\ Total(f, 0) = 0
    BY <2>1, TotalStep
  <2>3. QED
    BY <1>4, <2>2
<1>8. Total(g, k) \in Nat
  <2> HIDE DEF g
  <2>1. QED
    BY <1>3, TotalNat
<1>9. Total(g, k) = T
  <2> HIDE DEF g, T
  <2>1. k + 1 = 1 + k
    OBVIOUS
  <2>2. QED
    BY <1>4, <1>5, <1>6, <1>7, <1>8, <2>1
<1>10. Congruent(Total(h, k), Total(g, k), p)
  <2>1. ASSUME NEW i \in 0 .. k - 1
        PROVE  Congruent(h[i], g[i], p)
    <3>1. i \in Nat /\ 1 \in Nat /\ i \in 0 .. k /\ 1 + i \in 0 .. k
      OBVIOUS
    <3>2. MulMod(ModPow(x, 1, p), ModPow(x, i, p), p) = ModPow(x, 1 + i, p)
      BY <1>1, <3>1, ModPowSum
    <3>3. ModPow(x, 1, p) = x
      BY <1>1, ModPowType
    <3>4. f[1 + i] % p = f[1 + i]
      BY <1>2, <3>1
    <3>5. h[i] % p = MulMod(x, f[i], p)
      BY DEF MulMod
    <3>6. QED
      BY <3>1, <3>2, <3>3, <3>4, <3>5 DEF Congruent
  <2>2. Summable(h, k)
    <3>1. \A i \in 0 .. k - 1 : x * f[i] \in Nat
      BY <1>1, <1>2
    <3>2. QED
      BY <3>1 DEF Summable
  <2> HIDE DEF g, h
  <2>3. QED
    BY <1>1, <1>3, <2>1, <2>2, TotalCongruent
<1>11. Total(h, k) = x * T
  <2>1. \A i \in 0 .. k - 1 : h[i] = x * f[i]
    OBVIOUS
  <2> HIDE DEF h
  <2>2. QED
    BY <1>1, <1>3, <2>1, TotalTimes
<1> HIDE DEF T
<1>12. MulMod(T, x, p) = MulMod(T, 1, p)
  <2>1. x * T = T * x /\ T * 1 = T
    BY <1>1, <1>5
  <2>2. QED
    BY <1>9, <1>10, <1>11, <2>1 DEF MulMod, Congruent
<1>13. ASSUME T % p # 0
       PROVE  FALSE
  <2>1. 1 \in Nat /\ 1 % p = 1
    BY <1>1
  <2>2. x % p = 1 % p
    BY <1>1, <1>5, <1>12, <1>13, <2>1, Cancel
  <2>3. QED
    BY <1>1, <2>1, <2>2
<1>14. QED
  BY <1>13 DEF T

\* and those of 1 to their number.
LEMMA TotalOnes ==
  ASSUME NEW k \in Nat, NEW f, \A i \in 0 .. k - 1 : f[i] = 1
  PROVE  Total(f, k) = k
<1> DEFINE S == {j \in Nat : j <= k => Total(f, j) = j}
<1>1. 0 \in S
  BY TotalStep
<1>2. ASSUME NEW j \in Nat, j \in S
      PROVE  j + 1 \in S
  <2> SUFFICES ASSUME j + 1 <= k
               PROVE  Total(f, j + 1) = j + 1
    OBVIOUS
  <2>1. Summable(f, j + 1) /\ f[j] = 1
    BY DEF Summable
  <2>2. Total(f, j + 1) = Total(f, j) + f[j]
    BY <2>1, TotalStep
  <2>3. QED
    BY <1>2, <2>1, <2>2
<1>3. Nat \subseteq S
  <2> HIDE DEF S
  <2>1. QED
    BY <1>1, <1>2, Induction
<1>4. QED
  BY <1>3

-----------------------------------------------------------------------------
(***************************************************************************)
(* Values of polynomials                                                   *)
(***************************************************************************)

\* The value at y of the polynomial with the k coefficients f
Value(f, k, y, p) == Total([t \in 0 .. k - 1 |-> f[t] * ModPow(y, t, p)], k)

\* A congruence is symmetric, and
LEMMA CongruentSym ==
  ASSUME NEW p, NEW a, NEW b, Congruent(a, b, p)
  PROVE  Congruent(b, a, p)
BY DEF Congruent

\* transitive.
LEMMA CongruentTrans ==
  ASSUME NEW p, NEW a, NEW b, NEW c, Congruent(a, b, p), Congruent(b, c, p)
  PROVE  Congruent(a, c, p)
BY DEF Congruent

\* A residue for its number
LEMMA CongruentMod ==
  ASSUME NEW p \in Nat \ {0}, NEW a \in Nat
  PROVE  Congruent(a % p, a, p)
BY ModIdempotent DEF Congruent

\* Multiples
LEMMA CongruentTimes ==
  ASSUME NEW p \in Nat \ {0}, NEW a \in Nat, NEW b \in Nat, NEW c \in Nat,
         Congruent(b, c, p)
  PROVE  Congruent(a * b, a * c, p) /\ Congruent(b * a, c * a, p)
<1>1. Congruent(a, a, p)
  BY DEF Congruent
<1>2. QED
  BY <1>1, ProductCongruent

\* The terms of a value
LEMMA ValueTerms ==
  ASSUME NEW p \in Nat \ {0, 1}, NEW y \in Nat, NEW k \in Nat, NEW f, Summable(f, k),
         NEW g, \A t \in 0 .. k - 1 : g[t] = f[t] * ModPow(y, t, p)
  PROVE  Summable(g, k) /\ Total(g, k) = Value(f, k, y, p)
<1> DEFINE h == [t \in 0 .. k - 1 |-> f[t] * ModPow(y, t, p)]
<1>1. \A t \in 0 .. k - 1 : f[t] * ModPow(y, t, p) \in Nat
  <2> SUFFICES ASSUME NEW t \in 0 .. k - 1
               PROVE  f[t] * ModPow(y, t, p) \in Nat
    OBVIOUS
  <2>1. ModPow(y, t, p) \in Nat
    BY ModPowNat
  <2>2. f[t] \in Nat
    BY DEF Summable
  <2>3. QED
    BY <2>1, <2>2
<1>2. Summable(g, k)
  BY <1>1 DEF Summable
<1>3. \A t \in 0 .. k - 1 : g[t] = h[t]
  OBVIOUS
<1> HIDE DEF h
<1>4. Total(g, k) = Total(h, k)
  BY <1>2, <1>3, TotalEqual
<1>5. QED
  BY <1>2, <1>4 DEF Value, h

\* A value is a number.
LEMMA ValueNat ==
  ASSUME NEW p \in Nat \ {0, 1}, NEW y \in Nat, NEW k \in Nat, NEW f, Summable(f, k)
  PROVE  Value(f, k, y, p) \in Nat
<1> DEFINE g == [t \in 0 .. k - 1 |-> f[t] * ModPow(y, t, p)]
<1>1. \A t \in 0 .. k - 1 : g[t] = f[t] * ModPow(y, t, p)
  OBVIOUS
<1> HIDE DEF g
<1>2. Summable(g, k) /\ Total(g, k) = Value(f, k, y, p)
  BY <1>1, ValueTerms
<1>3. QED
  BY <1>2, TotalNat

\* Congruent coefficients
LEMMA ValueCongruent ==
  ASSUME NEW p \in Nat \ {0, 1}, NEW y \in Nat, NEW k \in Nat,
         NEW f, Summable(f, k), NEW g, Summable(g, k),
         \A t \in 0 .. k - 1 : Congruent(f[t], g[t], p)
  PROVE  Congruent(Value(f, k, y, p), Value(g, k, y, p), p)
<1> DEFINE u == [t \in 0 .. k - 1 |-> f[t] * ModPow(y, t, p)]
           v == [t \in 0 .. k - 1 |-> g[t] * ModPow(y, t, p)]
<1>1. \A t \in 0 .. k - 1 : u[t] = f[t] * ModPow(y, t, p) /\ v[t] = g[t] * ModPow(y, t, p)
  OBVIOUS
<1> HIDE DEF u, v
<1>2. Summable(u, k) /\ Total(u, k) = Value(f, k, y, p)
  BY <1>1, ValueTerms
<1>3. Summable(v, k) /\ Total(v, k) = Value(g, k, y, p)
  BY <1>1, ValueTerms
<1>4. ASSUME NEW t \in 0 .. k - 1
      PROVE  Congruent(u[t], v[t], p)
  <2>1. t \in Nat /\ p \in Nat \ {0}
    OBVIOUS
  <2>2. ModPow(y, t, p) \in Nat
    BY <2>1, ModPowNat
  <2>3. f[t] \in Nat /\ g[t] \in Nat /\ Congruent(f[t], g[t], p)
    BY DEF Summable
  <2>4. Congruent(f[t] * ModPow(y, t, p), g[t] * ModPow(y, t, p), p)
    BY <2>1, <2>2, <2>3, CongruentTimes
  <2>5. QED
    BY <1>1, <2>4
<1>5. p \in Nat \ {0}
  OBVIOUS
<1>6. QED
  BY <1>2, <1>3, <1>4, <1>5, TotalCongruent

\* Multiples of the coefficients
LEMMA ValueTimes ==
  ASSUME NEW p \in Nat \ {0, 1}, NEW y \in Nat, NEW k \in Nat, NEW a \in Nat,
         NEW f, Summable(f, k), NEW g, \A t \in 0 .. k - 1 : g[t] = a * f[t]
  PROVE  Summable(g, k) /\ Value(g, k, y, p) = a * Value(f, k, y, p)
<1> DEFINE u == [t \in 0 .. k - 1 |-> f[t] * ModPow(y, t, p)]
           v == [t \in 0 .. k - 1 |-> g[t] * ModPow(y, t, p)]
<1>1. \A t \in 0 .. k - 1 : f[t] \in Nat /\ a * f[t] \in Nat
  BY DEF Summable
<1>2. Summable(g, k)
  BY <1>1 DEF Summable
<1>3. \A t \in 0 .. k - 1 : u[t] = f[t] * ModPow(y, t, p) /\ v[t] = g[t] * ModPow(y, t, p)
  OBVIOUS
<1>4. \A t \in 0 .. k - 1 : v[t] = a * u[t]
  <2> SUFFICES ASSUME NEW t \in 0 .. k - 1
               PROVE  (a * f[t]) * ModPow(y, t, p) = a * (f[t] * ModPow(y, t, p))
    OBVIOUS
  <2>1. ModPow(y, t, p) \in Nat
    BY ModPowNat
  <2>2. f[t] \in Nat
    BY <1>1
  <2>3. QED
    BY <2>1, <2>2
<1> HIDE DEF u, v
<1>5. Summable(u, k) /\ Total(u, k) = Value(f, k, y, p)
  BY <1>3, ValueTerms
<1>6. Total(v, k) = Value(g, k, y, p)
  BY <1>2, <1>3, ValueTerms
<1>7. Total(v, k) = a * Total(u, k)
  BY <1>4, <1>5, TotalTimes
<1>8. QED
  BY <1>2, <1>5, <1>6, <1>7

\* The constant term is the value at 0.
LEMMA ValueAtZero ==
  ASSUME NEW p \in Nat \ {0, 1}, NEW k \in Nat \ {0}, NEW f, Summable(f, k)
  PROVE  Value(f, k, 0, p) = f[0]
<1> DEFINE g == [t \in 0 .. k - 1 |-> f[t] * ModPow(0, t, p)]
<1>1. \A t \in 0 .. k - 1 : g[t] = f[t] * ModPow(0, t, p) /\ f[t] \in Nat
  BY DEF Summable
<1> HIDE DEF g
<1>2. Total(g, k) = Value(f, k, 0, p)
  BY <1>1, ValueTerms
<1>3. 0 \in 0 .. k - 1 /\ 0 \in Nat
  OBVIOUS
<1>4. g[0] = f[0]
  <2>1. ModPow(0, 0, p) = 1
    BY <1>3, ModPowType
  <2>2. QED
    BY <1>1, <1>3, <2>1
<1>5. \A t \in 0 .. k - 1 : t # 0 => g[t] = 0
  <2> SUFFICES ASSUME NEW t \in 0 .. k - 1, t # 0
               PROVE  g[t] = 0
    OBVIOUS
  <2> DEFINE l == t - 1
  <2>1. l \in Nat /\ t = l + 1 /\ 1 \in Nat /\ t \in Nat
    OBVIOUS
  <2>2. ModPow(0, t, p) = 0
    <3>1. ModPow(ModPow(0, 1, p), t, p) = ModPow(0, 1 * t, p)
      BY <1>3, <2>1, ModPowOfPow
    <3>2. ModPow(0, 1, p) = 0
      BY <1>3, ModPowType
    <3> HIDE DEF l
    <3>3. MulMod(ModPow(0, l, p), ModPow(0, 1, p), p) = ModPow(0, l + 1, p)
      BY <1>3, <2>1, ModPowSum
    <3>4. ModPow(0, l, p) \in Nat
      BY <1>3, <2>1, ModPowNat
    <3>5. MulMod(ModPow(0, l, p), 0, p) = 0
      <4>1. ModPow(0, l, p) * 0 = 0 /\ 0 % p = 0
        BY <3>4
      <4>2. QED
        BY <4>1 DEF MulMod
    <3>6. QED
      BY <2>1, <3>2, <3>3, <3>5
  <2>3. QED
    BY <1>1, <2>2
<1>6. g[0] \in Nat
  BY <1>1, <1>3, <1>4
<1>7. Total(g, k) = g[0]
  BY <1>3, <1>5, <1>6, TotalOnly
<1>8. QED
  BY <1>2, <1>4, <1>7

\* The coefficients with even index and those with odd index: a value at y by
\* two values at its square
LEMMA ValueHalves ==
  ASSUME NEW p \in Nat \ {0, 1}, NEW y \in Nat, NEW k \in Nat, NEW f, Summable(f, 2 * k),
         NEW e, NEW o, \A i \in 0 .. k - 1 : e[i] = f[2 * i] /\ o[i] = f[2 * i + 1]
  PROVE  /\ Summable(e, k) /\ Summable(o, k)
         /\ Congruent(Value(f, 2 * k, y, p),
                      Value(e, k, MulMod(y, y, p), p) + y * Value(o, k, MulMod(y, y, p), p), p)
<1> DEFINE w == MulMod(y, y, p)
           l == 2 * k
           g == [t \in 0 .. l - 1 |-> f[t] * ModPow(y, t, p)]
           u == [i \in 0 .. k - 1 |-> g[2 * i]]
           v == [i \in 0 .. k - 1 |-> g[2 * i + 1]]
           z == [i \in 0 .. k - 1 |-> o[i] * ModPow(w, i, p)]
           s == [i \in 0 .. k - 1 |-> y * z[i]]
<1>1. p \in Nat \ {0} /\ l \in Nat
  OBVIOUS
<1>2. w \in Nat
  <2>1. w \in 0 .. p - 1
    BY <1>1, MulModType
  <2>2. QED
    BY <2>1
<1>3. \A i \in 0 .. k - 1 :
        /\ i \in Nat /\ 2 * i \in Nat /\ 2 * i + 1 \in Nat
        /\ 2 * i \in 0 .. l - 1 /\ 2 * i + 1 \in 0 .. l - 1
  OBVIOUS
<1>4. \A t \in 0 .. l - 1 : f[t] \in Nat
  BY DEF Summable
<1>5. Summable(e, k) /\ Summable(o, k)
  BY <1>3, <1>4 DEF Summable
<1>6. \A i \in Nat : ModPow(y, 2 * i, p) = ModPow(w, i, p)
  <2> SUFFICES ASSUME NEW i \in Nat
               PROVE  ModPow(y, 2 * i, p) = ModPow(w, i, p)
    OBVIOUS
  <2>1. ModPow(w, i, p) = MulMod(ModPow(y, i, p), ModPow(y, i, p), p)
    BY ModPowOfProduct
  <2>2. MulMod(ModPow(y, i, p), ModPow(y, i, p), p) = ModPow(y, i + i, p)
    BY ModPowSum
  <2>3. i + i = 2 * i
    OBVIOUS
  <2>4. QED
    BY <2>1, <2>2, <2>3
<1>7. \A t \in 0 .. l - 1 : g[t] = f[t] * ModPow(y, t, p)
  OBVIOUS
<1>8. \A i \in 0 .. k - 1 : u[i] = g[2 * i] /\ v[i] = g[2 * i + 1]
  OBVIOUS
<1>9. \A i \in 0 .. k - 1 : z[i] = o[i] * ModPow(w, i, p)
  OBVIOUS
<1>10. \A i \in 0 .. k - 1 : s[i] = y * z[i]
  OBVIOUS
<1> HIDE DEF w, l, g, u, v, z, s
<1>11. Summable(g, l) /\ Total(g, l) = Value(f, l, y, p)
  <2>1. Summable(f, l)
    BY <1>4 DEF Summable
  <2>2. l \in Nat
    BY <1>1
  <2>3. QED
    BY <1>7, <2>1, <2>2, ValueTerms, SMTT(60)
<1>12. Summable(u, k) /\ Summable(v, k)
  BY <1>3, <1>8, <1>11 DEF Summable
<1>13. Total(g, l) = Total(u, k) + Total(v, k)
  BY <1>8, <1>11, TotalHalves DEF l
<1>14. Total(u, k) = Value(e, k, w, p)
  <2>1. \A i \in 0 .. k - 1 : u[i] = e[i] * ModPow(w, i, p)
    <3> SUFFICES ASSUME NEW i \in 0 .. k - 1
                 PROVE  u[i] = e[i] * ModPow(w, i, p)
      OBVIOUS
    <3>1. u[i] = f[2 * i] * ModPow(y, 2 * i, p)
      BY <1>3, <1>7, <1>8
    <3>2. QED
      BY <1>3, <1>6, <3>1
  <2>2. QED
    BY <1>2, <1>5, <2>1, ValueTerms
<1>15. Summable(z, k) /\ Total(z, k) = Value(o, k, w, p)
  BY <1>2, <1>5, <1>9, ValueTerms, SMTT(60)
<1>16. Summable(s, k) /\ Total(s, k) = y * Total(z, k)
  <2>1. \A i \in 0 .. k - 1 : z[i] \in Nat /\ y * z[i] \in Nat
    BY <1>15 DEF Summable
  <2>2. Summable(s, k)
    BY <1>10, <2>1 DEF Summable
  <2>3. QED
    BY <1>10, <1>15, <2>2, TotalTimes
<1>17. Congruent(Total(v, k), Total(s, k), p)
  <2>1. ASSUME NEW i \in 0 .. k - 1
        PROVE  Congruent(v[i], s[i], p)
    <3> DEFINE a == o[i]
               b == ModPow(w, i, p)
               c == ModPow(y, 2 * i + 1, p)
               d == y * b
    <3>1. a \in Nat /\ b \in Nat /\ d \in Nat /\ c \in Nat
      <4>1. a \in Nat
        BY <1>5 DEF Summable
      <4>2. b \in Nat /\ c \in Nat
        BY <1>2, <1>3, ModPowNat
      <4>3. QED
        BY <4>1, <4>2
    <3>2. c = MulMod(y, b, p)
      <4>1. 2 * i \in Nat /\ 1 \in Nat
        BY <1>3
      <4>2. MulMod(ModPow(y, 1, p), ModPow(y, 2 * i, p), p) = ModPow(y, 1 + 2 * i, p)
        BY <4>1, ModPowSum
      <4>3. 1 + 2 * i = 2 * i + 1
        BY <1>3
      <4>4. ModPow(y, 1, p) = y % p
        BY <4>1, ModPowType
      <4>5. ModPow(y, 2 * i, p) = b
        BY <1>3, <1>6
      <4>6. c = MulMod(y % p, b, p)
        BY <4>2, <4>3, <4>4, <4>5
      <4> HIDE DEF b, c
      <4>7. MulMod(y % p, b, p) = MulMod(y, b, p)
        BY <1>1, <3>1, MulModRing
      <4>8. QED
        BY <4>6, <4>7
    <3>3. v[i] = a * c
      BY <1>3, <1>7, <1>8
    <3>4. s[i] = y * (a * b)
      BY <1>9, <1>10
    <3> HIDE DEF a, b, c
    <3>5. c = d % p
      BY <3>2 DEF MulMod
    <3>6. y * (a * b) = a * d
      BY <3>1
    <3> HIDE DEF d
    <3>7. Congruent(d % p, d, p)
      BY <1>1, <3>1, CongruentMod
    <3>8. Congruent(a * c, a * d, p)
      BY <1>1, <3>1, <3>5, <3>7, CongruentTimes
    <3>9. QED
      BY <3>3, <3>4, <3>6, <3>8
  <2>2. QED
    BY <1>1, <1>12, <1>16, <2>1, TotalCongruent
<1>18. Total(u, k) \in Nat /\ Total(v, k) \in Nat /\ Total(s, k) \in Nat
  BY <1>12, <1>16, TotalNat
<1>19. Congruent(Total(u, k) + Total(v, k), Total(u, k) + Total(s, k), p)
  <2>1. Congruent(Total(u, k), Total(u, k), p)
    BY DEF Congruent
  <2>2. QED
    BY <1>1, <1>17, <1>18, <2>1, SumCongruent
<1>20. Congruent(Value(f, l, y, p), Value(e, k, w, p) + y * Value(o, k, w, p), p)
  BY <1>11, <1>13, <1>14, <1>15, <1>16, <1>19
<1>21. QED
  BY <1>5, <1>20 DEF l, w

\* The value at z of coefficients twisted by the powers of x
LEMMA ValueTwisted ==
  ASSUME NEW p \in Nat \ {0, 1}, NEW x \in Nat, NEW z \in Nat, NEW k \in Nat,
         NEW f, Summable(f, k),
         NEW g, \A i \in 0 .. k - 1 : g[i] = MulMod(f[i], ModPow(x, i, p), p)
  PROVE  Summable(g, k) /\ Congruent(Value(g, k, z, p), Value(f, k, MulMod(x, z, p), p), p)
<1> DEFINE w == MulMod(x, z, p)
           u == [i \in 0 .. k - 1 |-> g[i] * ModPow(z, i, p)]
           v == [i \in 0 .. k - 1 |-> f[i] * ModPow(w, i, p)]
<1>1. p \in Nat \ {0}
  OBVIOUS
<1>2. w \in Nat
  <2>1. w \in 0 .. p - 1
    BY <1>1, MulModType
  <2>2. QED
    BY <2>1
<1>3. \A i \in 0 .. k - 1 : f[i] \in Nat
  BY DEF Summable
<1>4. \A i \in 0 .. k - 1 : u[i] = g[i] * ModPow(z, i, p)
  OBVIOUS
<1>5. \A i \in 0 .. k - 1 : v[i] = f[i] * ModPow(w, i, p)
  OBVIOUS
<1> HIDE DEF u, v
<1>6. ASSUME NEW i \in 0 .. k - 1
      PROVE  g[i] \in Nat /\ Congruent(u[i], v[i], p)
  <2> DEFINE a == f[i]
             b == ModPow(x, i, p)
             c == ModPow(z, i, p)
             d == ModPow(w, i, p)
  <2>1. i \in Nat
    OBVIOUS
  <2>2. a \in Nat /\ b \in Nat /\ c \in Nat /\ d \in Nat
    <3>1. b \in Nat
      BY <2>1, ModPowNat
    <3>2. c \in Nat
      BY <2>1, ModPowNat
    <3> HIDE DEF w
    <3>3. d \in Nat
      BY <1>2, <2>1, ModPowNat
    <3>4. QED
      BY <1>3, <3>1, <3>2, <3>3
  <2>3. d = MulMod(b, c, p)
    BY <2>1, ModPowOfProduct
  <2>4. u[i] = MulMod(a, b, p) * c /\ v[i] = a * d /\ g[i] = MulMod(a, b, p)
    BY <1>4, <1>5
  <2> HIDE DEF a, b, c, d
  <2> DEFINE e == a * b
             h == b * c
  <2>5. e \in Nat /\ h \in Nat /\ e * c = a * h
    BY <2>2
  <2>6. u[i] = (e % p) * c /\ v[i] = a * (h % p) /\ g[i] = e % p
    BY <2>3, <2>4 DEF MulMod
  <2>7. e % p \in Nat /\ h % p \in Nat
    BY <1>1, <2>5
  <2> HIDE DEF e, h
  <2>8. Congruent((e % p) * c, e * c, p)
    BY <1>1, <2>2, <2>5, <2>7, CongruentMod, CongruentTimes
  <2>9. Congruent(a * (h % p), a * h, p)
    BY <1>1, <2>2, <2>5, <2>7, CongruentMod, CongruentTimes
  <2>10. Congruent(u[i], v[i], p)
    BY <2>5, <2>6, <2>8, <2>9 DEF Congruent
  <2>11. QED
    BY <2>6, <2>7, <2>10
<1>7. Summable(g, k)
  BY <1>6 DEF Summable
<1>8. Summable(u, k) /\ Total(u, k) = Value(g, k, z, p)
  BY <1>4, <1>7, ValueTerms
<1> HIDE DEF w
<1>9. Summable(v, k) /\ Total(v, k) = Value(f, k, w, p)
  BY <1>2, <1>5, ValueTerms
<1>10. Congruent(Total(u, k), Total(v, k), p)
  BY <1>1, <1>6, <1>8, <1>9, TotalCongruent
<1>11. QED
  BY <1>7, <1>8, <1>9, <1>10 DEF w

\* Where the coefficient j of a product takes its factor of the second operand for
\* the coefficient i of the first
Moved(i, j, k) == IF i <= j THEN j - i ELSE k + j - i

\* That summand of the coefficient j of a product modulo x^k + 1
Summand(a, b, i, j, k, p) ==
  IF i <= j THEN a[i] * b[j - i] ELSE (p - 1) * a[i] * b[k + j - i]

\* In the row of a product modulo x^k + 1 that belongs to the coefficient i of the
\* first operand, the terms at a root y of x^k + 1 are those of the second, moved.
LEMMA ProductTerm ==
  ASSUME NEW p \in Nat \ {0, 1}, NEW y \in Nat, NEW k \in Nat, ModPow(y, k, p) = p - 1,
         NEW f, Summable(f, k), NEW b, Summable(b, k),
         NEW i \in 0 .. k - 1, NEW j \in 0 .. k - 1, NEW l, l = Moved(i, j, k)
  PROVE  /\ Summand(f, b, i, j, k, p) \in Nat /\ l \in 0 .. k - 1
         /\ Congruent(Summand(f, b, i, j, k, p) * ModPow(y, j, p),
                      (f[i] * ModPow(y, i, p)) * (b[l] * ModPow(y, l, p)), p)
<1> DEFINE a == f[i]
           t == Summand(f, b, i, j, k, p)
           c == b[l]
           u == ModPow(y, i, p)
           v == ModPow(y, l, p)
           w == ModPow(y, j, p)
           s == IF i <= j THEN 1 ELSE p - 1
           h == a * c
<1>1. i \in Nat /\ j \in Nat /\ l \in Nat /\ l \in 0 .. k - 1
  BY DEF Moved
<1>2. a \in Nat /\ c \in Nat
  BY <1>1 DEF Summable
<1>3. u \in Nat /\ v \in Nat /\ w \in Nat
  BY <1>1, ModPowNat
<1>4. p \in Nat \ {0} /\ s \in Nat /\ h \in Nat
  BY <1>2
<1>5. t = s * h
  <2>1. CASE i <= j
    <3>1. t = a * c
      BY <2>1 DEF Summand, Moved
    <3>2. h = a * c
      OBVIOUS
    <3> HIDE DEF t, h
    <3>3. s * h = h
      BY <1>4, <2>1
    <3>4. QED
      BY <3>1, <3>2, <3>3
  <2>2. CASE ~(i <= j)
    <3>1. t = (p - 1) * a * c
      BY <2>2 DEF Summand, Moved
    <3> HIDE DEF t
    <3>2. (p - 1) * a * c = (p - 1) * (a * c)
      BY <1>2
    <3>3. QED
      BY <2>2, <3>1, <3>2
  <2>3. QED
    BY <2>1, <2>2
<1>6. MulMod(u, v, p) = (s * w) % p
  <2>1. MulMod(u, v, p) = ModPow(y, i + l, p)
    <3> HIDE DEF s, h
    <3>1. i \in Nat /\ l \in Nat
      BY <1>1
    <3>2. QED
      BY <3>1, ModPowSum
  <2>2. CASE i <= j
    <3>1. i + l = j
      BY <2>2 DEF Moved
    <3>2. s * w = w
      BY <1>3, <2>2
    <3>3. w % p = w
      BY <1>1, ModPowNat
    <3>4. QED
      BY <2>1, <3>1, <3>2, <3>3
  <2>3. CASE ~(i <= j)
    <3>1. i + l = k + j
      BY <2>3 DEF Moved
    <3>2. MulMod(ModPow(y, k, p), w, p) = ModPow(y, k + j, p)
      BY <1>1, ModPowSum
    <3>3. QED
      BY <2>1, <2>3, <3>1, <3>2 DEF MulMod
  <2>4. QED
    BY <2>2, <2>3
<1> DEFINE e == u * v
           g == s * w
<1>7. e \in Nat /\ g \in Nat
  BY <1>3, <1>4
<1>8. Congruent(g, e, p)
  BY <1>6 DEF MulMod, Congruent
<1>9. t * w = h * g
  <2> HIDE DEF t, s, w, h
  <2>1. (s * h) * w = h * (s * w)
    BY <1>3, <1>4
  <2>2. QED
    BY <1>5, <2>1
<1>10. (a * u) * (c * v) = h * e
  <2> HIDE DEF u, v, c, a
  <2>1. (a * u) * (c * v) = (a * c) * (u * v)
    BY <1>2, <1>3
  <2>2. QED
    BY <2>1
<1>11. t \in Nat
  <2> HIDE DEF t, s, h
  <2>1. QED
    BY <1>4, <1>5
<1> HIDE DEF e, g, h, s
<1>12. Congruent(h * g, h * e, p)
  BY <1>4, <1>7, <1>8, CongruentTimes
<1>13. QED
  BY <1>1, <1>9, <1>10, <1>11, <1>12

IsRows(T, a, b, k, p) ==
  \A j \in 0 .. k - 1 : \A i \in 0 .. k - 1 : T[j][i] = Summand(a, b, i, j, k, p)

AreTotals(c, T, k, p) == \A j \in 0 .. k - 1 : c[j] = Total(T[j], k) % p

\* At a root y of x^k + 1 the value of a product modulo x^k + 1 is the product of
\* the values.
LEMMA ConvolutionValue ==
  ASSUME NEW p \in Nat \ {0, 1}, NEW y \in Nat, NEW k \in Nat, ModPow(y, k, p) = p - 1,
         NEW a, Summable(a, k), NEW b, Summable(b, k),
         NEW T, IsRows(T, a, b, k, p), NEW c, AreTotals(c, T, k, p)
  PROVE  /\ Summable(c, k)
         /\ Congruent(Value(c, k, y, p), Value(a, k, y, p) * Value(b, k, y, p), p)
<1> DEFINE I == 0 .. k - 1
           e == [j \in I |-> ModPow(y, j, p)]
           g == [j \in I |-> b[j] * e[j]]
           h == [i \in I |-> a[i] * e[i]]
           z == [j \in I |-> c[j] * e[j]]
           U == [j \in I |-> [i \in I |-> T[j][i] * e[j]]]
           V == [i \in I |-> [j \in I |-> T[j][i] * e[j]]]
           H == [i \in I |-> [j \in I |-> g[Moved(i, j, k)]]]
           M == [i \in I |-> [j \in I |-> h[i] * H[i][j]]]
           r == [j \in I |-> Total(U[j], k)]
           s == [i \in I |-> Total(V[i], k)]
           w == [i \in I |-> Total(g, k) * h[i]]
<1>1. p \in Nat \ {0}
  OBVIOUS
<1>2. \A i \in I : a[i] \in Nat /\ b[i] \in Nat
  BY DEF Summable
<1>3. \A j \in I : e[j] \in Nat /\ e[j] = ModPow(y, j, p)
  <2> SUFFICES ASSUME NEW j \in I
               PROVE  ModPow(y, j, p) \in Nat
    OBVIOUS
  <2>1. j \in Nat
    OBVIOUS
  <2>2. QED
    BY <2>1, ModPowNat
<1>4. /\ \A j \in I : g[j] = b[j] * e[j]
      /\ \A j \in I : h[j] = a[j] * e[j]
      /\ \A j \in I : z[j] = c[j] * e[j]
  OBVIOUS
<1>5. /\ \A j \in I : \A i \in I : U[j][i] = T[j][i] * e[j]
      /\ \A j \in I : \A i \in I : V[i][j] = T[j][i] * e[j]
      /\ \A j \in I : \A i \in I : H[i][j] = g[Moved(i, j, k)]
      /\ \A j \in I : \A i \in I : M[i][j] = h[i] * H[i][j]
  OBVIOUS
<1>6. /\ \A j \in I : r[j] = Total(U[j], k)
      /\ \A i \in I : s[i] = Total(V[i], k)
      /\ \A i \in I : w[i] = Total(g, k) * h[i]
  OBVIOUS
<1> HIDE DEF e, g, h, z, U, V, H, M, r, s, w
<1>7. \A j \in I : g[j] \in Nat /\ h[j] \in Nat
  BY <1>2, <1>3, <1>4
<1>8. Summable(g, k) /\ Summable(h, k)
  BY <1>7 DEF Summable
<1>9. ASSUME NEW i \in I, NEW j \in I
      PROVE  /\ T[j][i] \in Nat /\ V[i][j] \in Nat /\ H[i][j] \in Nat /\ M[i][j] \in Nat
             /\ Congruent(V[i][j], M[i][j], p)
  <2> DEFINE l == Moved(i, j, k)
             t == T[j][i]
  <2>1. t = Summand(a, b, i, j, k, p)
    BY DEF IsRows
  <2>2. e[i] = ModPow(y, i, p) /\ e[j] = ModPow(y, j, p)
    BY <1>3
  <2>3. V[i][j] = t * e[j] /\ H[i][j] = g[l] /\ M[i][j] = h[i] * H[i][j]
    BY <1>5
  <2>4. l = Moved(i, j, k)
    OBVIOUS
  <2> HIDE DEF l, t
  <2>5. /\ Summand(a, b, i, j, k, p) \in Nat /\ l \in I
        /\ Congruent(Summand(a, b, i, j, k, p) * ModPow(y, j, p),
                     (a[i] * ModPow(y, i, p)) * (b[l] * ModPow(y, l, p)), p)
    BY <2>4, ProductTerm
  <2>6. /\ t \in Nat /\ l \in I
        /\ Congruent(t * ModPow(y, j, p),
                     (a[i] * ModPow(y, i, p)) * (b[l] * ModPow(y, l, p)), p)
    BY <2>1, <2>5
  <2>7. g[l] = b[l] * ModPow(y, l, p) /\ h[i] = a[i] * ModPow(y, i, p)
    BY <1>3, <1>4, <2>6
  <2>8. Congruent(V[i][j], M[i][j], p)
    BY <2>2, <2>3, <2>6, <2>7
  <2>9. g[l] \in Nat /\ h[i] \in Nat /\ e[j] \in Nat
    BY <1>3, <1>7, <2>6
  <2>10. t * e[j] \in Nat /\ h[i] * g[l] \in Nat
    BY <2>6, <2>9
  <2>11. QED
    BY <2>3, <2>6, <2>8, <2>9, <2>10 DEF t
<1>10. ASSUME NEW j \in I
       PROVE  /\ Summable(U[j], k) /\ Summable(T[j], k)
              /\ c[j] \in Nat /\ r[j] \in Nat /\ Congruent(z[j], r[j], p)
  <2>1. Summable(T[j], k)
    BY <1>9 DEF Summable
  <2>2. \A i \in I : U[j][i] = e[j] * T[j][i] /\ U[j][i] \in Nat
    <3> SUFFICES ASSUME NEW i \in I
                 PROVE  U[j][i] = e[j] * T[j][i] /\ U[j][i] \in Nat
      OBVIOUS
    <3>1. U[j][i] = T[j][i] * e[j]
      BY <1>5
    <3>2. T[j][i] \in Nat /\ e[j] \in Nat
      BY <1>3, <1>9
    <3>3. QED
      BY <3>1, <3>2
  <2>3. Summable(U[j], k)
    BY <2>2 DEF Summable
  <2>4. e[j] \in Nat
    BY <1>3
  <2> DEFINE X == Total(T[j], k)
  <2>5. X \in Nat
    BY <2>1, TotalNat
  <2>6. r[j] = e[j] * X
    <3>1. Total(U[j], k) = e[j] * X
      BY <2>1, <2>2, <2>4, TotalTimes
    <3>2. QED
      BY <1>6, <3>1
  <2>7. c[j] = X % p /\ z[j] = c[j] * e[j]
    BY <1>4 DEF AreTotals
  <2> HIDE DEF X
  <2>8. X % p \in Nat
    BY <1>1, <2>5
  <2>9. Congruent(X % p, X, p)
    BY <1>1, <2>5, CongruentMod
  <2>10. Congruent((X % p) * e[j], X * e[j], p)
    BY <1>1, <2>4, <2>5, <2>8, <2>9, CongruentTimes
  <2>11. X * e[j] = e[j] * X /\ e[j] * X \in Nat
    BY <2>4, <2>5
  <2>12. QED
    BY <2>1, <2>3, <2>6, <2>7, <2>8, <2>10, <2>11
<1>11. Summable(c, k)
  BY <1>10 DEF Summable
<1>12. Total(r, k) = Total(s, k)
  <2>1. AreSums(r, U, k, k)
    BY <1>6, <1>10 DEF AreSums
  <2>2. AreSums(s, V, k, k)
    BY <1>6, <1>9 DEF AreSums, Summable
  <2>3. Transposed(V, U, k, k)
    BY <1>5 DEF Transposed
  <2>4. QED
    BY <2>1, <2>2, <2>3, TotalExchange
<1>13. ASSUME NEW i \in I
       PROVE  s[i] \in Nat /\ w[i] \in Nat /\ Congruent(s[i], w[i], p)
  <2>1. Summable(V[i], k) /\ Summable(M[i], k) /\ Summable(H[i], k)
    BY <1>9 DEF Summable
  <2>2. \A j \in I : Congruent(V[i][j], M[i][j], p)
    BY <1>9
  <2>3. Congruent(Total(V[i], k), Total(M[i], k), p)
    BY <1>1, <2>1, <2>2, TotalCongruent
  <2>4. h[i] \in Nat
    BY <1>7
  <2>5. \A j \in I : M[i][j] = h[i] * H[i][j]
    BY <1>5
  <2>6. Total(M[i], k) = h[i] * Total(H[i], k)
    BY <2>1, <2>4, <2>5, TotalTimes
  <2>7. \A j \in I : H[i][j] = g[IF i <= j THEN j - i ELSE k + j - i]
    BY <1>5 DEF Moved
  <2>8. Total(H[i], k) = Total(g, k)
    BY <1>8, <2>7, TotalRotate
  <2>9. Total(g, k) \in Nat /\ Total(V[i], k) \in Nat
    BY <1>8, <2>1, TotalNat
  <2>10. h[i] * Total(g, k) = Total(g, k) * h[i] /\ Total(g, k) * h[i] \in Nat
    BY <2>4, <2>9
  <2>11. QED
    BY <1>6, <2>3, <2>6, <2>8, <2>9, <2>10
<1>14. Summable(z, k) /\ Total(z, k) = Value(c, k, y, p)
  <2>1. \A j \in I : z[j] = c[j] * ModPow(y, j, p)
    BY <1>3, <1>4
  <2>2. QED
    BY <1>11, <2>1, ValueTerms
<1>15. Summable(r, k) /\ Congruent(Total(z, k), Total(r, k), p)
  <2>1. Summable(r, k)
    BY <1>10 DEF Summable
  <2>2. QED
    BY <1>1, <1>10, <1>14, <2>1, TotalCongruent
<1>16. Summable(s, k) /\ Summable(w, k) /\ Congruent(Total(s, k), Total(w, k), p)
  <2>1. Summable(s, k) /\ Summable(w, k)
    BY <1>13 DEF Summable
  <2>2. QED
    BY <1>1, <1>13, <2>1, TotalCongruent
<1>17. Total(g, k) = Value(b, k, y, p)
  <2>1. \A j \in I : g[j] = b[j] * ModPow(y, j, p)
    BY <1>3, <1>4
  <2>2. QED
    BY <2>1, ValueTerms
<1>18. Total(h, k) = Value(a, k, y, p)
  <2>1. \A j \in I : h[j] = a[j] * ModPow(y, j, p)
    BY <1>3, <1>4
  <2>2. QED
    BY <2>1, ValueTerms
<1>19. Total(g, k) \in Nat /\ Total(h, k) \in Nat
  BY <1>8, TotalNat
<1>20. Total(w, k) = Total(g, k) * Total(h, k)
  <2> DEFINE G == Total(g, k)
  <2>1. \A i \in I : w[i] = G * h[i]
    BY <1>6
  <2>2. G \in Nat
    BY <1>19
  <2> HIDE DEF G
  <2>3. Total(w, k) = G * Total(h, k)
    BY <1>8, <2>1, <2>2, TotalTimes
  <2>4. QED
    BY <2>3 DEF G
<1>21. Total(g, k) * Total(h, k) = Total(h, k) * Total(g, k)
  BY <1>19
<1>22. Congruent(Total(z, k), Total(h, k) * Total(g, k), p)
  BY <1>12, <1>15, <1>16, <1>20, <1>21 DEF Congruent
<1>23. QED
  BY <1>11, <1>14, <1>17, <1>18, <1>22

\* Different powers of a root do not cancel.
LEMMA PowerQuotient ==
  ASSUME NEW p \in Nat \ {0, 1}, NEW x \in Nat, NEW y \in Nat, MulMod(x, y, p) = 1,
         NEW k \in Nat, HasOrder(x, k, p),
         NEW i \in 0 .. k - 1, NEW j \in 0 .. k - 1, i # j
  PROVE  MulMod(ModPow(x, j, p), ModPow(y, i, p), p) # 1
<1>1. p \in Nat \ {0} /\ i \in Nat /\ j \in Nat
  OBVIOUS
<1>2. MulMod(y, x, p) = 1
  BY <1>1, MulModRing
<1>3. HasOrder(y, k, p)
  BY InverseOrder
<1>4. CASE i < j
  <2> DEFINE l == j - i
             a == ModPow(x, l, p)
             b == ModPow(x, i, p)
             c == ModPow(y, i, p)
  <2>1. l \in Nat /\ l \in 1 .. k - 1 /\ l + i = j
    BY <1>4
  <2>2. a \in Nat /\ b \in Nat /\ c \in Nat
    <3> HIDE DEF l
    <3>1. QED
      BY <1>1, <2>1, ModPowNat
  <2>3. a # 1 /\ a % p = a
    <3> HIDE DEF l
    <3>1. a # 1
      BY <2>1, OrderIs
    <3>2. a % p = a
      BY <2>1, ModPowNat
    <3>3. QED
      BY <3>1, <3>2
  <2>4. MulMod(a, b, p) = ModPow(x, j, p)
    <3> HIDE DEF l
    <3>1. MulMod(a, b, p) = ModPow(x, l + i, p)
      BY <1>1, <2>1, ModPowSum
    <3>2. QED
      BY <2>1, <3>1
  <2>5. MulMod(b, c, p) = 1
    BY <1>1, InversePowers
  <2> HIDE DEF a, b, c, l
  <2>6. MulMod(MulMod(a, b, p), c, p) = MulMod(a, MulMod(b, c, p), p)
    BY <1>1, <2>2, MulModRing
  <2>7. MulMod(a, 1, p) = a % p
    BY <1>1, <2>2, MulModRing
  <2>8. MulMod(ModPow(x, j, p), c, p) = a
    BY <2>3, <2>4, <2>5, <2>6, <2>7
  <2>9. QED
    BY <2>3, <2>8 DEF c
<1>5. CASE j < i
  <2> DEFINE l == i - j
             a == ModPow(x, j, p)
             b == ModPow(y, j, p)
             c == ModPow(y, l, p)
  <2>1. l \in Nat /\ l \in 1 .. k - 1 /\ j + l = i
    BY <1>5
  <2>2. a \in Nat /\ b \in Nat /\ c \in Nat
    <3> HIDE DEF l
    <3>1. QED
      BY <1>1, <2>1, ModPowNat
  <2>3. c # 1 /\ c % p = c
    <3> HIDE DEF l
    <3>1. c # 1
      BY <1>3, <2>1, OrderIs
    <3>2. c % p = c
      BY <2>1, ModPowNat
    <3>3. QED
      BY <3>1, <3>2
  <2>4. MulMod(b, c, p) = ModPow(y, i, p)
    <3> HIDE DEF l
    <3>1. MulMod(b, c, p) = ModPow(y, j + l, p)
      BY <1>1, <2>1, ModPowSum
    <3>2. QED
      BY <2>1, <3>1
  <2>5. MulMod(a, b, p) = 1
    BY <1>1, InversePowers
  <2> HIDE DEF a, b, c, l
  <2>6. MulMod(MulMod(a, b, p), c, p) = MulMod(a, MulMod(b, c, p), p)
    BY <1>1, <2>2, MulModRing
  <2>7. MulMod(1, c, p) = c % p
    BY <1>1, <2>2, MulModRing
  <2>8. MulMod(a, ModPow(y, i, p), p) = c
    BY <2>3, <2>4, <2>5, <2>6, <2>7
  <2>9. QED
    BY <2>3, <2>8 DEF a
<1>6. QED
  BY <1>1, <1>4, <1>5

\* The powers that meet in the inverse of a transform
LEMMA QuotientPower ==
  ASSUME NEW p \in Nat \ {0, 1}, NEW x \in Nat, NEW y \in Nat,
         NEW i \in Nat, NEW j \in Nat, NEW k \in Nat
  PROVE  MulMod(ModPow(ModPow(x, k, p), j, p), ModPow(ModPow(y, i, p), k, p), p)
         = ModPow(MulMod(ModPow(x, j, p), ModPow(y, i, p), p), k, p)
<1>1. ModPow(x, j, p) \in Nat /\ ModPow(y, i, p) \in Nat
  BY ModPowNat
<1>2. ModPow(MulMod(ModPow(x, j, p), ModPow(y, i, p), p), k, p)
      = MulMod(ModPow(ModPow(x, j, p), k, p), ModPow(ModPow(y, i, p), k, p), p)
  BY <1>1, ModPowOfProduct
<1>3. ModPow(ModPow(x, j, p), k, p) = ModPow(x, j * k, p)
  BY ModPowOfPow
<1>4. ModPow(ModPow(x, k, p), j, p) = ModPow(x, k * j, p)
  BY ModPowOfPow
<1>5. k * j = j * k
  OBVIOUS
<1>6. QED
  BY <1>2, <1>3, <1>4, <1>5

\* The sum of the powers that the coefficient j is multiplied by
LEMMA QuotientSum ==
  ASSUME NEW p \in Nat, Prime(p), NEW x \in Nat, NEW y \in Nat, MulMod(x, y, p) = 1,
         NEW k \in Nat, HasOrder(x, k, p), NEW i \in 0 .. k - 1, NEW j \in 0 .. k - 1,
         NEW f, \A t \in 0 .. k :
                  f[t] = ModPow(MulMod(ModPow(x, j, p), ModPow(y, i, p), p), t, p)
  PROVE  Summable(f, k) /\ Congruent(Total(f, k), IF i = j THEN k ELSE 0, p)
<1> DEFINE a == ModPow(x, j, p)
           b == ModPow(y, i, p)
           z == MulMod(a, b, p)
<1>1. p \in Nat \ {0, 1} /\ p \in Nat \ {0} /\ i \in Nat /\ j \in Nat
  BY DEF Prime
<1>2. a \in Nat /\ b \in Nat
  BY <1>1, ModPowNat
<1> HIDE DEF a, b
<1>3. z \in 0 .. p - 1
  BY <1>1, <1>2, MulModType
<1>4. z \in Nat
  BY <1>3
<1>5. \A t \in 0 .. k : f[t] = ModPow(z, t, p)
  BY DEF a, b
<1> HIDE DEF z
<1>6. Summable(f, k)
  <2>1. ASSUME NEW t \in 0 .. k - 1
        PROVE  f[t] \in Nat
    <3>1. t \in Nat /\ t \in 0 .. k
      OBVIOUS
    <3>2. ModPow(z, t, p) \in Nat
      BY <1>1, <1>4, <3>1, ModPowNat
    <3>3. QED
      BY <1>5, <3>1, <3>2
  <2>2. QED
    BY <2>1 DEF Summable
<1>7. CASE i = j
  <2>1. z = 1
    BY <1>1, <1>7, InversePowers DEF a, b, z
  <2>2. \A t \in 0 .. k - 1 : f[t] = 1
    <3> SUFFICES ASSUME NEW t \in 0 .. k - 1
                 PROVE  f[t] = 1
      OBVIOUS
    <3>1. t \in Nat /\ t \in 0 .. k
      OBVIOUS
    <3>2. ModPow(1, t, p) = 1
      BY <1>1, <3>1, ModPowOfOne
    <3>3. QED
      BY <1>5, <2>1, <3>1, <3>2
  <2>3. Total(f, k) = k
    BY <2>2, TotalOnes
  <2>4. QED
    BY <1>6, <1>7, <2>3 DEF Congruent
<1>8. CASE i # j
  <2>1. z # 1
    BY <1>1, <1>8, PowerQuotient DEF a, b, z
  <2>2. ModPow(x, k, p) = 1
    BY <1>1, OrderIs
  <2>3. ModPow(y, k, p) = 1
    <3>1. HasOrder(y, k, p)
      BY <1>1, InverseOrder
    <3>2. QED
      BY <1>1, <3>1, OrderIs
  <2>4. ModPow(z, k, p) = 1
    <3>1. ModPow(z, k, p) = MulMod(ModPow(a, k, p), ModPow(b, k, p), p)
      BY <1>1, <1>2, ModPowOfProduct DEF z
    <3>2. ModPow(a, k, p) = 1
      BY <1>1, <2>2, RootPeriod DEF a
    <3>3. ModPow(b, k, p) = 1
      BY <1>1, <2>3, RootPeriod DEF b
    <3>4. MulMod(1, 1, p) = 1
      <4>1. 1 * 1 = 1 /\ 1 % p = 1
        BY <1>1
      <4>2. QED
        BY <4>1 DEF MulMod
    <3>5. QED
      BY <3>1, <3>2, <3>3, <3>4
  <2>5. Total(f, k) % p = 0
    BY <1>3, <1>5, <2>1, <2>4, GeometricZero
  <2>6. 0 % p = 0
    BY <1>1
  <2>7. QED
    BY <1>6, <1>8, <2>5, <2>6 DEF Congruent
<1>9. QED
  BY <1>7, <1>8

AreValues(v, c, k, x, p) ==
  \A j \in 0 .. k - 1 : Congruent(v[j], Value(c, k, ModPow(x, j, p), p), p)

\* The transform with the inverse root of a transform: the coefficients times k
LEMMA InverseTransform ==
  ASSUME NEW p \in Nat, Prime(p), NEW x \in Nat, NEW y \in Nat, MulMod(x, y, p) = 1,
         NEW k \in Nat, HasOrder(x, k, p), NEW c, Summable(c, k), NEW v, Summable(v, k),
         AreValues(v, c, k, x, p), NEW i \in 0 .. k - 1
  PROVE  Congruent(Value(v, k, ModPow(y, i, p), p), k * c[i], p)
<1> DEFINE K == 0 .. k - 1
           w == ModPow(y, i, p)
           e == [t \in K |-> ModPow(w, t, p)]
           g == [t \in K |-> v[t] * e[t]]
           z(j) == MulMod(ModPow(x, j, p), w, p)
           f == [j \in K |-> [t \in 0 .. k |-> ModPow(z(j), t, p)]]
           h == [t \in K |-> [j \in K |-> c[j] * ModPow(ModPow(x, t, p), j, p)]]
           C == [t \in K |-> [j \in K |-> h[t][j] * e[t]]]
           D == [j \in K |-> [t \in K |-> C[t][j]]]
           r == [t \in K |-> Total(C[t], k)]
           s == [j \in K |-> Total(D[j], k)]
           u == [j \in K |-> IF j = i THEN k * c[i] ELSE 0]
<1>1. p \in Nat \ {0, 1} /\ p \in Nat \ {0} /\ i \in Nat
  BY DEF Prime
<1>2. w \in Nat
  BY <1>1, ModPowNat
<1>3. \A j \in K : c[j] \in Nat /\ v[j] \in Nat
  BY DEF Summable
<1>4. /\ \A t \in K : e[t] = ModPow(w, t, p)
      /\ \A t \in K : g[t] = v[t] * e[t]
      /\ \A j \in K : \A t \in 0 .. k : f[j][t] = ModPow(z(j), t, p)
      /\ \A t \in K : \A j \in K : h[t][j] = c[j] * ModPow(ModPow(x, t, p), j, p)
  OBVIOUS
<1>5. /\ \A t \in K : \A j \in K : C[t][j] = h[t][j] * e[t] /\ D[j][t] = C[t][j]
      /\ \A t \in K : r[t] = Total(C[t], k)
      /\ \A j \in K : s[j] = Total(D[j], k)
      /\ \A j \in K : u[j] = IF j = i THEN k * c[i] ELSE 0
  OBVIOUS
<1> HIDE DEF e, g, f, h, C, D, r, s, u
<1>6. \A t \in K : e[t] \in Nat
  <2> SUFFICES ASSUME NEW t \in K
               PROVE  e[t] \in Nat
    OBVIOUS
  <2>1. t \in Nat
    OBVIOUS
  <2> HIDE DEF w
  <2>2. ModPow(w, t, p) \in Nat
    BY <1>1, <1>2, <2>1, ModPowNat
  <2>3. QED
    BY <1>4, <2>2
<1>7. ASSUME NEW t \in K
      PROVE  /\ \A j \in K : h[t][j] \in Nat /\ C[t][j] \in Nat
             /\ Summable(h[t], k) /\ Summable(C[t], k)
             /\ r[t] \in Nat /\ g[t] \in Nat /\ Congruent(g[t], r[t], p)
  <2> DEFINE a == ModPow(x, t, p)
             V == Value(c, k, a, p)
  <2>1. t \in Nat
    OBVIOUS
  <2>2. a \in Nat
    BY <1>1, <2>1, ModPowNat
  <2>3. \A j \in K : h[t][j] = c[j] * ModPow(a, j, p)
    BY <1>4
  <2>4. Congruent(v[t], V, p)
    BY DEF AreValues
  <2> HIDE DEF a
  <2>5. Summable(h[t], k) /\ Total(h[t], k) = V
    <3> DEFINE G == h[t]
    <3>1. \A j \in K : G[j] = c[j] * ModPow(a, j, p)
      BY <2>3
    <3> HIDE DEF G, w
    <3>2. Summable(G, k) /\ Total(G, k) = Value(c, k, a, p)
      BY <1>1, <2>2, <3>1, ValueTerms, SMTT(60)
    <3>3. QED
      BY <3>2 DEF G
  <2>6. V \in Nat
    BY <1>1, <2>2, ValueNat
  <2> HIDE DEF V
  <2>7. e[t] \in Nat /\ v[t] \in Nat
    BY <1>3, <1>6
  <2>8. \A j \in K : h[t][j] \in Nat /\ C[t][j] = e[t] * h[t][j] /\ C[t][j] \in Nat
    <3> SUFFICES ASSUME NEW j \in K
                 PROVE  /\ h[t][j] \in Nat
                        /\ C[t][j] = e[t] * h[t][j] /\ C[t][j] \in Nat
      OBVIOUS
    <3>1. h[t][j] \in Nat
      BY <2>5 DEF Summable
    <3>2. C[t][j] = h[t][j] * e[t]
      BY <1>5
    <3>3. QED
      BY <2>7, <3>1, <3>2
  <2>9. Summable(C[t], k)
    BY <2>8 DEF Summable
  <2>10. Total(C[t], k) = e[t] * V
    BY <2>5, <2>7, <2>8, TotalTimes
  <2>11. r[t] = e[t] * V
    BY <1>5, <2>10
  <2>12. g[t] = v[t] * e[t]
    BY <1>4
  <2>13. v[t] * e[t] = e[t] * v[t] /\ e[t] * v[t] \in Nat /\ e[t] * V \in Nat
    BY <2>6, <2>7
  <2>14. Congruent(e[t] * v[t], e[t] * V, p)
    BY <1>1, <2>4, <2>6, <2>7, CongruentTimes
  <2>15. QED
    BY <2>5, <2>8, <2>9, <2>11, <2>12, <2>13, <2>14
<1>8. ASSUME NEW j \in K
      PROVE  /\ Summable(D[j], k) /\ s[j] \in Nat /\ u[j] \in Nat
             /\ Congruent(s[j], u[j], p)
  <2> DEFINE F == Total(f[j], k)
             d == IF i = j THEN k ELSE 0
             E == [t \in K |-> c[j] * f[j][t]]
  <2>1. j \in Nat /\ c[j] \in Nat
    BY <1>3
  <2>2. Summable(D[j], k)
    BY <1>5, <1>7 DEF Summable
  <2>3. \A t \in 0 .. k : f[j][t] = ModPow(MulMod(ModPow(x, j, p), ModPow(y, i, p), p), t, p)
    BY <1>4
  <2> HIDE DEF w
  <2>4. Summable(f[j], k) /\ Congruent(F, d, p)
    BY <2>3, QuotientSum
  <2>5. F \in Nat /\ d \in Nat
    BY <2>4, TotalNat
  <2>6. \A t \in K : f[j][t] \in Nat /\ E[t] = c[j] * f[j][t] /\ E[t] \in Nat
    <3> SUFFICES ASSUME NEW t \in K
                 PROVE  f[j][t] \in Nat /\ c[j] * f[j][t] \in Nat
      OBVIOUS
    <3>1. f[j][t] \in Nat
      BY <2>4 DEF Summable
    <3>2. QED
      BY <2>1, <3>1
  <2> HIDE DEF E
  <2>7. Summable(E, k) /\ Total(E, k) = c[j] * F
    <3>1. Summable(E, k)
      BY <2>6 DEF Summable
    <3>2. QED
      BY <2>1, <2>4, <2>6, <3>1, TotalTimes
  <2>8. ASSUME NEW t \in K
        PROVE  Congruent(D[j][t], E[t], p)
    <3> DEFINE a == ModPow(ModPow(x, t, p), j, p)
               b == e[t]
               l == a * b
    <3>1. t \in Nat /\ t \in 0 .. k
      OBVIOUS
    <3>2. a \in Nat /\ b \in Nat
      <4>1. ModPow(x, t, p) \in Nat
        BY <1>1, <3>1, ModPowNat
      <4>2. a \in Nat
        BY <1>1, <2>1, <4>1, ModPowNat
      <4>3. QED
        BY <1>6, <4>2
    <3>3. f[j][t] = ModPow(z(j), t, p)
      BY <1>4, <3>1
    <3>4. MulMod(a, ModPow(w, t, p), p) = ModPow(z(j), t, p)
      BY <1>1, <2>1, <3>1, QuotientPower DEF w
    <3>5. b = ModPow(w, t, p)
      BY <1>4
    <3>6. D[j][t] = (c[j] * a) * b
      BY <1>4, <1>5
    <3> HIDE DEF a, b
    <3>7. f[j][t] = l % p
      BY <3>3, <3>4, <3>5 DEF MulMod
    <3>8. (c[j] * a) * b = c[j] * l
      BY <2>1, <3>2
    <3>9. l \in Nat
      BY <3>2
    <3> HIDE DEF l
    <3>10. Congruent(l, l % p, p)
      BY <1>1, <3>9, CongruentMod, CongruentSym
    <3>11. l % p \in Nat
      BY <1>1, <3>9
    <3>12. Congruent(c[j] * l, c[j] * (l % p), p)
      BY <1>1, <2>1, <3>9, <3>10, <3>11, CongruentTimes
    <3>13. QED
      BY <2>6, <3>6, <3>7, <3>8, <3>12
  <2>9. Congruent(Total(D[j], k), Total(E, k), p)
    BY <1>1, <2>2, <2>7, <2>8, TotalCongruent
  <2>10. Congruent(c[j] * F, c[j] * d, p)
    BY <1>1, <2>1, <2>4, <2>5, CongruentTimes
  <2>11. u[j] = c[j] * d
    BY <1>5, <2>1
  <2>12. c[j] * d \in Nat
    BY <2>1, <2>5
  <2>13. Total(D[j], k) \in Nat
    BY <2>2, TotalNat
  <2> HIDE DEF F, d
  <2>14. s[j] = Total(D[j], k)
    BY <1>5
  <2>15. Congruent(s[j], c[j] * d, p)
    BY <2>7, <2>9, <2>10, <2>14, CongruentTrans
  <2>16. QED
    BY <2>2, <2>11, <2>12, <2>13, <2>14, <2>15
<1>9. Total(r, k) = Total(s, k)
  <2>1. AreSums(r, C, k, k)
    BY <1>5, <1>7 DEF AreSums
  <2>2. AreSums(s, D, k, k)
    BY <1>5, <1>8 DEF AreSums
  <2>3. Transposed(D, C, k, k)
    BY <1>5 DEF Transposed
  <2>4. QED
    BY <2>1, <2>2, <2>3, TotalExchange
<1>10. Summable(g, k) /\ Total(g, k) = Value(v, k, w, p)
  <2>1. \A t \in K : g[t] = v[t] * ModPow(w, t, p)
    BY <1>4
  <2> HIDE DEF w
  <2>2. QED
    BY <1>1, <1>2, <2>1, ValueTerms
<1>11. Congruent(Total(g, k), Total(r, k), p)
  <2>1. Summable(r, k)
    BY <1>7 DEF Summable
  <2>2. QED
    BY <1>1, <1>7, <1>10, <2>1, TotalCongruent
<1>12. Congruent(Total(s, k), Total(u, k), p)
  <2>1. Summable(s, k) /\ Summable(u, k)
    BY <1>8 DEF Summable
  <2>2. QED
    BY <1>1, <1>8, <2>1, TotalCongruent
<1>13. Total(u, k) = k * c[i]
  <2>1. u[i] = k * c[i] /\ u[i] \in Nat
    BY <1>5, <1>8
  <2>2. \A j \in K : j # i => u[j] = 0
    BY <1>5
  <2>3. QED
    BY <2>1, <2>2, TotalOnly
<1>14. QED
  BY <1>9, <1>10, <1>11, <1>12, <1>13 DEF Congruent

-----------------------------------------------------------------------------
(***************************************************************************)
(* A generator modulo a prime: the m-th powers have an m-th difference     *)
(* that is not zero modulo p, so that no power below p - 1 is constant;    *)
(* and numbers that count for one prime factor of p - 1 each, multiplied.  *)
(***************************************************************************)

(***************************************************************************)
(* T[i][x] is the i-th difference at x of the m-th powers: the m-th        *)
(* differences are all c.                                                  *)
(***************************************************************************)
Differences(T, m, c) ==
  /\ T \in [Nat -> [Nat -> Nat]]
  /\ \A x \in Nat : T[0][x] = Pow(x, m)
  /\ \A i \in Nat : \A x \in Nat : T[i][x + 1] = T[i][x] + T[i + 1][x]
  /\ \A x \in Nat : T[m][x] = c

\* The zeroth powers are constant.
LEMMA DifferencesStart == \E T : Differences(T, 0, 1)
<1> DEFINE T == [i \in Nat |-> [x \in Nat |-> IF i = 0 THEN 1 ELSE 0]]
<1>1. \A i \in Nat : \A x \in Nat : T[i][x] = IF i = 0 THEN 1 ELSE 0
  OBVIOUS
<1>2. T \in [Nat -> [Nat -> Nat]]
  OBVIOUS
<1> HIDE DEF T
<1>3. \A i \in Nat : i + 1 \in Nat /\ i + 1 # 0
  OBVIOUS
<1>4. \A x \in Nat : T[0][x] = Pow(x, 0)
  BY <1>1, PowStep
<1>5. \A i \in Nat : \A x \in Nat : T[i][x + 1] = T[i][x] + T[i + 1][x]
  <2> SUFFICES ASSUME NEW i \in Nat, NEW x \in Nat
               PROVE  T[i][x + 1] = T[i][x] + T[i + 1][x]
    OBVIOUS
  <2>1. T[i + 1][x] = 0
    BY <1>1, <1>3
  <2>2. T[i][x] = T[i][x + 1] /\ T[i][x] \in Nat
    BY <1>1
  <2>3. QED
    BY <2>1, <2>2
<1>6. \A x \in Nat : T[0][x] = 1
  BY <1>1
<1>7. Differences(T, 0, 1)
  BY <1>2, <1>4, <1>5, <1>6 DEF Differences
<1>8. QED
  BY <1>7

\* Leibniz: the differences of the next powers
LEMMA DifferencesStep ==
  ASSUME NEW m \in Nat, NEW c \in Nat, NEW T, Differences(T, m, c)
  PROVE  \E U : Differences(U, m + 1, (m + 1) * c)
<1> DEFINE V(i, x) == IF i = 0 THEN x * T[0][x]
                              ELSE (x + i) * T[i][x] + i * T[i - 1][x]
           U == [i \in Nat |-> [x \in Nat |-> V(i, x)]]
<1>1. \A i \in Nat : \A x \in Nat : T[i][x] \in Nat
  BY DEF Differences
<1>2. \A x \in Nat : U[0][x] = x * T[0][x]
  OBVIOUS
<1>3. ASSUME NEW i \in Nat, NEW x \in Nat
      PROVE  U[i + 1][x] = (x + (i + 1)) * T[i + 1][x] + (i + 1) * T[i][x]
  <2>1. i + 1 \in Nat /\ i + 1 # 0 /\ (i + 1) - 1 = i
    OBVIOUS
  <2>2. U[i + 1][x] = (x + (i + 1)) * T[i + 1][x] + (i + 1) * T[(i + 1) - 1][x]
    BY <2>1
  <2>3. QED
    BY <2>1, <2>2
<1>4. U \in [Nat -> [Nat -> Nat]]
  <2>1. ASSUME NEW i \in Nat, NEW x \in Nat
        PROVE  V(i, x) \in Nat
    <3>1. CASE i = 0
      BY <1>1, <3>1
    <3>2. CASE i # 0
      <4>1. T[i][x] \in Nat /\ T[i - 1][x] \in Nat
        BY <1>1, <3>2
      <4>2. QED
        BY <3>2, <4>1
    <3>3. QED
      BY <3>1, <3>2
  <2>2. QED
    BY <2>1
<1> HIDE DEF U, V
<1>5. ASSUME NEW x \in Nat
      PROVE  U[0][x] = Pow(x, m + 1)
  BY <1>2, PowStep DEF Differences
<1>6. ASSUME NEW i \in Nat, NEW x \in Nat
      PROVE  U[i][x + 1] = U[i][x] + U[i + 1][x]
  <2> DEFINE t == T[i][x]
             s == T[i + 1][x]
  <2>1. t \in Nat /\ s \in Nat /\ T[i][x + 1] = t + s /\ x + 1 \in Nat
    BY <1>1 DEF Differences
  <2>2. U[i + 1][x] = (x + (i + 1)) * s + (i + 1) * t
    BY <1>3
  <2> HIDE DEF s, t
  <2>3. CASE i = 0
    <3>1. U[i][x + 1] = (x + 1) * (t + s) /\ U[i][x] = x * t
      BY <1>2, <2>1, <2>3 DEF t
    <3>2. U[i + 1][x] = (x + 1) * s + t
      BY <2>1, <2>2, <2>3
    <3>3. (x + 1) * (t + s) = x * t + ((x + 1) * s + t)
      BY <2>1
    <3>4. QED
      BY <3>1, <3>2, <3>3
  <2>4. CASE i # 0
    <3> DEFINE j == i - 1
               r == T[j][x]
    <3>1. j \in Nat /\ i = j + 1
      BY <2>4
    <3>2. r \in Nat /\ T[j][x + 1] = r + t
      BY <1>1, <3>1 DEF Differences, t
    <3> HIDE DEF j
    <3>3. U[i][x] = (x + i) * t + i * r
      BY <1>3, <3>1 DEF t
    <3>4. U[i][x + 1] = ((x + 1) + i) * (t + s) + i * (r + t)
      <4>1. U[j + 1][x + 1] = ((x + 1) + (j + 1)) * T[j + 1][x + 1] + (j + 1) * T[j][x + 1]
        BY <1>3, <2>1, <3>1
      <4>2. QED
        BY <2>1, <3>1, <3>2, <4>1
    <3> HIDE DEF r
    <3>5. ((x + 1) + i) * (t + s) + i * (r + t)
            = ((x + i) * t + i * r) + ((x + (i + 1)) * s + (i + 1) * t)
      BY <2>1, <3>2
    <3>6. QED
      BY <2>2, <3>3, <3>4, <3>5
  <2>5. QED
    BY <2>3, <2>4
<1>7. ASSUME NEW x \in Nat
      PROVE  U[m + 1][x] = (m + 1) * c
  <2>1. T[m][x] = c /\ T[m][x + 1] = c /\ T[m][x + 1] = T[m][x] + T[m + 1][x]
    BY DEF Differences
  <2>2. T[m + 1][x] = 0
    <3>1. T[m + 1][x] \in Nat
      BY <1>1
    <3>2. QED
      BY <2>1, <3>1
  <2>3. U[m + 1][x] = (x + (m + 1)) * 0 + (m + 1) * c
    BY <1>3, <2>1, <2>2
  <2>4. (x + (m + 1)) * 0 = 0 /\ (m + 1) * c \in Nat
    OBVIOUS
  <2>5. QED
    BY <2>3, <2>4
<1>8. Differences(U, m + 1, (m + 1) * c)
  BY <1>4, <1>5, <1>6, <1>7 DEF Differences
<1>9. QED
  BY <1>8

\* Below a prime p, the m-th differences of the m-th powers are not 0 modulo p.
LEMMA DifferencesExist ==
  ASSUME NEW p \in Nat, Prime(p), NEW m \in Nat, m < p
  PROVE  \E T : \E c \in Nat : Differences(T, m, c) /\ c % p # 0
<1> DEFINE Good(k) == \E T : \E c \in Nat : Differences(T, k, c) /\ c % p # 0
           S == {k \in Nat : k < p => Good(k)}
<1>1. p > 1
  BY SmallPrimes
<1>2. 0 \in S
  <2>1. 1 % p # 0
    BY <1>1
  <2>2. QED
    BY <2>1, DifferencesStart
<1>3. ASSUME NEW k \in Nat, k \in S
      PROVE  k + 1 \in S
  <2> SUFFICES ASSUME k + 1 < p
               PROVE  Good(k + 1)
    OBVIOUS
  <2>0. Good(k)
    BY <1>3
  <2>1. PICK T : \E c \in Nat : Differences(T, k, c) /\ c % p # 0
    BY <2>0
  <2>2. PICK c \in Nat : Differences(T, k, c) /\ c % p # 0
    BY <2>1
  <2>3. PICK U : Differences(U, k + 1, (k + 1) * c)
    BY <2>2, DifferencesStep
  <2>4. (k + 1) % p # 0
    BY <1>1
  <2>5. (k + 1) * c \in Nat /\ k + 1 \in Nat
    OBVIOUS
  <2>6. ((k + 1) * c) % p # 0
    BY <2>2, <2>4, <2>5, EuclidsLemma
  <2>7. QED
    BY <2>3, <2>5, <2>6
<1> HIDE DEF S
<1>4. Nat \subseteq S
  BY <1>2, <1>3, Induction
<1>5. QED
  BY <1>4 DEF S

\* No power below p - 1 is one for all that p does not divide.
LEMMA PowersNotConstant ==
  ASSUME NEW p \in Nat, Prime(p), NEW m \in 1 .. p - 2
  PROVE  \E x \in 1 .. p - 1 : Pow(x, m) % p # 1
<1> SUFFICES ASSUME \A x \in 1 .. p - 1 : Pow(x, m) % p = 1
             PROVE  FALSE
  OBVIOUS
<1>1. p \in Nat \ {0, 1}
  BY SmallPrimes
<1>2. m \in Nat /\ m < p
  BY <1>1
<1>3. PICK T : \E c \in Nat : Differences(T, m, c) /\ c % p # 0
  BY <1>2, DifferencesExist
<1>4. PICK c \in Nat : Differences(T, m, c) /\ c % p # 0
  BY <1>3
<1> DEFINE Zero(i) == \A x \in 1 .. (p - 1) - i : T[i][x] % p = 0
           S == {k \in Nat : Zero(k + 1)}
<1>5. ASSUME NEW i \in Nat, NEW x \in 1 .. (p - 1) - (i + 1),
             T[i][x] % p = T[i][x + 1] % p
      PROVE  T[i + 1][x] % p = 0
  <2> DEFINE a == T[i][x]
             b == T[i][x + 1]
             d == T[i + 1][x]
  <2>1. a \in Nat /\ b \in Nat /\ d \in Nat /\ b = a + d
    <3>1. x \in Nat /\ x + 1 \in Nat /\ i + 1 \in Nat
      BY <1>1
    <3>2. T \in [Nat -> [Nat -> Nat]]
          /\ \A k \in Nat : \A y \in Nat : T[k][y + 1] = T[k][y] + T[k + 1][y]
      BY <1>4 DEF Differences
    <3>3. QED
      BY <3>1, <3>2
  <2>2. b % p = a % p
    BY <1>5
  <2> HIDE DEF a, b, d
  <2>3. a <= b /\ b - a = d
    BY <2>1
  <2>4. d % p = 0
    <3>1. p \in Nat \ {0}
      BY <1>1
    <3>2. (b - a) % p = 0
      BY <2>1, <2>2, <2>3, <3>1, ModDifference
    <3>3. QED
      BY <2>3, <3>2
  <2>5. QED
    BY <2>4 DEF d
<1>6. 0 \in S
  <2>1. ASSUME NEW x \in 1 .. (p - 1) - (0 + 1)
        PROVE  T[0 + 1][x] % p = 0
    <3>1. x \in 1 .. p - 1 /\ x + 1 \in 1 .. p - 1 /\ x \in Nat /\ x + 1 \in Nat
      BY <1>1
    <3>2. T[0][x] = Pow(x, m) /\ T[0][x + 1] = Pow(x + 1, m)
      BY <1>4, <3>1 DEF Differences
    <3>3. T[0][x] % p = T[0][x + 1] % p
      BY <3>1, <3>2
    <3>4. QED
      BY <1>5, <3>3
  <2>2. Zero(0 + 1)
    BY <2>1
  <2>3. QED
    BY <2>2
<1>7. ASSUME NEW k \in Nat, k \in S
      PROVE  k + 1 \in S
  <2>0. k + 1 \in Nat /\ Zero(k + 1)
    BY <1>7
  <2>1. ASSUME NEW x \in 1 .. (p - 1) - ((k + 1) + 1)
        PROVE  T[(k + 1) + 1][x] % p = 0
    <3>1. x \in 1 .. (p - 1) - (k + 1) /\ x + 1 \in 1 .. (p - 1) - (k + 1)
      BY <1>1
    <3>2. T[k + 1][x] % p = 0 /\ T[k + 1][x + 1] % p = 0
      BY <2>0, <3>1
    <3>3. T[k + 1][x] % p = T[k + 1][x + 1] % p
      BY <3>2
    <3>4. QED
      BY <1>5, <2>0, <3>3
  <2>2. Zero((k + 1) + 1)
    BY <2>1
  <2>3. QED
    BY <2>0, <2>2
<1>8. Zero(m)
  <2> HIDE DEF S
  <2>1. Nat \subseteq S
    BY <1>6, <1>7, Induction
  <2>2. m - 1 \in Nat /\ (m - 1) + 1 = m
    OBVIOUS
  <2>3. Zero((m - 1) + 1)
    BY <2>1, <2>2 DEF S
  <2>4. QED
    BY <2>2, <2>3
<1>9. 1 \in 1 .. (p - 1) - m
  BY <1>1
<1>10. T[m][1] % p = 0
  BY <1>8, <1>9
<1>11. T[m][1] = c
  BY <1>4 DEF Differences
<1>12. QED
  BY <1>4, <1>10, <1>11

\* What remains of n when every factor f is taken out.
LEMMA PrimePowerSplit ==
  ASSUME NEW f \in Nat \ {0, 1}
  PROVE  \A n \in Nat : n # 0 => \E k \in Nat : \E s \in Nat : n = Pow(f, k) * s /\ s % f # 0
<1> DEFINE Good(n) == \E k \in Nat : \E s \in Nat : n = Pow(f, k) * s /\ s % f # 0
           S == {n \in Nat : n # 0 => Good(n)}
<1>1. ASSUME NEW n \in Nat, \A j \in 0 .. n - 1 : j \in S
      PROVE  n \in S
  <2> SUFFICES ASSUME n # 0
               PROVE  Good(n)
    OBVIOUS
  <2>1. CASE n % f # 0
    <3>1. n = Pow(f, 0) * n
      BY PowStep
    <3>2. QED
      BY <2>1, <3>1
  <2>2. CASE n % f = 0
    <3> DEFINE j == n \div f
    <3>1. j \in Nat \ {0} /\ n = j * f
      BY <2>2, ExactQuotient
    <3> HIDE DEF j
    <3>2. j < n
      <4>1. j * f >= j * 2
        BY <3>1
      <4>2. QED
        BY <3>1, <4>1
    <3>3. Good(j)
      BY <1>1, <3>1, <3>2
    <3>4. PICK k \in Nat : \E s \in Nat : j = Pow(f, k) * s /\ s % f # 0
      BY <3>3
    <3>5. PICK s \in Nat : j = Pow(f, k) * s /\ s % f # 0
      BY <3>4
    <3>6. n = Pow(f, k + 1) * s
      <4>1. Pow(f, k + 1) = f * Pow(f, k) /\ Pow(f, k) \in Nat
        BY PowStep
      <4>2. (Pow(f, k) * s) * f = (f * Pow(f, k)) * s
        BY <4>1
      <4>3. QED
        BY <3>1, <3>5, <4>1, <4>2
    <3>7. QED
      BY <3>5, <3>6
  <2>3. QED
    BY <2>1, <2>2
<1> HIDE DEF S
<1>2. Nat \subseteq S
  BY <1>1, StrongInduction
<1>3. QED
  BY <1>2 DEF S

\* A root of one of prime order f, to a power that f does not divide
LEMMA PrimeOrderPower ==
  ASSUME NEW p \in Nat \ {0, 1}, NEW z \in 0 .. p - 1, z # 1, NEW f \in Nat, Prime(f),
         ModPow(z, f, p) = 1, NEW s \in Nat, s % f # 0
  PROVE  ModPow(z, s, p) # 1
<1>1. f \in Nat \ {0} /\ Pow(z, f) % p = 1
  BY SmallPrimes, ModPowIs
<1>2. PICK k : IsOrder(z, k, p)
  BY <1>1, OrderExists
<1>3. k \in Nat \ {0} /\ Pow(z, k) % p = 1
  BY <1>2 DEF IsOrder
<1>4. f % k = 0
  BY <1>1, <1>2, OrderDivides
<1>5. k \in {1, f}
  BY <1>3, <1>4, PrimeDivisors
<1>6. k # 1
  <2>1. Pow(z, 1) % p = z
    <3>1. z \in Nat /\ 1 \in Nat /\ z % p = z
      OBVIOUS
    <3>2. ModPow(z, 1, p) = z % p
      BY <3>1, ModPowType
    <3>3. QED
      BY <3>1, <3>2, ModPowIs
  <2>2. QED
    BY <1>3, <2>1
<1>7. k = f
  BY <1>5, <1>6
<1>8. QED
  <2> SUFFICES ASSUME ModPow(z, s, p) = 1
               PROVE  FALSE
    OBVIOUS
  <2>1. Pow(z, s) % p = 1
    BY ModPowIs
  <2>2. s % k = 0
    BY <1>2, <2>1, OrderDivides
  <2>3. QED
    BY <1>7, <2>2

\* The quotients of n by its primes, when the factors f are split off
LEMMA PrimeQuotients ==
  ASSUME NEW n \in Nat \ {0}, NEW f \in PrimeFactors(n)
  PROVE  \E s \in Nat : \E k \in Nat \ {0} :
           /\ s % f # 0
           /\ n = Pow(f, k) * s
           /\ \A r \in PrimeFactors(n) : r # f => (s * (n \div r)) % n = 0
<1>1. f \in Nat \ {0, 1} /\ Prime(f) /\ n % f = 0
  BY PrimeFactorsIs, SmallPrimes
<1>2. PICK k \in Nat : \E s \in Nat : n = Pow(f, k) * s /\ s % f # 0
  BY <1>1, PrimePowerSplit
<1>3. PICK s \in Nat : n = Pow(f, k) * s /\ s % f # 0
  BY <1>2
<1>4. k # 0
  <2> SUFFICES ASSUME k = 0
               PROVE  FALSE
    OBVIOUS
  <2>1. n = s
    BY <1>1, <1>3, PowStep
  <2>2. QED
    BY <1>1, <1>3, <2>1
<1>5. ASSUME NEW r \in PrimeFactors(n), r # f
      PROVE  (s * (n \div r)) % n = 0
  <2>1. r \in Nat \ {0, 1} /\ Prime(r) /\ n % r = 0
    BY PrimeFactorsIs, SmallPrimes
  <2>2. f % r # 0
    BY <1>1, <1>5, <2>1, PrimeDivisors
  <2> DEFINE w == Pow(f, k)
             m == n \div r
             t == s \div r
  <2>3. w \in Nat /\ w % r # 0
    BY <1>1, <2>1, <2>2, PowNat, PowNotZero
  <2>4. s % r = 0
    <3>1. n = w * s
      BY <1>3
    <3> HIDE DEF w
    <3>2. QED
      BY <2>1, <2>3, <3>1, EuclidsLemma
  <2>5. s # 0
    <3>1. 0 % f = 0
      BY <1>1
    <3>2. QED
      BY <1>3, <3>1
  <2>6. t \in Nat /\ s = t * r
    <3>1. s \in Nat \ {0} /\ r \in Nat \ {0}
      BY <2>1, <2>5
    <3>2. QED
      BY <2>4, <3>1, ExactQuotient
  <2>7. m \in Nat /\ n = m * r
    <3>1. r \in Nat \ {0}
      BY <2>1
    <3>2. QED
      BY <2>1, <3>1, ExactQuotient
  <2> HIDE DEF m, t, w
  <2>8. s * m = t * n
    <3>1. (t * r) * m = t * (m * r)
      BY <2>1, <2>6, <2>7
    <3>2. QED
      BY <2>6, <2>7, <3>1
  <2>9. (s * m) % n = 0
    <3>1. n % n = 0
      OBVIOUS
    <3>2. (t * n) % n = 0
      BY <2>6, <3>1, DividesProduct
    <3>3. QED
      BY <2>8, <3>2
  <2>10. QED
    BY <2>9 DEF m
<1>6. QED
  BY <1>3, <1>4, <1>5

\* Fermat, for a multiple of p - 1
LEMMA FermatMultiple ==
  ASSUME NEW p \in Nat, Prime(p), NEW x \in 1 .. p - 1, NEW e \in Nat, e % (p - 1) = 0
  PROVE  ModPow(x, e, p) = 1
<1>1. p \in Nat \ {0, 1} /\ p - 1 \in Nat \ {0} /\ x % p # 0
  BY SmallPrimes
<1>2. ModPow(x, p - 1, p) = 1
  BY <1>1, FermatModPow
<1>3. PICK k \in Nat : e = k * (p - 1)
  BY <1>1, Multiple
<1>4. k * (p - 1) = (p - 1) * k
  BY <1>1
<1>5. ModPow(x, (p - 1) * k, p) = ModPow(1, k, p)
  BY <1>1, <1>2, ModPowOfPow
<1>6. QED
  BY <1>1, <1>3, <1>4, <1>5, ModPowOfOne

\* Products of numbers that p does not divide
LEMMA UnitProduct ==
  ASSUME NEW p \in Nat, Prime(p), NEW a \in 1 .. p - 1, NEW b \in 1 .. p - 1
  PROVE  MulMod(a, b, p) \in 1 .. p - 1
<1>1. p \in Nat \ {0} /\ a \in Nat /\ b \in Nat /\ a % p # 0 /\ b % p # 0
  BY SmallPrimes
<1>2. (a * b) % p # 0
  BY <1>1, EuclidsLemma
<1>3. MulMod(a, b, p) \in 0 .. p - 1
  BY <1>1, MulModType
<1>4. QED
  BY <1>2, <1>3 DEF MulMod

\* Powers of such numbers
LEMMA UnitPower ==
  ASSUME NEW p \in Nat, Prime(p), NEW a \in 1 .. p - 1, NEW e \in Nat
  PROVE  ModPow(a, e, p) \in 1 .. p - 1
<1>1. p \in Nat \ {0, 1} /\ a % p # 0
  BY SmallPrimes
<1>2. ModPow(a, e, p) # 0
  BY <1>1, PowNotZero, ModPowIs
<1>3. QED
  BY <1>1, <1>2, ModPowNat

\* For each prime f of p - 1 there is a number that counts for f only.
LEMMA SeparatingPower ==
  ASSUME NEW p \in Nat, Prime(p), NEW f \in PrimeFactors(p - 1)
  PROVE  \E y \in 1 .. p - 1 :
           /\ ModPow(y, (p - 1) \div f, p) # 1
           /\ \A r \in PrimeFactors(p - 1) : r # f => ModPow(y, (p - 1) \div r, p) = 1
<1> DEFINE n == p - 1
           m == n \div f
<1>1. p \in Nat \ {0, 1} /\ n \in Nat \ {0} /\ p - 1 = n
  BY SmallPrimes
<1> HIDE DEF n
<1>2. f \in Nat \ {0, 1} /\ Prime(f) /\ n % f = 0
  BY <1>1, PrimeFactorsIs, SmallPrimes
<1>3. m \in Nat \ {0} /\ n = m * f
  <2>1. f \in Nat \ {0}
    BY <1>2
  <2>2. QED
    BY <1>1, <1>2, <2>1, ExactQuotient
<1> HIDE DEF m
<1>4. m \in 1 .. p - 2
  <2>1. m * f >= m * 2
    BY <1>2, <1>3
  <2>2. m < n
    BY <1>2, <1>3, <2>1
  <2>3. QED
    BY <1>1, <1>3, <2>2
<1>5. PICK x \in 1 .. p - 1 : Pow(x, m) % p # 1
  BY <1>4, PowersNotConstant
<1> DEFINE z == ModPow(x, m, p)
<1>6. z # 1 /\ z \in 0 .. p - 1
  BY <1>1, <1>3, <1>5, ModPowIs, ModPowType
<1>7. ModPow(z, f, p) = 1
  <2>1. ModPow(z, f, p) = ModPow(x, m * f, p)
    BY <1>1, <1>2, <1>3, ModPowOfPow
  <2>2. x % p # 0
    BY <1>1
  <2>3. QED
    BY <1>1, <1>3, <2>1, <2>2, FermatModPow
<1> HIDE DEF z
<1>8. PICK s \in Nat : \E k \in Nat \ {0} :
        /\ s % f # 0
        /\ n = Pow(f, k) * s
        /\ \A r \in PrimeFactors(n) : r # f => (s * (n \div r)) % n = 0
  <2>1. f \in PrimeFactors(n)
    BY <1>1
  <2>2. QED
    BY <1>1, <2>1, PrimeQuotients
<1> DEFINE y == ModPow(x, s, p)
<1>9. y \in 1 .. p - 1
  BY UnitPower
<1>10. ModPow(y, m, p) # 1
  <2>1. ModPow(y, m, p) = ModPow(x, s * m, p) /\ ModPow(z, s, p) = ModPow(x, m * s, p)
    <3>1. x \in Nat /\ m \in Nat
      BY <1>1, <1>3
    <3>2. QED
      BY <1>1, <3>1, ModPowOfPow DEF z
  <2>2. s * m = m * s
    BY <1>3
  <2>3. ModPow(z, s, p) # 1
    <3>1. s % f # 0 /\ f \in Nat
      BY <1>2, <1>8
    <3>2. QED
      BY <1>1, <1>2, <1>6, <1>7, <3>1, PrimeOrderPower
  <2>4. QED
    BY <2>1, <2>2, <2>3
<1>11. ASSUME NEW r \in PrimeFactors(n), r # f
       PROVE  ModPow(y, n \div r, p) = 1
  <2>1. (s * (n \div r)) % n = 0
    BY <1>8, <1>11
  <2>2. n \div r \in Nat
    <3>1. r \in Nat \ {0} /\ n % r = 0
      BY <1>1, PrimeFactorsIs, SmallPrimes
    <3>2. QED
      BY <1>1, <3>1, ExactQuotient
  <2> DEFINE h == n \div r
             e == s * h
  <2>3. ModPow(y, h, p) = ModPow(x, e, p)
    BY <1>1, <2>2, ModPowOfPow
  <2>4. e \in Nat /\ e % (p - 1) = 0
    BY <1>1, <2>1, <2>2
  <2> HIDE DEF e
  <2>5. ModPow(x, e, p) = 1
    BY <2>4, FermatMultiple
  <2>6. QED
    BY <2>3, <2>5
<1>12. QED
  BY <1>1, <1>9, <1>10, <1>11 DEF m

\* One number that counts for all of the primes up to a bound
LEMMA SeparatingProduct ==
  ASSUME NEW p \in Nat, Prime(p), NEW b \in Nat
  PROVE  \E x \in 1 .. p - 1 :
           \A f \in PrimeFactors(p - 1) : f <= b => ModPow(x, (p - 1) \div f, p) # 1
<1> DEFINE n == p - 1
           Good(x, k) == \A f \in PrimeFactors(n) : f <= k => ModPow(x, n \div f, p) # 1
           S == {k \in Nat : \E x \in 1 .. p - 1 : Good(x, k)}
<1>1. p \in Nat \ {0, 1} /\ n \in Nat \ {0}
  BY SmallPrimes
<1>2. 0 \in S
  <2>1. \A f \in PrimeFactors(n) : ~(f <= 0)
    BY DEF PrimeFactors
  <2>2. Good(1, 0) /\ 1 \in 1 .. p - 1
    BY <1>1, <2>1
  <2>3. QED
    BY <2>2
<1>3. ASSUME NEW k \in Nat, k \in S
      PROVE  k + 1 \in S
  <2>1. PICK x \in 1 .. p - 1 : Good(x, k)
    BY <1>3
  <2>2. \A f \in PrimeFactors(n) : f <= k + 1 => f <= k \/ f = k + 1
    BY DEF PrimeFactors
  <2>3. CASE k + 1 \in PrimeFactors(n) => ModPow(x, n \div (k + 1), p) # 1
    <3>1. Good(x, k + 1)
      BY <2>1, <2>2, <2>3
    <3>2. QED
      BY <3>1
  <2>4. CASE k + 1 \in PrimeFactors(n) /\ ModPow(x, n \div (k + 1), p) = 1
    <3>1. PICK y \in 1 .. p - 1 :
            /\ ModPow(y, n \div (k + 1), p) # 1
            /\ \A r \in PrimeFactors(n) : r # k + 1 => ModPow(y, n \div r, p) = 1
      BY <2>4, SeparatingPower
    <3> DEFINE w == MulMod(x, y, p)
    <3>2. w \in 1 .. p - 1
      BY UnitProduct
    <3>3. ASSUME NEW f \in PrimeFactors(n)
          PROVE  n \div f \in Nat
                 /\ ModPow(w, n \div f, p)
                      = MulMod(ModPow(x, n \div f, p), ModPow(y, n \div f, p), p)
      <4>1. f \in Nat \ {0} /\ n % f = 0
        BY <1>1, PrimeFactorsIs, SmallPrimes
      <4>2. n \div f \in Nat
        BY <1>1, <4>1, ExactQuotient
      <4> HIDE DEF n
      <4>3. QED
        BY <1>1, <4>2, ModPowOfProduct
    <3>4. ASSUME NEW f \in PrimeFactors(n), f <= k + 1
          PROVE  ModPow(w, n \div f, p) # 1
      <4> DEFINE a == ModPow(x, n \div f, p)
                 c == ModPow(y, n \div f, p)
      <4>1. ModPow(w, n \div f, p) = MulMod(a, c, p) /\ a \in 0 .. p - 1 /\ c \in 0 .. p - 1
        BY <1>1, <3>3, ModPowType
      <4>2. CASE f = k + 1
        <5>1. a = 1 /\ c # 1
          BY <2>4, <3>1, <4>2
        <5>2. MulMod(1, c, p) = c
          BY <4>1 DEF MulMod
        <5>3. QED
          BY <4>1, <5>1, <5>2
      <4>3. CASE f <= k
        <5>1. a # 1 /\ c = 1
          <6>1. f # k + 1
            BY <4>3
          <6>2. QED
            BY <2>1, <3>1, <4>3, <6>1
        <5>2. MulMod(a, 1, p) = a
          BY <4>1 DEF MulMod
        <5>3. QED
          BY <4>1, <5>1, <5>2
      <4>4. QED
        BY <2>2, <3>4, <4>2, <4>3
    <3>5. Good(w, k + 1)
      BY <3>4
    <3>6. QED
      BY <3>2, <3>5
  <2>5. QED
    BY <2>3, <2>4
<1> HIDE DEF S
<1>4. Nat \subseteq S
  BY <1>2, <1>3, Induction
<1>5. QED
  BY <1>4 DEF S

(***************************************************************************)
(* Modulo a prime above two there is a generator: a number none of whose   *)
(* powers to (p - 1) / f is one, which is what ntt__find_primitive_root    *)
(* looks for.                                                              *)
(***************************************************************************)
THEOREM GeneratorExists ==
  ASSUME NEW p \in Nat, Prime(p), p # 2
  PROVE  \E x \in 2 .. p - 1 :
           \A f \in PrimeFactors(p - 1) : ModPow(x, (p - 1) \div f, p) # 1
<1>1. p \in Nat \ {0, 1} /\ p % 2 = 1 /\ p - 1 \in Nat \ {0}
  BY SmallPrimes
<1>2. PICK x \in 1 .. p - 1 :
        \A f \in PrimeFactors(p - 1) : f <= p => ModPow(x, (p - 1) \div f, p) # 1
  BY SeparatingProduct
<1>3. \A f \in PrimeFactors(p - 1) : f <= p
  BY <1>1 DEF PrimeFactors
<1>4. x # 1
  <2>1. Prime(2) /\ (p - 1) % 2 = 0
    <3>1. Prime(2)
      BY DEF Prime
    <3>2. (p - 1) % 2 = 0
      BY <1>1
    <3>3. QED
      BY <3>1, <3>2
  <2>2. 2 \in PrimeFactors(p - 1)
    BY <1>1, <2>1, PrimeFactorsIs
  <2>3. (p - 1) \div 2 \in Nat
    BY <1>1
  <2>4. ModPow(1, (p - 1) \div 2, p) = 1
    BY <1>1, <2>3, ModPowOfOne
  <2>5. QED
    BY <1>2, <1>3, <2>2, <2>4
<1>5. QED
  BY <1>2, <1>3, <1>4

=============================================================================
