-------------------------- MODULE TransformProofs --------------------------
(***************************************************************************)
(* Proofs about the transforms, for any contexts that root resolution can  *)
(* leave, any operands and any number of calls: the forward transform      *)
(* gives the values at the powers of omega, the inverse gives back the     *)
(* coefficients, and both ways of multiplying give the product.            *)
(*                                                                         *)
(* The argument follows the code: the permutation is the reversal of the   *)
(* bits of an index; between two stages each block holds the transform of  *)
(* every other, every fourth, ... coefficient (Blocks); encoded values     *)
(* compute as residues do; the product of the values at a root of x^n + 1  *)
(* is the value of the product modulo x^n + 1 there.                       *)
(***************************************************************************)
EXTENDS Transform, NumberTheoryProofs

-----------------------------------------------------------------------------
(***************************************************************************)
(* Reversed bits                                                           *)
(***************************************************************************)

Bit(x, k) == (x \div 2^k) % 2

\* A digit
LEMMA BitType ==
  ASSUME NEW x \in Nat, NEW k \in Nat
  PROVE  Bit(x, k) \in 0 .. 1
<1> DEFINE w == 2^k
           d == x \div w
<1>1. w \in Nat \ {0}
  BY PowersOfTwo
<1>2. d \in Nat
  BY <1>1, DivMod
<1> HIDE DEF d
<1>3. d % 2 \in 0 .. 1
  BY <1>2
<1>4. QED
  BY <1>3 DEF Bit, d

\* The loop of ntt_reverse_bits: one more bit
LEMMA ReverseStep ==
  ASSUME NEW x \in Nat
  PROVE  /\ ReverseBits(x, 0) = 0
         /\ \A k \in Nat : /\ ReverseBits(x, k) \in Nat
                           /\ ReverseBits(x, k + 1) = 2 * ReverseBits(x, k) + Bit(x, k)
<1> DEFINE D == [t \in Nat \X Nat |-> IF t[1] = 0 THEN 0 ELSE 2 * t[2] + Bit(x, t[1] - 1)]
           r == CHOOSE f : f = [k \in Nat |->
                  IF k = 0 THEN 0 ELSE 2 * f[k - 1] + ((x \div 2^(k - 1)) % 2)]
<1>1. D \in [Nat \X Nat -> Nat]
  <2> SUFFICES ASSUME NEW t \in Nat \X Nat
               PROVE  (IF t[1] = 0 THEN 0 ELSE 2 * t[2] + Bit(x, t[1] - 1)) \in Nat
    OBVIOUS
  <2>1. t[1] # 0 => Bit(x, t[1] - 1) \in 0 .. 1
    BY BitType
  <2>2. QED
    BY <2>1
<1>2. \A k \in Nat, v \in Nat : k # 0 => D[<<k, v>>] = 2 * v + Bit(x, k - 1)
  OBVIOUS
<1>3. PICK f \in [Nat -> Nat] : SolvesNat(f, 0, D)
  <2> HIDE DEF D
  <2>1. QED
    BY <1>1, NatRecursion
<1>4. \A k \in Nat : k # 0 => D[<<k, f[k - 1]>>] = 2 * f[k - 1] + Bit(x, k - 1)
  <2> SUFFICES ASSUME NEW k \in Nat, k # 0
               PROVE  D[<<k, f[k - 1]>>] = 2 * f[k - 1] + Bit(x, k - 1)
    OBVIOUS
  <2>1. f[k - 1] \in Nat
    BY <1>3
  <2> HIDE DEF D
  <2>2. QED
    BY <1>2, <2>1
<1>5. \A k \in Nat : f[k] = IF k = 0 THEN 0 ELSE 2 * f[k - 1] + Bit(x, k - 1)
  <2> HIDE DEF D
  <2>1. QED
    BY <1>3, <1>4 DEF SolvesNat
<1>6. f = [k \in Nat |-> IF k = 0 THEN 0 ELSE 2 * f[k - 1] + ((x \div 2^(k - 1)) % 2)]
  BY <1>3, <1>5 DEF Bit
<1>7. r = [k \in Nat |-> IF k = 0 THEN 0 ELSE 2 * r[k - 1] + ((x \div 2^(k - 1)) % 2)]
  BY <1>6
<1>8. \A k : ReverseBits(x, k) = r[k]
  BY DEF ReverseBits
<1> HIDE DEF r, D
<1>9. \A k \in Nat : r[k] = IF k = 0 THEN 0 ELSE 2 * r[k - 1] + Bit(x, k - 1)
  BY <1>7 DEF Bit
<1>10. ASSUME NEW k \in Nat
       PROVE  r[k + 1] = 2 * r[k] + Bit(x, k)
  BY <1>9
<1> DEFINE S == {k \in Nat : r[k] \in Nat}
<1>11. Nat \subseteq S
  <2>1. 0 \in S
    BY <1>9
  <2>2. ASSUME NEW k \in Nat, k \in S
        PROVE  k + 1 \in S
    <3>1. Bit(x, k) \in 0 .. 1
      BY BitType
    <3>2. QED
      BY <1>10, <2>2, <3>1
  <2> HIDE DEF S
  <2>3. QED
    BY <2>1, <2>2, Induction
<1>12. r[0] = 0
  BY <1>9
<1>13. QED
  BY <1>8, <1>10, <1>11, <1>12

\* bits digits make a number below 2^bits.
LEMMA ReverseBound ==
  ASSUME NEW x \in Nat, NEW k \in Nat
  PROVE  ReverseBits(x, k) \in 0 .. 2^k - 1
<1> DEFINE S == {j \in Nat : ReverseBits(x, j) < 2^j}
<1>1. 0 \in S
  <2>1. 2^0 \in Nat \ {0}
    BY PowersOfTwo
  <2>2. QED
    BY <2>1, ReverseStep
<1>2. ASSUME NEW j \in Nat, j \in S
      PROVE  j + 1 \in S
  <2> DEFINE w == 2^j
             r == ReverseBits(x, j)
             b == Bit(x, j)
  <2>1. w \in Nat /\ 2^(j + 1) = 2 * w
    BY PowersOfTwo
  <2>2. r \in Nat /\ ReverseBits(x, j + 1) = 2 * r + b /\ b \in 0 .. 1
    BY ReverseStep, BitType
  <2>3. r < w
    BY <1>2
  <2> HIDE DEF w, r, b
  <2>4. QED
    BY <2>1, <2>2, <2>3
<1>3. Nat \subseteq S
  <2> HIDE DEF S
  <2>1. QED
    BY <1>1, <1>2, Induction
<1>4. ReverseBits(x, k) \in Nat /\ ReverseBits(x, k) < 2^k /\ 2^k \in Nat
  <2>1. k \in S
    BY <1>3
  <2>2. QED
    BY <2>1, ReverseStep, PowersOfTwo
<1>5. QED
  BY <1>4

\* Dividing twice
LEMMA DivDiv ==
  ASSUME NEW x \in Nat, NEW a \in Nat \ {0}, NEW b \in Nat \ {0}
  PROVE  (x \div a) \div b = x \div (a * b)
<1> DEFINE y == x \div a
           r == x % a
           z == y \div b
           s == y % b
           c == a * b
           u == a * s + r
<1>1. y \in Nat /\ r \in 0 .. a - 1 /\ x = y * a + r
  BY DivMod
<1>2. z \in Nat /\ s \in 0 .. b - 1 /\ y = z * b + s
  BY <1>1, DivMod
<1> HIDE DEF y, r, z, s
<1>3. c \in Nat \ {0}
  OBVIOUS
<1>4. u \in 0 .. c - 1
  <2>1. a * s + a <= c
    <3>1. a * (s + 1) <= a * b
      BY <1>2
    <3>2. a * (s + 1) = a * s + a
      BY <1>2
    <3>3. QED
      BY <3>1, <3>2
  <2>2. a * s \in Nat
    BY <1>2
  <2> HIDE DEF c
  <2>3. QED
    BY <1>1, <1>3, <2>1, <2>2
<1>5. x = z * c + u
  <2>1. (z * b + s) * a = z * c + a * s
    BY <1>2
  <2>2. z * c \in Nat /\ a * s \in Nat
    BY <1>2, <1>3
  <2> HIDE DEF c
  <2>3. QED
    BY <1>1, <1>2, <2>1, <2>2
<1> HIDE DEF c, u
<1>6. x \div c = z
  BY <1>2, <1>3, <1>4, <1>5, ModUnique
<1>7. QED
  BY <1>6 DEF c, y, z

\* Next bits of the half
LEMMA BitOfHalf ==
  ASSUME NEW x \in Nat, NEW k \in Nat
  PROVE  Bit(x, k + 1) = Bit(x \div 2, k)
<1> DEFINE w == 2^k
<1>1. w \in Nat \ {0} /\ 2^(k + 1) = 2 * w
  BY PowersOfTwo
<1> HIDE DEF w
<1>2. (x \div 2) \div w = x \div (2 * w)
  BY <1>1, DivDiv
<1>3. QED
  BY <1>1, <1>2 DEF Bit, w

\* The last bit comes first: what is left is the half, reversed.
LEMMA ReverseHalf ==
  ASSUME NEW x \in Nat, NEW k \in Nat
  PROVE  ReverseBits(x, k + 1) = (x % 2) * 2^k + ReverseBits(x \div 2, k)
<1> DEFINE h == x \div 2
           e == x % 2
           S == {j \in Nat : ReverseBits(x, j + 1) = e * 2^j + ReverseBits(h, j)}
<1>1. h \in Nat /\ e \in 0 .. 1
  BY DivMod
<1>2. 0 \in S
  <2>1. ReverseBits(x, 0 + 1) = 2 * ReverseBits(x, 0) + Bit(x, 0)
    BY ReverseStep
  <2>2. ReverseBits(x, 0) = 0 /\ ReverseBits(h, 0) = 0
    BY <1>1, ReverseStep
  <2>3. 2^0 = 1
    BY PowersOfTwo
  <2>4. Bit(x, 0) = e
    BY <2>3 DEF Bit
  <2> HIDE DEF h, e
  <2>5. QED
    BY <1>1, <2>1, <2>2, <2>3, <2>4
<1>3. ASSUME NEW j \in Nat, j \in S
      PROVE  j + 1 \in S
  <2> DEFINE w == 2^j
             r == ReverseBits(h, j)
             b == Bit(h, j)
             i == j + 1
  <2>1. w \in Nat /\ 2^i = 2 * w
    BY PowersOfTwo
  <2>2. i \in Nat /\ ReverseBits(x, i + 1) = 2 * ReverseBits(x, i) + Bit(x, i)
    BY ReverseStep
  <2>3. Bit(x, i) = b
    BY BitOfHalf
  <2>4. r \in Nat /\ b \in 0 .. 1 /\ ReverseBits(h, i) = 2 * r + b
    BY <1>1, ReverseStep, BitType
  <2>5. ReverseBits(x, i) = e * w + r
    BY <1>3
  <2> HIDE DEF h, e, w, r, b
  <2>6. 2 * (e * w + r) + b = e * (2 * w) + (2 * r + b)
    BY <1>1, <2>1, <2>4
  <2>7. ReverseBits(x, i + 1) = e * 2^i + ReverseBits(h, i)
    BY <2>1, <2>2, <2>3, <2>4, <2>5, <2>6
  <2>8. QED
    BY <2>2, <2>7
<1>4. Nat \subseteq S
  <2> HIDE DEF S
  <2>1. QED
    BY <1>2, <1>3, Induction
<1>5. QED
  BY <1>4

\* Of an even number, and of the odd one after it
LEMMA ReverseEvenOdd ==
  ASSUME NEW x \in Nat, NEW k \in Nat
  PROVE  /\ ReverseBits(2 * x, k + 1) = ReverseBits(x, k)
         /\ ReverseBits(2 * x + 1, k + 1) = 2^k + ReverseBits(x, k)
<1>1. 2 * x \in Nat /\ 2 * x + 1 \in Nat
  OBVIOUS
<1>2. (2 * x) % 2 = 0 /\ (2 * x) \div 2 = x /\ (2 * x + 1) % 2 = 1 /\ (2 * x + 1) \div 2 = x
  OBVIOUS
<1>3. 2^k \in Nat /\ ReverseBits(x, k) \in Nat
  BY PowersOfTwo, ReverseStep
<1>4. ReverseBits(2 * x, k + 1) = 0 * 2^k + ReverseBits(x, k)
  BY <1>1, <1>2, ReverseHalf
<1>5. ReverseBits(2 * x + 1, k + 1) = 1 * 2^k + ReverseBits(x, k)
  BY <1>1, <1>2, ReverseHalf
<1>6. QED
  BY <1>3, <1>4, <1>5

\* Zeros at the end
LEMMA ReverseShifted ==
  ASSUME NEW x \in Nat, NEW j \in Nat, NEW k \in Nat
  PROVE  ReverseBits(x * 2^j, j + k) = ReverseBits(x, k)
<1> DEFINE S == {i \in Nat : ReverseBits(x * 2^i, i + k) = ReverseBits(x, k)}
<1>1. 0 \in S
  <2>1. x * 2^0 = x /\ 0 + k = k
    BY PowersOfTwo
  <2>2. QED
    BY <2>1
<1>2. ASSUME NEW i \in Nat, i \in S
      PROVE  i + 1 \in S
  <2> DEFINE w == 2^i
             y == x * w
             l == i + k
  <2>1. w \in Nat /\ 2^(i + 1) = 2 * w
    BY PowersOfTwo
  <2>2. y \in Nat /\ l \in Nat /\ (i + 1) + k = l + 1
    BY <2>1
  <2>3. x * (2 * w) = 2 * (x * w)
    BY <2>1
  <2>4. ReverseBits(y, l) = ReverseBits(x, k)
    BY <1>2
  <2> HIDE DEF w, y, l
  <2>5. ReverseBits(2 * y, l + 1) = ReverseBits(y, l)
    BY <2>2, ReverseEvenOdd
  <2>6. x * 2^(i + 1) = 2 * y
    BY <2>1, <2>3 DEF y
  <2>7. ReverseBits(x * 2^(i + 1), (i + 1) + k) = ReverseBits(x, k)
    BY <2>2, <2>4, <2>5, <2>6
  <2>8. QED
    BY <2>7
<1>3. Nat \subseteq S
  <2> HIDE DEF S
  <2>1. QED
    BY <1>1, <1>2, Induction
<1>4. QED
  BY <1>3

-----------------------------------------------------------------------------
\* What is left after some digits of the result are dropped
LEMMA ReversePrefix ==
  ASSUME NEW x \in Nat, NEW l \in Nat, NEW i \in 0 .. l
  PROVE  ReverseBits(x, l) \div 2^i = ReverseBits(x, l - i)
<1> DEFINE y == ReverseBits(x, l)
           S == {j \in Nat : j <= l => y \div 2^j = ReverseBits(x, l - j)}
<1>1. y \in Nat
  BY ReverseStep
<1>2. 0 \in S
  <2>1. 2^0 = 1 /\ l - 0 = l
    BY PowersOfTwo
  <2> HIDE DEF y
  <2>2. y \div 1 = y
    BY <1>1
  <2>3. QED
    BY <2>1, <2>2 DEF y
<1>3. ASSUME NEW j \in Nat, j \in S
      PROVE  j + 1 \in S
  <2> SUFFICES ASSUME j + 1 <= l
               PROVE  y \div 2^(j + 1) = ReverseBits(x, l - (j + 1))
    OBVIOUS
  <2> DEFINE w == 2^j
             k == l - (j + 1)
             r == ReverseBits(x, k)
             b == Bit(x, k)
  <2>1. w \in Nat \ {0} /\ 2^(j + 1) = 2 * w
    BY PowersOfTwo
  <2>2. k \in Nat /\ l - j = k + 1
    OBVIOUS
  <2>3. ReverseBits(x, k + 1) = 2 * r + b /\ r \in Nat /\ b \in 0 .. 1
    <3> HIDE DEF k
    <3>1. QED
      BY <2>2, ReverseStep, BitType
  <2>4. y \div w = 2 * r + b
    BY <1>3, <2>2, <2>3
  <2> HIDE DEF y, w, k, r, b
  <2>10. 2 \in Nat \ {0}
    OBVIOUS
  <2>5. (y \div w) \div 2 = y \div (w * 2)
    BY <1>1, <2>1, <2>10, DivDiv, Zenon
  <2>6. (2 * r + b) \div 2 = r
    BY <2>3
  <2>7. w * 2 = 2 * w
    BY <2>1
  <2>8. y \div 2^(j + 1) = r
    BY <2>1, <2>4, <2>5, <2>6, <2>7
  <2>9. QED
    BY <2>8 DEF r, k
<1>4. Nat \subseteq S
  <2> HIDE DEF S
  <2>1. QED
    BY <1>2, <1>3, Induction
<1>5. i \in S
  BY <1>4
<1>6. QED
  BY <1>5

\* Reversing twice
LEMMA ReverseTwice ==
  ASSUME NEW l \in Nat, NEW x \in 0 .. 2^l - 1
  PROVE  ReverseBits(ReverseBits(x, l), l) = x
<1> DEFINE y == ReverseBits(x, l)
           S == {k \in Nat : k <= l => ReverseBits(y, k) = x \div 2^(l - k)}
<1>1. y \in Nat /\ x \in Nat /\ 2^l \in Nat \ {0} /\ x < 2^l
  BY ReverseStep, PowersOfTwo
<1>2. 0 \in S
  <2>1. ReverseBits(y, 0) = 0 /\ l - 0 = l
    BY <1>1, ReverseStep
  <2>2. x = 0 * 2^l + x /\ x \in 0 .. 2^l - 1 /\ 0 \in Nat
    BY <1>1
  <2>3. x \div 2^l = 0
    <3> DEFINE w == 2^l
    <3>1. w \in Nat \ {0} /\ x = 0 * w + x /\ x \in 0 .. w - 1
      BY <1>1, <2>2
    <3> HIDE DEF w
    <3>2. x \div w = 0
      BY <3>1, <2>2, <1>1, ModUnique
    <3>3. QED
      BY <3>2 DEF w
  <2>4. QED
    BY <2>1, <2>3
<1>3. ASSUME NEW k \in Nat, k \in S
      PROVE  k + 1 \in S
  <2> SUFFICES ASSUME k + 1 <= l
               PROVE  ReverseBits(y, k + 1) = x \div 2^(l - (k + 1))
    OBVIOUS
  <2> DEFINE i == l - (k + 1)
             w == 2^i
             z == x \div w
  <2>1. i \in Nat /\ l - k = i + 1 /\ k \in 0 .. l
    OBVIOUS
  <2>2. w \in Nat \ {0} /\ 2^(i + 1) = 2 * w
    <3> HIDE DEF i
    <3>1. QED
      BY <2>1, PowersOfTwo
  <2>3. z \in Nat
    <3> HIDE DEF w
    <3>1. QED
      BY <1>1, <2>2, DivMod
  <2>4. ReverseBits(y, k + 1) = 2 * ReverseBits(y, k) + Bit(y, k)
    BY <1>1, ReverseStep
  <2>5. y \div 2^k = 2 * ReverseBits(x, i) + Bit(x, i)
    <3>1. y \div 2^k = ReverseBits(x, l - k)
      BY <1>1, <2>1, ReversePrefix
    <3>2. ReverseBits(x, i + 1) = 2 * ReverseBits(x, i) + Bit(x, i)
      <4> HIDE DEF i
      <4>1. QED
        BY <1>1, <2>1, ReverseStep
    <3>3. QED
      BY <2>1, <3>1, <3>2
  <2>6. Bit(y, k) = Bit(x, i)
    <3> DEFINE a == ReverseBits(x, i)
               b == Bit(x, i)
    <3>1. a \in Nat /\ b \in 0 .. 1
      <4> HIDE DEF i
      <4>1. QED
        BY <1>1, <2>1, ReverseStep, BitType
    <3>2. y \div 2^k = 2 * a + b
      BY <2>5
    <3> HIDE DEF a, b
    <3>3. (2 * a + b) % 2 = b
      BY <3>1
    <3>4. Bit(y, k) = b
      BY <3>2, <3>3 DEF Bit
    <3>5. QED
      BY <3>4 DEF b
  <2>7. Bit(x, i) = z % 2
    BY DEF Bit
  <2>8. ReverseBits(y, k) = z \div 2
    <3>1. ReverseBits(y, k) = x \div 2^(i + 1)
      BY <1>3, <2>1
    <3> HIDE DEF w
    <3>5. 2 \in Nat \ {0}
      OBVIOUS
    <3>2. (x \div w) \div 2 = x \div (w * 2)
      BY <1>1, <2>2, <3>5, DivDiv, Zenon
    <3>3. w * 2 = 2 * w
      BY <2>2
    <3>4. QED
      BY <2>2, <3>1, <3>2, <3>3
  <2> HIDE DEF y, z, w, i
  <2>9. 2 * (z \div 2) + (z % 2) = z
    BY <2>3
  <2>10. ReverseBits(y, k + 1) = z
    BY <2>4, <2>6, <2>7, <2>8, <2>9
  <2>11. QED
    BY <2>10 DEF z, w, i
<1>4. Nat \subseteq S
  <2> HIDE DEF S
  <2>1. QED
    BY <1>2, <1>3, Induction
<1>5. ReverseBits(y, l) = x \div 2^(l - l)
  <2>1. l \in S
    BY <1>4
  <2>2. QED
    BY <2>1
<1>6. 2^(l - l) = 1
  BY PowersOfTwo
<1>7. x \div 1 = x
  BY <1>1
<1>8. QED
  BY <1>5, <1>6, <1>7

-----------------------------------------------------------------------------
(***************************************************************************)
(* The permutation of an array whose size is a power of two                *)
(***************************************************************************)

Rev(size) == [i \in 0 .. size - 1 |-> ReverseBits(i, Stages(size))]

\* A power of two has one exponent.
LEMMA ExponentUnique ==
  ASSUME NEW j \in Nat, NEW k \in Nat, 2^j = 2^k
  PROVE  j = k
<1>1. ASSUME NEW a \in Nat, NEW b \in Nat, a < b, 2^a = 2^b
      PROVE  FALSE
  <2> DEFINE d == b - a
             u == 2^a
             v == 2^d
  <2>1. d \in Nat /\ a + d = b /\ d >= 1
    BY <1>1
  <2>2. 2^b = u * v
    <3> HIDE DEF d
    <3>1. 2^(a + d) = 2^a * 2^d
      BY <2>1, TwoPowSum
    <3>2. QED
      BY <2>1, <3>1
  <2>3. u \in Nat \ {0} /\ v \in Nat /\ d < v
    <3> HIDE DEF d
    <3>1. QED
      BY <2>1, PowersOfTwo, ExponentBound
  <2>4. u = u * v
    BY <1>1, <2>2
  <2> HIDE DEF u, v
  <2>5. u * v >= u * 2
    BY <2>1, <2>3
  <2>6. QED
    BY <2>3, <2>4, <2>5
<1>2. QED
  BY <1>1

\* Stages finds it.
LEMMA StagesIs ==
  ASSUME NEW k \in Nat
  PROVE  Stages(2^k) = k
<1> DEFINE w == 2^k
<1>1. w \in Nat /\ k < w
  BY PowersOfTwo, ExponentBound
<1>2. k \in 0 .. w /\ 2^k = w
  BY <1>1
<1>3. Stages(w) \in 0 .. w /\ 2^Stages(w) = w
  <2> HIDE DEF w
  <2>1. QED
    BY <1>2 DEF Stages
<1>4. Stages(w) \in Nat
  <2> HIDE DEF w
  <2>1. QED
    BY <1>1, <1>3
<1>5. QED
  BY <1>3, <1>4, ExponentUnique

\* The permutation undoes itself.
LEMMA RevInvolution ==
  ASSUME NEW k \in Nat, NEW size, size = 2^k, NEW i \in 0 .. size - 1
  PROVE  Rev(size)[i] \in 0 .. size - 1 /\ Rev(size)[Rev(size)[i]] = i
<1>1. Stages(size) = k
  BY StagesIs
<1>2. i \in 0 .. 2^k - 1 /\ i \in Nat
  BY PowersOfTwo
<1>3. Rev(size)[i] = ReverseBits(i, k)
  BY <1>1 DEF Rev
<1>4. ReverseBits(i, k) \in 0 .. size - 1
  BY <1>2, ReverseBound
<1>5. ReverseBits(ReverseBits(i, k), k) = i
  BY <1>2, ReverseTwice
<1>6. Rev(size)[ReverseBits(i, k)] = ReverseBits(ReverseBits(i, k), k)
  BY <1>1, <1>4 DEF Rev
<1>7. QED
  BY <1>3, <1>4, <1>5, <1>6

\* Where the blocks of size s start
LEMMA RevBlock ==
  ASSUME NEW j \in Nat, NEW k \in Nat, NEW size, size = 2^(j + k),
         NEW u \in 0 .. 2^k - 1
  PROVE  /\ u * 2^j \in 0 .. size - 1
         /\ Rev(size)[u * 2^j] = ReverseBits(u, k)
         /\ ReverseBits(u, k) \in 0 .. 2^k - 1
<1> DEFINE v == 2^j
           w == 2^k
<1>1. v \in Nat \ {0} /\ w \in Nat \ {0} /\ u \in Nat
  BY PowersOfTwo
<1>2. size = v * w
  BY TwoPowSum
<1>3. u * v \in 0 .. size - 1
  <2>1. u < w
    BY <1>1
  <2> HIDE DEF v, w
  <2>2. (u + 1) * v <= w * v
    BY <1>1, <2>1
  <2>3. (u + 1) * v = u * v + v /\ w * v = v * w
    BY <1>1
  <2>4. u * v \in Nat /\ v * w \in Nat
    BY <1>1
  <2> DEFINE a == u * v
             b == v * w
  <2>5. a \in Nat /\ b \in Nat /\ a + v <= b
    BY <2>2, <2>3, <2>4
  <2> HIDE DEF a, b
  <2>6. a \in 0 .. b - 1
    BY <1>1, <2>5
  <2>7. QED
    BY <1>2, <2>6 DEF a, b
<1>4. Stages(size) = j + k
  <2>1. j + k \in Nat
    OBVIOUS
  <2>2. QED
    BY <2>1, StagesIs
<1>5. Rev(size)[u * v] = ReverseBits(u * v, j + k)
  BY <1>3, <1>4 DEF Rev
<1>6. ReverseBits(u * v, j + k) = ReverseBits(u, k)
  BY <1>1, ReverseShifted
<1>7. ReverseBits(u, k) \in 0 .. 2^k - 1
  BY <1>1, ReverseBound
<1>8. QED
  BY <1>3, <1>5, <1>6, <1>7

-----------------------------------------------------------------------------
\* The loop that adds 1 to a reversed number
IsAdvance(f) ==
  f = [s \in Nat \X Nat |->
         IF s[2] # 0 /\ (s[1] \div s[2]) % 2 = 1
           THEN f[<<s[1] - s[2], s[2] \div 2>>]
           ELSE s[1] + s[2]]

\* Where the bit is set, it can be cleared.
LEMMA OddQuotient ==
  ASSUME NEW a \in Nat, NEW b \in Nat \ {0}, (a \div b) % 2 = 1
  PROVE  b <= a /\ a - b \in Nat
<1> DEFINE d == a \div b
           r == a % b
           c == d * b
<1>1. d \in Nat /\ r \in 0 .. b - 1 /\ a = d * b + r /\ d % 2 = 1
  BY DivMod
<1> HIDE DEF d, r
<1>2. d >= 1
  BY <1>1
<1>3. c \in Nat /\ c >= b
  BY <1>1, <1>2
<1> HIDE DEF c
<1>4. a = c + r
  BY <1>1 DEF c
<1>5. QED
  BY <1>1, <1>3, <1>4

\* It ends.
LEMMA AdvanceExists == \E f \in [Nat \X Nat -> Nat] : IsAdvance(f)
<1> DEFINE A == Nat \X Nat
           B == {s \in A : ~(s[2] # 0 /\ (s[1] \div s[2]) % 2 = 1)}
           C == [s \in A |-> s[1] + s[2]]
           G == [s \in A |-> <<s[1] - s[2], s[2] \div 2>>]
           M == [s \in A |-> s[2]]
<1>1. C \in [A -> Nat] /\ M \in [A -> Nat]
  OBVIOUS
<1>2. ASSUME NEW s \in A \ B
      PROVE  G[s] \in A /\ M[G[s]] < M[s]
  <2>1. s[1] \in Nat /\ s[2] \in Nat /\ s[2] # 0 /\ (s[1] \div s[2]) % 2 = 1
    OBVIOUS
  <2>2. s[2] <= s[1]
    BY <2>1, OddQuotient
  <2>3. s[1] - s[2] \in Nat /\ s[2] \div 2 \in Nat /\ s[2] \div 2 < s[2]
    BY <2>1, <2>2
  <2>4. G[s] = <<s[1] - s[2], s[2] \div 2>>
    OBVIOUS
  <2>5. <<s[1] - s[2], s[2] \div 2>> \in A
    BY <2>3
  <2>6. M[<<s[1] - s[2], s[2] \div 2>>] = s[2] \div 2 /\ M[s] = s[2]
    BY <2>5
  <2>7. QED
    BY <2>3, <2>4, <2>5, <2>6
<1>3. PICK f \in [A -> Nat] : Iterates(f, A, B, C, G)
  <2> HIDE DEF A, B, C, G, M
  <2>1. QED
    BY <1>1, <1>2, IterationExists
<1>4. \A s \in A : f[s] = IF s[2] # 0 /\ (s[1] \div s[2]) % 2 = 1
                            THEN f[<<s[1] - s[2], s[2] \div 2>>]
                            ELSE s[1] + s[2]
  <2> SUFFICES ASSUME NEW s \in A
               PROVE  f[s] = IF s[2] # 0 /\ (s[1] \div s[2]) % 2 = 1
                               THEN f[<<s[1] - s[2], s[2] \div 2>>]
                               ELSE s[1] + s[2]
    OBVIOUS
  <2>1. f[s] = IF s \in B THEN C[s] ELSE f[G[s]]
    BY <1>3 DEF Iterates
  <2>2. C[s] = s[1] + s[2] /\ G[s] = <<s[1] - s[2], s[2] \div 2>>
    OBVIOUS
  <2>3. s \in B <=> ~(s[2] # 0 /\ (s[1] \div s[2]) % 2 = 1)
    OBVIOUS
  <2> HIDE DEF B, C, G
  <2>4. QED
    BY <2>1, <2>2, <2>3
<1>5. f = [s \in A |-> f[s]]
  BY <1>3
<1>6. IsAdvance(f)
  <2> HIDE DEF B, C, G, M
  <2>1. QED
    BY <1>4, <1>5 DEF IsAdvance
<1>7. QED
  BY <1>3, <1>6

\* What IsAdvance says
LEMMA AdvanceStep ==
  ASSUME NEW f, IsAdvance(f), NEW a \in Nat, NEW b \in Nat \ {0}
  PROVE  /\ (a \div b) % 2 = 1 => f[<<a, b>>] = f[<<a - b, b \div 2>>]
         /\ (a \div b) % 2 # 1 => f[<<a, b>>] = a + b
<1> DEFINE s == <<a, b>>
<1>1. s \in Nat \X Nat /\ s[1] = a /\ s[2] = b
  OBVIOUS
<1> HIDE DEF s
<1>2. f[s] = IF b # 0 /\ (a \div b) % 2 = 1 THEN f[<<a - b, b \div 2>>] ELSE a + b
  BY <1>1 DEF IsAdvance
<1>3. QED
  BY <1>2 DEF s

\* Every solution stays with the natural numbers.
LEMMA AdvanceType ==
  ASSUME NEW f, IsAdvance(f)
  PROVE  f \in [Nat \X Nat -> Nat]
<1>1. \A b \in Nat : \A a \in Nat : f[<<a, b>>] \in Nat
  <2> DEFINE S == {b \in Nat : \A a \in Nat : f[<<a, b>>] \in Nat}
  <2>1. ASSUME NEW b \in Nat, \A c \in 0 .. b - 1 : c \in S
        PROVE  b \in S
    <3> SUFFICES ASSUME NEW a \in Nat
                 PROVE  f[<<a, b>>] \in Nat
      OBVIOUS
    <3>1. CASE b = 0
      <4> DEFINE s == <<a, b>>
      <4>1. s \in Nat \X Nat /\ s[1] = a /\ s[2] = 0
        BY <3>1
      <4> HIDE DEF s
      <4>2. f[s] = a + 0
        BY <4>1 DEF IsAdvance
      <4>3. QED
        BY <4>2 DEF s
    <3>2. CASE b # 0 /\ (a \div b) % 2 = 1
      <4>1. f[<<a, b>>] = f[<<a - b, b \div 2>>]
        BY <3>2, AdvanceStep
      <4>2. a - b \in Nat
        BY <3>2, OddQuotient
      <4>3. b \div 2 \in 0 .. b - 1
        BY <3>2
      <4>4. QED
        BY <2>1, <4>1, <4>2, <4>3
    <3>3. CASE b # 0 /\ (a \div b) % 2 # 1
      <4>1. b \in Nat \ {0}
        BY <3>3
      <4>2. f[<<a, b>>] = a + b
        BY <3>3, <4>1, AdvanceStep, Zenon
      <4>3. QED
        BY <4>2
    <3>4. QED
      BY <3>1, <3>2, <3>3
  <2>2. Nat \subseteq S
    <3> HIDE DEF S
    <3>1. QED
      BY <2>1, StrongInduction
  <2>3. QED
    BY <2>2
<1>2. \A s \in Nat \X Nat : s = <<s[1], s[2]>> /\ s[1] \in Nat /\ s[2] \in Nat
  OBVIOUS
<1>3. \A s \in Nat \X Nat : f[s] \in Nat
  BY <1>1, <1>2
<1>4. f = [s \in Nat \X Nat |-> f[s]]
  BY DEF IsAdvance
<1>5. QED
  BY <1>3, <1>4

\* It goes on from x to x + 1.
LEMMA AdvanceReversed ==
  ASSUME NEW f, IsAdvance(f), NEW k \in Nat, NEW x \in Nat, x + 1 < 2^(k + 1)
  PROVE  f[<<ReverseBits(x, k + 1), 2^k>>] = ReverseBits(x + 1, k + 1)
<1> DEFINE S == {j \in Nat : \A y \in Nat : y + 1 < 2^(j + 1) =>
                   f[<<ReverseBits(y, j + 1), 2^j>>] = ReverseBits(y + 1, j + 1)}
\* An even number: the first bit is clear, and set.
<1>1. ASSUME NEW j \in Nat, NEW y \in Nat, 2 * y + 1 < 2^(j + 1)
      PROVE  f[<<ReverseBits(2 * y, j + 1), 2^j>>] = ReverseBits(2 * y + 1, j + 1)
  <2> DEFINE w == 2^j
             r == ReverseBits(y, j)
  <2>1. w \in Nat \ {0} /\ r \in 0 .. w - 1
    BY PowersOfTwo, ReverseBound
  <2>2. ReverseBits(2 * y, j + 1) = r /\ ReverseBits(2 * y + 1, j + 1) = w + r
    BY ReverseEvenOdd
  <2> HIDE DEF w, r
  <2>3. r \div w = 0
    <3>1. r = 0 * w + r /\ r \in Nat
      BY <2>1
    <3>2. 0 \in Nat
      OBVIOUS
    <3>3. QED
      BY <2>1, <3>1, <3>2, ModUnique
  <2>4. (r \div w) % 2 # 1
    BY <2>3
  <2>5. f[<<r, w>>] = r + w
    <3>1. r \in Nat
      BY <2>1
    <3>2. QED
      BY <2>1, <2>4, <3>1, AdvanceStep, Zenon
  <2>6. r + w = w + r
    BY <2>1
  <2>7. QED
    BY <2>2, <2>5, <2>6 DEF w
\* An odd number: the first bit is cleared, and the half goes on.
<1>2. ASSUME NEW j \in Nat, NEW y \in Nat, y + 1 < 2^(j + 1),
             f[<<ReverseBits(y, j + 1), 2^j>>] = ReverseBits(y + 1, j + 1)
      PROVE  f[<<ReverseBits(2 * y + 1, (j + 1) + 1), 2^(j + 1)>>]
               = ReverseBits((2 * y + 1) + 1, (j + 1) + 1)
  <2> DEFINE i == j + 1
             v == 2^j
             w == 2^i
             r == ReverseBits(y, i)
             a == w + r
  <2>1. i \in Nat /\ w \in Nat \ {0} /\ w = 2 * v /\ v \in Nat \ {0} /\ r \in 0 .. w - 1
    <3>1. i \in Nat
      OBVIOUS
    <3>2. v \in Nat \ {0} /\ w = 2 * v
      BY PowersOfTwo
    <3>3. w \in Nat \ {0}
      BY <3>2
    <3>4. r \in 0 .. w - 1
      <4> HIDE DEF i
      <4>1. QED
        BY <3>1, ReverseBound
    <3>5. QED
      BY <3>1, <3>2, <3>3, <3>4
  <2>2. ReverseBits(2 * y + 1, i + 1) = a
    <3> HIDE DEF i
    <3>1. QED
      BY <2>1, ReverseEvenOdd
  <2>3. ReverseBits(2 * (y + 1), i + 1) = ReverseBits(y + 1, i)
    <3>1. y + 1 \in Nat
      OBVIOUS
    <3> HIDE DEF i
    <3>2. QED
      BY <2>1, <3>1, ReverseEvenOdd
  <2>4. 2 * (y + 1) = (2 * y + 1) + 1
    OBVIOUS
  <2>5. f[<<r, v>>] = ReverseBits(y + 1, i)
    BY <1>2
  <2> HIDE DEF i, v, w, r
  <2>6. a \in Nat /\ a - w = r
    BY <2>1
  <2>7. (a \div w) % 2 = 1
    <3>1. a = 1 * w + r /\ 1 \in Nat
      BY <2>1
    <3> HIDE DEF a
    <3>2. a \div w = 1
      BY <2>1, <2>6, <3>1, ModUnique
    <3>3. QED
      BY <3>2
  <2>8. w \div 2 = v
    BY <2>1
  <2> HIDE DEF a
  <2>9. f[<<a, w>>] = f[<<a - w, w \div 2>>]
    BY <2>1, <2>6, <2>7, AdvanceStep
  <2>10. f[<<a, w>>] = ReverseBits((2 * y + 1) + 1, i + 1)
    BY <2>3, <2>4, <2>5, <2>6, <2>8, <2>9
  <2>11. QED
    BY <2>2, <2>10 DEF i, w
<1>3. \A y \in Nat : (\E h \in Nat : y = 2 * h) \/ (\E h \in Nat : y = 2 * h + 1)
  <2> SUFFICES ASSUME NEW y \in Nat
               PROVE  (\E h \in Nat : y = 2 * h) \/ (\E h \in Nat : y = 2 * h + 1)
    OBVIOUS
  <2>1. y \div 2 \in Nat /\ (y = 2 * (y \div 2) \/ y = 2 * (y \div 2) + 1)
    OBVIOUS
  <2>2. QED
    BY <2>1
<1>4. 0 \in S
  <2> SUFFICES ASSUME NEW y \in Nat, y + 1 < 2^(0 + 1)
               PROVE  f[<<ReverseBits(y, 0 + 1), 2^0>>] = ReverseBits(y + 1, 0 + 1)
    OBVIOUS
  <2>1. 2^0 = 1 /\ 2^(0 + 1) = 2 * 2^0
    BY PowersOfTwo
  <2>2. y = 2 * 0 /\ y + 1 = 2 * 0 + 1 /\ 2 * 0 + 1 < 2^(0 + 1)
    BY <2>1
  <2>3. f[<<ReverseBits(2 * 0, 0 + 1), 2^0>>] = ReverseBits(2 * 0 + 1, 0 + 1)
    BY <1>1, <2>2
  <2>4. QED
    BY <2>2, <2>3
<1>5. ASSUME NEW j \in Nat, j \in S
      PROVE  j + 1 \in S
  <2> SUFFICES ASSUME NEW y \in Nat, y + 1 < 2^((j + 1) + 1)
               PROVE  f[<<ReverseBits(y, (j + 1) + 1), 2^(j + 1)>>]
                        = ReverseBits(y + 1, (j + 1) + 1)
    OBVIOUS
  <2>1. ASSUME NEW h \in Nat, y = 2 * h
        PROVE  f[<<ReverseBits(y, (j + 1) + 1), 2^(j + 1)>>]
                 = ReverseBits(y + 1, (j + 1) + 1)
    <3>1. j + 1 \in Nat /\ 2 * h + 1 < 2^((j + 1) + 1)
      BY <2>1
    <3>2. f[<<ReverseBits(2 * h, (j + 1) + 1), 2^(j + 1)>>]
            = ReverseBits(2 * h + 1, (j + 1) + 1)
      BY <1>1, <3>1
    <3>3. QED
      BY <2>1, <3>2
  <2>2. ASSUME NEW h \in Nat, y = 2 * h + 1
        PROVE  f[<<ReverseBits(y, (j + 1) + 1), 2^(j + 1)>>]
                 = ReverseBits(y + 1, (j + 1) + 1)
    <3> DEFINE w == 2^(j + 1)
    <3>1. w \in Nat /\ 2^((j + 1) + 1) = 2 * w
      BY PowersOfTwo
    <3>2. h + 1 < w
      <4> HIDE DEF w
      <4>1. QED
        BY <2>2, <3>1
    <3>3. f[<<ReverseBits(h, j + 1), 2^j>>] = ReverseBits(h + 1, j + 1)
      BY <1>5, <3>2
    <3>4. f[<<ReverseBits(2 * h + 1, (j + 1) + 1), 2^(j + 1)>>]
            = ReverseBits((2 * h + 1) + 1, (j + 1) + 1)
      BY <1>2, <3>2, <3>3
    <3>5. QED
      BY <2>2, <3>4
  <2>3. QED
    BY <1>3, <2>1, <2>2
<1>6. Nat \subseteq S
  <2> HIDE DEF S
  <2>1. QED
    BY <1>4, <1>5, Induction
<1>7. QED
  BY <1>6

\* No bits are set in 0.
LEMMA ReverseZero ==
  ASSUME NEW k \in Nat
  PROVE  ReverseBits(0, k) = 0
<1>1. ReverseBits(0, 0) = 0
  BY ReverseStep
<1>2. 0 * 2^k = 0 /\ k + 0 = k
  BY PowersOfTwo
<1>3. ReverseBits(0 * 2^k, k + 0) = ReverseBits(0, 0)
  BY ReverseShifted
<1>4. QED
  BY <1>1, <1>2, <1>3

\* The reversed counters of bitrev_permute and naive_bitrev run through the indices
\* in the order of ntt_reverse_bits.
THEOREM CounterIs ==
  ASSUME NEW k \in Nat, NEW size, size = 2^k
  PROVE  Counter(size) = Rev(size)
<1> DEFINE advance == CHOOSE f : f = [s \in Nat \X Nat |->
                        IF s[2] # 0 /\ (s[1] \div s[2]) % 2 = 1
                          THEN f[<<s[1] - s[2], s[2] \div 2>>]
                          ELSE s[1] + s[2]]
           j == CHOOSE f : f = [i \in Nat |->
                  IF i = 0 THEN 0 ELSE advance[<<f[i - 1], size \div 2>>]]
<1>1. Counter(size) = [i \in 0 .. size - 1 |-> j[i]]
  BY DEF Counter
<1>2. IsAdvance(advance)
  <2>1. \E f : IsAdvance(f)
    BY AdvanceExists
  <2>2. QED
    BY <2>1 DEF IsAdvance
<1>3. size \in Nat \ {0}
  BY PowersOfTwo
<1>4. Stages(size) = k
  BY StagesIs
<1>5. \A i \in 0 .. size - 1 : Rev(size)[i] = ReverseBits(i, k)
  BY <1>4 DEF Rev
\* The recursion that defines the counter is solved up to size - 1, and its
\* values are natural numbers everywhere.
<1>6. j = [i \in Nat |-> IF i = 0 THEN 0 ELSE advance[<<j[i - 1], size \div 2>>]]
  <2>1. size \div 2 \in Nat
    BY <1>3
  <2>2. advance \in [Nat \X Nat -> Nat]
    BY <1>2, AdvanceType
  <2> HIDE DEF advance
  <2> DEFINE h == size \div 2
             D == [t \in Nat \X Nat |-> advance[<<t[2], h>>]]
  <2>3. D \in [Nat \X Nat -> Nat]
    BY <2>1, <2>2
  <2>4. \A i \in Nat, v \in Nat : D[<<i, v>>] = advance[<<v, h>>]
    OBVIOUS
  <2> HIDE DEF h, D
  <2>5. PICK f \in [Nat -> Nat] : SolvesNat(f, 0, D)
    BY <2>3, NatRecursion
  <2>6. \A i \in Nat : i # 0 => D[<<i, f[i - 1]>>] = advance[<<f[i - 1], h>>]
    BY <2>4, <2>5
  <2>7. \A i \in Nat : f[i] = IF i = 0 THEN 0 ELSE advance[<<f[i - 1], h>>]
    BY <2>5, <2>6 DEF SolvesNat
  <2>8. f = [i \in Nat |-> IF i = 0 THEN 0 ELSE advance[<<f[i - 1], h>>]]
    BY <2>5, <2>7
  <2>9. f = [i \in Nat |-> IF i = 0 THEN 0 ELSE advance[<<f[i - 1], size \div 2>>]]
    BY <2>8 DEF h
  <2>10. QED
    BY <2>9
<1> HIDE DEF advance, j
<1> DEFINE S == {i \in Nat : i < size => j[i] = ReverseBits(i, k)}
<1>7. 0 \in S
  <2>1. j[0] = 0
    BY <1>6
  <2>2. ReverseBits(0, k) = 0
    BY ReverseZero
  <2>3. QED
    BY <2>1, <2>2
<1>8. ASSUME NEW i \in Nat, i \in S
      PROVE  i + 1 \in S
  <2> SUFFICES ASSUME i + 1 < size
               PROVE  j[i + 1] = ReverseBits(i + 1, k)
    OBVIOUS
  <2>1. j[i + 1] = advance[<<j[i], size \div 2>>]
    BY <1>6
  <2>2. j[i] = ReverseBits(i, k)
    BY <1>3, <1>8
  <2>3. k # 0
    <3>1. 2^0 = 1
      BY PowersOfTwo
    <3>2. ASSUME k = 0
          PROVE  FALSE
      <4>1. size = 2^0
        BY <3>2
      <4>2. QED
        BY <3>1, <4>1
    <3>3. QED
      BY <3>2
  <2> DEFINE l == k - 1
  <2>4. l \in Nat /\ k = l + 1
    BY <2>3
  <2> HIDE DEF l
  <2>5. size = 2 * 2^l /\ 2^l \in Nat
    BY <2>4, PowersOfTwo
  <2>6. size \div 2 = 2^l
    BY <2>5
  <2>7. advance[<<ReverseBits(i, l + 1), 2^l>>] = ReverseBits(i + 1, l + 1)
    BY <1>2, <2>4, AdvanceReversed
  <2>8. QED
    BY <2>1, <2>2, <2>4, <2>6, <2>7
<1>9. Nat \subseteq S
  <2> HIDE DEF S
  <2>1. QED
    BY <1>7, <1>8, Induction
<1>10. \A i \in 0 .. size - 1 : j[i] = Rev(size)[i]
  BY <1>3, <1>5, <1>9
<1>11. Rev(size) = [i \in 0 .. size - 1 |-> Rev(size)[i]]
  BY DEF Rev
<1>12. QED
  BY <1>1, <1>10, <1>11

-----------------------------------------------------------------------------
(***************************************************************************)
(* The blocks of the array between two stages                              *)
(***************************************************************************)

\* The coefficients in the block of size s that starts at b: every (N / s)-th
Part(c, N, b, s) == [t \in 0 .. s - 1 |-> c[Rev(N)[b] + t * (N \div s)]]

\* What the blocks of size s hold at i
Entry(c, N, s, x, i, p) ==
  Value(Part(c, N, i - (i % s), s), s, ModPow(x, (N \div s) * (i % s), p), p)

\* The remainders of multiples and a rest
LEMMA SumMods ==
  ASSUME NEW S \in Nat \ {0}, NEW u \in Nat, NEW t \in 0 .. S - 1
  PROVE  (u * S + t) % S = t
<1> DEFINE a == u * S + t
<1>1. a \in Nat
  OBVIOUS
<1>2. a = u * S + t
  OBVIOUS
<1> HIDE DEF a
<1>3. a % S = t
  BY <1>1, <1>2, ModUnique
<1>4. QED
  BY <1>2, <1>3

\* The place t of the block u of size 2s, and the number of places
Upper(i, u, s, t) == i = u * (2 * s) + t
Places(N, s, M) == N = (2 * s) * M

\* The two places that a butterfly joins
LEMMA BlockPlaces ==
  ASSUME NEW s \in Nat \ {0}, NEW M \in Nat \ {0}, NEW u \in 0 .. M - 1, NEW t \in 0 .. s - 1,
         NEW i, Upper(i, u, s, t), NEW N, Places(N, s, M)
  PROVE  /\ i \in 0 .. N - 1 /\ i + s \in 0 .. N - 1
         /\ i % s = t /\ (i + s) % s = t
         /\ i % (2 * s) = t /\ (i + s) % (2 * s) = t + s
         /\ i - t = u * (2 * s)
<1> USE DEF Upper, Places
<1> DEFINE S == 2 * s
           a == u * S
           b == M * S
<1>1. S \in Nat \ {0} /\ a \in Nat /\ b \in Nat /\ u \in Nat /\ t \in Nat
  OBVIOUS
<1>2. a + S <= b
  <2>1. (u + 1) * S <= M * S
    <3> DEFINE d == M - (u + 1)
    <3>1. d \in Nat /\ M = (u + 1) + d
      OBVIOUS
    <3> HIDE DEF d, S
    <3>2. d * S \in Nat
      BY <1>1, <3>1
    <3>3. ((u + 1) + d) * S = (u + 1) * S + d * S
      BY <1>1, <3>1
    <3>4. (u + 1) * S \in Nat
      BY <1>1
    <3>5. QED
      BY <3>1, <3>2, <3>3, <3>4
  <2> HIDE DEF S
  <2>2. (u + 1) * S = u * S + S
    BY <1>1
  <2>3. QED
    BY <2>1, <2>2
<1>3. N = b
  OBVIOUS
<1>4. i \in Nat /\ i = a + t /\ t < s
  OBVIOUS
<1>5. i \in 0 .. N - 1 /\ i + s \in 0 .. N - 1 /\ i - t = a
  <2>1. S = s + s
    OBVIOUS
  <2> HIDE DEF a, b, S
  <2>2. QED
    BY <1>1, <1>2, <1>3, <1>4, <2>1
<1>6. i % s = t /\ (i + s) % s = t
  <2>1. i = (2 * u) * s + t
    BY <1>1
  <2>2. i + s = (2 * u + 1) * s + t
    BY <1>1
  <2>3. 2 * u \in Nat /\ 2 * u + 1 \in Nat /\ i + s \in Nat
    BY <1>4
  <2>4. i % s = t
    BY <1>4, <2>1, <2>3, ModUnique
  <2>5. (i + s) % s = t
    BY <2>2, <2>3, ModUnique
  <2>6. QED
    BY <2>4, <2>5
<1>7. i % S = t /\ (i + s) % S = t + s
  <2>1. t \in 0 .. S - 1 /\ t + s \in 0 .. S - 1
    OBVIOUS
  <2>2. i + s = u * S + (t + s) /\ i = u * S + t
    BY <1>4
  <2> HIDE DEF S, a, b
  <2>3. (u * S + t) % S = t /\ (u * S + (t + s)) % S = t + s
    BY <1>1, <2>1, SumMods
  <2>4. QED
    BY <2>2, <2>3
<1>8. QED
  BY <1>5, <1>6, <1>7

\* Every place is one of the two.
LEMMA BlockOf ==
  ASSUME NEW s \in Nat \ {0}, NEW M \in Nat \ {0}, NEW N, Places(N, s, M), NEW i \in 0 .. N - 1
  PROVE  \E u \in 0 .. M - 1 : \E t \in 0 .. s - 1 :
           \/ i % (2 * s) < s /\ Upper(i, u, s, t)
           \/ ~(i % (2 * s) < s) /\ Upper(i - s, u, s, t)
<1> USE DEF Upper, Places
<1> DEFINE S == 2 * s
           u == i \div S
           e == i % S
<1>1. S \in Nat \ {0} /\ i \in Nat /\ S = s + s
  OBVIOUS
<1> HIDE DEF S
<1>2. u \in Nat /\ e \in 0 .. S - 1 /\ i = (u * S) + e
  BY <1>1, DivMod
<1>3. N = M * S /\ M \in Nat
  BY DEF S
<1> HIDE DEF u, e
<1>4. u < M
  <2> SUFFICES ASSUME M <= u
               PROVE  FALSE
    BY <1>2, <1>3
  <2> DEFINE d == u - M
  <2>1. d \in Nat /\ u = M + d
    BY <1>2
  <2> HIDE DEF d
  <2>2. (M + d) * S = M * S + d * S /\ d * S \in Nat /\ M * S \in Nat
    BY <1>1, <2>1
  <2>3. u * S >= N
    BY <1>3, <2>1, <2>2
  <2>4. u * S \in Nat
    BY <1>1, <1>2
  <2>5. QED
    BY <1>1, <1>2, <1>3, <2>2, <2>3, <2>4
<1>5. u \in 0 .. M - 1
  BY <1>2, <1>4
<1>6. CASE e < s
  <2>1. e \in 0 .. s - 1
    BY <1>2, <1>6
  <2>2. QED
    BY <1>2, <1>5, <1>6, <2>1 DEF S, e
<1>7. CASE ~(e < s)
  <2> DEFINE t == e - s
  <2>1. t \in 0 .. s - 1 /\ e = t + s
    BY <1>1, <1>2, <1>7
  <2>2. i - s = (u * S) + t
    <3>1. u * S \in Nat
      BY <1>1, <1>2
    <3> HIDE DEF t
    <3>2. QED
      BY <1>2, <2>1, <3>1
  <2>3. QED
    BY <1>5, <1>7, <2>1, <2>2 DEF S, e
<1>8. QED
  BY <1>6, <1>7

\* N places in 2M blocks of size s, which a stage makes M blocks of size 2s or back
Staged(j, k, N, s, M) == N = 2^((j + 1) + k) /\ s = 2^j /\ M = 2^k

\* A multiple divided by its factor
LEMMA WholeQuotient ==
  ASSUME NEW a \in Nat, NEW b \in Nat \ {0}
  PROVE  (a * b) \div b = a
<1> DEFINE d == a * b
<1>1. d \in Nat /\ d = a * b + 0 /\ 0 \in 0 .. b - 1
  OBVIOUS
<1> HIDE DEF d
<1>2. d \div b = a
  BY <1>1, ModUnique
<1>3. QED
  BY <1>2 DEF d

\* The sizes around a stage
LEMMA StageSizes ==
  ASSUME NEW j \in Nat, NEW k \in Nat, NEW N, NEW s, NEW M, Staged(j, k, N, s, M)
  PROVE  /\ s \in Nat \ {0} /\ M \in Nat \ {0} /\ N = (2 * s) * M /\ Places(N, s, M)
         /\ N \in Nat /\ 2^(j + 1) = 2 * s /\ 2^(k + 1) = 2 * M
         /\ N \div (2 * s) = M /\ N \div s = 2 * M /\ N \div 2 = s * M
<1> USE DEF Staged, Places
<1>1. s \in Nat \ {0} /\ M \in Nat \ {0} /\ 2^(j + 1) = 2 * s /\ 2^(k + 1) = 2 * M
  BY PowersOfTwo
<1>2. N = (2 * s) * M
  <2>1. j + 1 \in Nat
    OBVIOUS
  <2>2. 2^((j + 1) + k) = 2^(j + 1) * 2^k
    BY <2>1, TwoPowSum
  <2>3. QED
    BY <1>1, <2>2
<1>3. 2 * s \in Nat \ {0} /\ 2 * M \in Nat /\ s * M \in Nat /\ N \in Nat
  <2>1. s * M \in Nat
    BY <1>1
  <2>2. (2 * s) * M \in Nat
    BY <1>1
  <2>3. QED
    BY <1>1, <1>2, <2>1, <2>2
<1>4. N \div (2 * s) = M
  <2>1. (2 * s) * M = M * (2 * s)
    BY <1>1
  <2>2. (M * (2 * s)) \div (2 * s) = M
    BY <1>1, <1>3, WholeQuotient
  <2>3. QED
    BY <1>2, <2>1, <2>2
<1>5. N \div s = 2 * M
  <2>1. (2 * s) * M = (2 * M) * s
    BY <1>1
  <2>2. ((2 * M) * s) \div s = 2 * M
    BY <1>1, <1>3, WholeQuotient
  <2>3. QED
    BY <1>2, <2>1, <2>2
<1>6. N \div 2 = s * M
  <2>1. (2 * s) * M = (s * M) * 2
    BY <1>1
  <2>2. ((s * M) * 2) \div 2 = s * M
    BY <1>3, WholeQuotient
  <2>3. QED
    BY <1>2, <2>1, <2>2
<1>7. QED
  BY <1>1, <1>2, <1>3, <1>4, <1>5, <1>6

\* A block and its halves: every other coefficient
LEMMA PartSplit ==
  ASSUME NEW j \in Nat, NEW k \in Nat, NEW N, NEW s, NEW M, Staged(j, k, N, s, M),
         NEW u \in 0 .. M - 1, NEW c, Summable(c, N)
  PROVE  LET F == Part(c, N, u * (2 * s), 2 * s)
             E == Part(c, N, u * (2 * s), s)
             O == Part(c, N, u * (2 * s) + s, s)
         IN  Summable(F, 2 * s) /\ \A t \in 0 .. s - 1 : E[t] = F[2 * t] /\ O[t] = F[2 * t + 1]
<1> DEFINE b == u * (2 * s)
           d == b + s
           F == Part(c, N, b, 2 * s)
           E == Part(c, N, b, s)
           O == Part(c, N, d, s)
           g == ReverseBits(u, k)
<1>1. /\ s \in Nat \ {0} /\ M \in Nat \ {0} /\ N = (2 * s) * M
      /\ N \in Nat /\ 2^(j + 1) = 2 * s /\ 2^(k + 1) = 2 * M
      /\ N \div (2 * s) = M /\ N \div s = 2 * M
  BY StageSizes
<1> USE DEF Staged
<1>2. u \in Nat /\ u \in 0 .. 2^k - 1 /\ 2 * u \in 0 .. 2 * M - 1 /\ 2 * u + 1 \in 0 .. 2 * M - 1
  BY <1>1
<1>3. b = (2 * u) * s /\ d = (2 * u + 1) * s
  BY <1>1, <1>2
<1>4. Rev(N)[b] = g /\ g \in 0 .. M - 1
  <2>1. u * 2^(j + 1) = b
    BY <1>1
  <2>2. /\ Rev(N)[u * 2^(j + 1)] = ReverseBits(u, k)
        /\ ReverseBits(u, k) \in 0 .. 2^k - 1
    <3>1. j + 1 \in Nat
      OBVIOUS
    <3>2. QED
      BY <1>2, <3>1, RevBlock
  <2>3. QED
    BY <2>1, <2>2
<1>5. Rev(N)[d] = M + g
  <2>1. (2 * u + 1) * 2^j = d
    BY <1>3
  <2>2. j + (k + 1) = (j + 1) + k /\ k + 1 \in Nat
    OBVIOUS
  <2>3. 2 * u + 1 \in 0 .. 2^(k + 1) - 1
    BY <1>1, <1>2
  <2>4. Rev(N)[(2 * u + 1) * 2^j] = ReverseBits(2 * u + 1, k + 1)
    BY <2>2, <2>3, RevBlock
  <2>5. ReverseBits(2 * u + 1, k + 1) = 2^k + ReverseBits(u, k)
    BY <1>2, ReverseEvenOdd
  <2>6. QED
    BY <2>1, <2>4, <2>5
<1> HIDE DEF b, d, g
<1>6. \A t \in 0 .. 2 * s - 1 : F[t] = c[g + t * M]
  BY <1>1, <1>4 DEF Part
<1>7. \A t \in 0 .. s - 1 : E[t] = c[g + t * (2 * M)]
  BY <1>1, <1>4 DEF Part
<1>8. \A t \in 0 .. s - 1 : O[t] = c[(M + g) + t * (2 * M)]
  BY <1>1, <1>5 DEF Part
<1> HIDE DEF F, E, O
<1>9. \A t \in 0 .. 2 * s - 1 : g + t * M \in 0 .. N - 1
  <2> SUFFICES ASSUME NEW t \in 0 .. 2 * s - 1
               PROVE  g + t * M \in 0 .. N - 1
    OBVIOUS
  <2> DEFINE r == (2 * s) - (t + 1)
             a == t * M
             e == r * M
  <2>1. r \in Nat /\ 2 * s = (t + 1) + r /\ t \in Nat
    BY <1>1
  <2> HIDE DEF r
  <2>2. ((t + 1) + r) * M = (a + M) + e /\ a \in Nat /\ e \in Nat
    BY <1>1, <2>1
  <2> HIDE DEF a, e
  <2>3. N = (a + M) + e
    BY <1>1, <2>1, <2>2
  <2>4. g + a \in 0 .. N - 1
    BY <1>1, <1>4, <2>2, <2>3
  <2>5. QED
    BY <2>4 DEF a
<1>10. Summable(F, 2 * s)
  <2>1. ASSUME NEW t \in 0 .. 2 * s - 1
        PROVE  F[t] \in Nat
    BY <1>6, <1>9 DEF Summable
  <2>2. QED
    BY <2>1 DEF Summable
<1>11. \A t \in 0 .. s - 1 : E[t] = F[2 * t] /\ O[t] = F[2 * t + 1]
  <2> SUFFICES ASSUME NEW t \in 0 .. s - 1
               PROVE  E[t] = F[2 * t] /\ O[t] = F[2 * t + 1]
    OBVIOUS
  <2>1. 2 * t \in 0 .. 2 * s - 1 /\ 2 * t + 1 \in 0 .. 2 * s - 1 /\ t \in Nat
    BY <1>1
  <2>2. t * (2 * M) = (2 * t) * M
    BY <1>1, <2>1
  <2>3. (M + g) + t * (2 * M) = g + (2 * t + 1) * M
    BY <1>1, <1>4, <2>1
  <2>4. F[2 * t] = c[g + (2 * t) * M] /\ F[2 * t + 1] = c[g + (2 * t + 1) * M]
    BY <1>6, <2>1
  <2>5. QED
    BY <1>7, <1>8, <2>2, <2>3, <2>4
<1>12. QED
  BY <1>10, <1>11 DEF F, E, O, b, d

\* What is in a block of size 2s, by what is in its halves: the butterfly
LEMMA Combine ==
  ASSUME NEW p \in Nat \ {0, 1}, NEW x \in Nat,
         NEW j \in Nat, NEW k \in Nat, NEW N, NEW s, NEW M, Staged(j, k, N, s, M),
         ModPow(x, N \div 2, p) = p - 1,
         NEW u \in 0 .. M - 1, NEW t \in 0 .. s - 1, NEW i, Upper(i, u, s, t),
         NEW c, Summable(c, N),
         NEW w, w = ModPow(ModPow(x, N \div (2 * s), p), t, p)
  PROVE  /\ w \in Nat
         /\ Entry(c, N, s, x, i, p) \in Nat /\ Entry(c, N, s, x, i + s, p) \in Nat
         /\ Entry(c, N, 2 * s, x, i, p) \in Nat /\ Entry(c, N, 2 * s, x, i + s, p) \in Nat
         /\ Congruent(Entry(c, N, 2 * s, x, i, p),
                      Entry(c, N, s, x, i, p) + w * Entry(c, N, s, x, i + s, p), p)
         /\ Congruent(Entry(c, N, 2 * s, x, i + s, p),
                      Entry(c, N, s, x, i, p) + ((p - 1) * w) * Entry(c, N, s, x, i + s, p), p)
<1> DEFINE b == u * (2 * s)
           F == Part(c, N, b, 2 * s)
           E == Part(c, N, b, s)
           O == Part(c, N, b + s, s)
           y == ModPow(x, M * t, p)
           y2 == ModPow(x, M * (t + s), p)
           z == ModPow(x, (2 * M) * t, p)
           e == Value(E, s, z, p)
           o == Value(O, s, z, p)
<1>1. /\ s \in Nat \ {0} /\ M \in Nat \ {0} /\ N = (2 * s) * M /\ N \in Nat
      /\ N \div (2 * s) = M /\ N \div s = 2 * M /\ N \div 2 = s * M
  BY StageSizes
<1>2. /\ i % s = t /\ (i + s) % s = t /\ i % (2 * s) = t /\ (i + s) % (2 * s) = t + s
      /\ i - t = b
  <2>1. s \in Nat \ {0} /\ M \in Nat \ {0} /\ Places(N, s, M)
    BY StageSizes
  <2>2. QED
    BY <2>1, BlockPlaces
<1>3. i \in Nat /\ t \in Nat /\ b \in Nat /\ s \in Nat /\ u \in Nat /\ M \in Nat
  BY <1>1 DEF Upper
<1> HIDE DEF b
<1>4. (i + s) - t = b + s /\ (i + s) - (t + s) = b
  BY <1>2, <1>3
<1>5. Summable(F, 2 * s) /\ \A l \in 0 .. s - 1 : E[l] = F[2 * l] /\ O[l] = F[2 * l + 1]
  BY PartSplit DEF b
<1>6. M * t \in Nat /\ M * (t + s) \in Nat /\ (2 * M) * t \in Nat /\ s * M \in Nat
  <2>1. M * t \in Nat /\ s * M \in Nat
    BY <1>3
  <2>2. (2 * M) * t \in Nat
    BY <1>3
  <2>3. M * (t + s) \in Nat
    BY <1>3
  <2>4. QED
    BY <2>1, <2>2, <2>3
<1>7. y \in Nat /\ y2 \in Nat /\ z \in Nat
  <2>1. y \in Nat
    BY <1>6, ModPowNat
  <2>2. y2 \in Nat
    BY <1>6, ModPowNat
  <2>3. z \in Nat
    BY <1>6, ModPowNat
  <2>4. QED
    BY <2>1, <2>2, <2>3
<1>8. w = y
  BY <1>1, <1>3, ModPowOfPow
<1>9. MulMod(y, y, p) = z
  <2>1. MulMod(y, y, p) = ModPow(x, M * t + M * t, p)
    BY <1>6, ModPowSum
  <2>2. M * t + M * t = (2 * M) * t
    BY <1>3
  <2>3. QED
    BY <2>1, <2>2
<1>10. y2 = MulMod(y, p - 1, p)
  <2>1. MulMod(y, ModPow(x, s * M, p), p) = ModPow(x, M * t + s * M, p)
    BY <1>6, ModPowSum
  <2>2. M * t + s * M = M * (t + s)
    BY <1>3
  <2>3. QED
    BY <1>1, <2>1, <2>2
<1>11. MulMod(y2, y2, p) = z
  <2> DEFINE a == s * M
             d == (2 * M) * t
  <2>1. MulMod(y2, y2, p) = ModPow(x, M * (t + s) + M * (t + s), p)
    BY <1>6, ModPowSum
  <2>2. M * (t + s) + M * (t + s) = d + (a + a)
    BY <1>3
  <2>3. a \in Nat /\ d \in Nat /\ a + a \in Nat
    BY <1>6
  <2>4. ModPow(x, a, p) = p - 1
    BY <1>1
  <2> HIDE DEF a, d
  <2>5. ModPow(x, a + a, p) = 1
    <3>1. MulMod(ModPow(x, a, p), ModPow(x, a, p), p) = ModPow(x, a + a, p)
      BY <2>3, ModPowSum
    <3>2. MulMod(p - 1, p - 1, p) = 1
      BY MinusOneSquared DEF MulMod
    <3>3. QED
      BY <2>4, <3>1, <3>2
  <2>6. MulMod(ModPow(x, d, p), ModPow(x, a + a, p), p) = ModPow(x, d + (a + a), p)
    BY <2>3, ModPowSum
  <2>7. MulMod(ModPow(x, d, p), 1, p) = ModPow(x, d, p)
    <3>1. ModPow(x, d, p) \in Nat
      BY <2>3, ModPowNat
    <3>2. MulMod(ModPow(x, d, p), 1, p) = ModPow(x, d, p) % p
      BY <3>1, MulModRing
    <3>3. ModPow(x, d, p) % p = ModPow(x, d, p)
      BY <2>3, ModPowNat
    <3>4. QED
      BY <3>2, <3>3
  <2>8. QED
    BY <2>1, <2>2, <2>5, <2>6, <2>7 DEF d
<1>12. Entry(c, N, s, x, i, p) = e
  <2>1. Entry(c, N, s, x, i, p) = Value(Part(c, N, i - t, s), s, ModPow(x, (2 * M) * t, p), p)
    BY <1>1, <1>2 DEF Entry
  <2>2. QED
    BY <1>2, <2>1
<1>13. Entry(c, N, s, x, i + s, p) = o
  <2>1. Entry(c, N, s, x, i + s, p)
        = Value(Part(c, N, (i + s) - t, s), s, ModPow(x, (2 * M) * t, p), p)
    BY <1>1, <1>2 DEF Entry
  <2>2. QED
    BY <1>4, <2>1
<1>14. Entry(c, N, 2 * s, x, i, p) = Value(F, 2 * s, y, p)
  <2>1. Entry(c, N, 2 * s, x, i, p)
        = Value(Part(c, N, i - t, 2 * s), 2 * s, ModPow(x, M * t, p), p)
    BY <1>1, <1>2 DEF Entry
  <2>2. QED
    BY <1>2, <2>1
<1>15. Entry(c, N, 2 * s, x, i + s, p) = Value(F, 2 * s, y2, p)
  <2>1. Entry(c, N, 2 * s, x, i + s, p)
        = Value(Part(c, N, (i + s) - (t + s), 2 * s), 2 * s, ModPow(x, M * (t + s), p), p)
    BY <1>1, <1>2 DEF Entry
  <2>2. QED
    BY <1>4, <2>1
<1> HIDE DEF F, E, O, y, y2, z
<1>16. ASSUME NEW v \in Nat, MulMod(v, v, p) = z
       PROVE  /\ Summable(E, s) /\ Summable(O, s)
              /\ Congruent(Value(F, 2 * s, v, p), e + v * o, p)
  <2>1. /\ Summable(E, s) /\ Summable(O, s)
        /\ Congruent(Value(F, 2 * s, v, p),
                     Value(E, s, MulMod(v, v, p), p) + v * Value(O, s, MulMod(v, v, p), p), p)
    BY <1>3, <1>5, ValueHalves
  <2>2. QED
    BY <1>16, <2>1
<1>17. /\ Summable(E, s) /\ Summable(O, s)
       /\ Congruent(Value(F, 2 * s, y, p), e + y * o, p)
       /\ Congruent(Value(F, 2 * s, y2, p), e + y2 * o, p)
  BY <1>7, <1>9, <1>11, <1>16
<1>18. e \in Nat /\ o \in Nat
  BY <1>3, <1>7, <1>17, ValueNat
<1>19. Value(F, 2 * s, y, p) \in Nat /\ Value(F, 2 * s, y2, p) \in Nat
  <2>1. 2 * s \in Nat
    BY <1>3
  <2>2. QED
    BY <1>5, <1>7, <2>1, ValueNat
<1> HIDE DEF e, o
<1>20. Congruent(e + y2 * o, e + ((p - 1) * y) * o, p)
  <2> DEFINE l == (p - 1) * y
  <2>1. p \in Nat \ {0} /\ p - 1 \in Nat
    OBVIOUS
  <2>2. l \in Nat /\ y * (p - 1) = l
    BY <1>7, <2>1
  <2>3. y2 = l % p
    BY <1>10, <2>2 DEF MulMod
  <2> HIDE DEF l
  <2>4. Congruent(y2, l, p)
    BY <2>1, <2>2, <2>3, CongruentMod
  <2>5. Congruent(y2 * o, l * o, p)
    BY <1>7, <1>18, <2>1, <2>2, <2>4, CongruentTimes
  <2>6. y2 * o \in Nat /\ l * o \in Nat
    BY <1>7, <1>18, <2>2
  <2>7. Congruent(e, e, p)
    BY DEF Congruent
  <2>8. Congruent(e + y2 * o, e + l * o, p)
    BY <1>18, <2>1, <2>5, <2>6, <2>7, SumCongruent
  <2>9. QED
    BY <2>8 DEF l
<1>21. Congruent(Value(F, 2 * s, y2, p), e + ((p - 1) * y) * o, p)
  BY <1>17, <1>20, CongruentTrans
<1>22. QED
  BY <1>7, <1>8, <1>12, <1>13, <1>14, <1>15, <1>17, <1>18, <1>19, <1>21

\* A value of one coefficient
LEMMA ValueOne ==
  ASSUME NEW p \in Nat \ {0, 1}, NEW y \in Nat, NEW f, f[0] \in Nat
  PROVE  Value(f, 1, y, p) = f[0]
<1> DEFINE g == [t \in 0 .. 1 - 1 |-> f[t] * ModPow(y, t, p)]
<1>1. 0 \in 0 .. 1 - 1 /\ 1 \in Nat /\ 0 \in Nat
  OBVIOUS
<1>2. g[0] = f[0]
  <2>1. ModPow(y, 0, p) = 1
    BY <1>1, ModPowType
  <2>2. QED
    BY <1>1, <2>1
<1>3. \A t \in 0 .. 1 - 1 : t # 0 => g[t] = 0
  OBVIOUS
<1>4. Value(f, 1, y, p) = Total(g, 1)
  BY DEF Value
<1> HIDE DEF g
<1>5. Total(g, 1) = g[0]
  BY <1>1, <1>2, <1>3, TotalOnly
<1>6. QED
  BY <1>2, <1>4, <1>5

\* Blocks of size 1: the coefficients in reversed order
LEMMA EntryOne ==
  ASSUME NEW p \in Nat \ {0, 1}, NEW x \in Nat, NEW k \in Nat, NEW N, N = 2^k,
         NEW c, Summable(c, N), NEW i \in 0 .. N - 1
  PROVE  Entry(c, N, 1, x, i, p) = c[Rev(N)[i]] /\ c[Rev(N)[i]] \in Nat
<1> DEFINE f == Part(c, N, i, 1)
           y == ModPow(x, (N \div 1) * 0, p)
<1>1. N \in Nat \ {0}
  BY PowersOfTwo
<1>2. i % 1 = 0 /\ i - 0 = i /\ i \in Nat /\ N \div 1 = N
  BY <1>1
<1>3. Rev(N)[i] \in 0 .. N - 1
  BY RevInvolution
<1>4. c[Rev(N)[i]] \in Nat
  BY <1>3 DEF Summable
<1>5. f[0] = c[Rev(N)[i]]
  <2>1. 0 \in 0 .. 1 - 1 /\ 0 * (N \div 1) = 0
    BY <1>1, <1>2
  <2>2. f[0] = c[Rev(N)[i] + 0 * (N \div 1)]
    BY <2>1 DEF Part
  <2>3. Rev(N)[i] + 0 = Rev(N)[i]
    BY <1>3
  <2>4. QED
    BY <2>1, <2>2, <2>3
<1>6. y \in Nat
  <2>1. (N \div 1) * 0 \in Nat
    BY <1>1, <1>2
  <2>2. QED
    BY <2>1, ModPowNat
<1>7. Entry(c, N, 1, x, i, p) = Value(f, 1, y, p)
  BY <1>2 DEF Entry
<1> HIDE DEF f, y
<1>8. Value(f, 1, y, p) = f[0]
  BY <1>4, <1>5, <1>6, ValueOne
<1>9. QED
  BY <1>4, <1>5, <1>7, <1>8

\* One block: the values at the powers of the root
LEMMA EntryAll ==
  ASSUME NEW p \in Nat \ {0, 1}, NEW x \in Nat, NEW k \in Nat, NEW N, N = 2^k,
         NEW c, Summable(c, N), NEW i \in 0 .. N - 1
  PROVE  /\ Entry(c, N, N, x, i, p) = Value(c, N, ModPow(x, i, p), p)
         /\ Value(c, N, ModPow(x, i, p), p) \in Nat
<1> DEFINE f == Part(c, N, 0, N)
           y == ModPow(x, i, p)
           g == [t \in 0 .. N - 1 |-> f[t] * ModPow(y, t, p)]
<1>1. N \in Nat \ {0}
  BY PowersOfTwo
<1>2. i % N = i /\ i - i = 0 /\ i \in Nat /\ N \div N = 1 /\ 1 * i = i
  <2>1. i \in Nat /\ i = 0 * N + i /\ N = 1 * N + 0 /\ 0 \in 0 .. N - 1
    BY <1>1
  <2>2. i % N = i
    BY <1>1, <2>1, ModUnique
  <2>3. N \div N = 1
    BY <1>1, <2>1, ModUnique
  <2>4. QED
    BY <2>1, <2>2, <2>3
<1>3. Rev(N)[0] = 0
  <2>1. 0 \in 0 .. N - 1
    BY <1>1
  <2>2. ReverseBits(0, Stages(N)) = 0
    BY StagesIs, ReverseZero
  <2>3. QED
    BY <2>1, <2>2 DEF Rev
<1>4. \A t \in 0 .. N - 1 : f[t] = c[t]
  BY <1>1, <1>2, <1>3 DEF Part
<1>5. y \in Nat
  BY <1>2, ModPowNat
<1>6. Entry(c, N, N, x, i, p) = Value(f, N, y, p)
  BY <1>2 DEF Entry
<1> HIDE DEF f, y
<1>7. \A t \in 0 .. N - 1 : g[t] = c[t] * ModPow(y, t, p)
  BY <1>4
<1>8. Value(f, N, y, p) = Total(g, N)
  BY DEF Value
<1>9. N \in Nat
  BY <1>1
<1> HIDE DEF g
<1>10. Total(g, N) = Value(c, N, y, p)
  BY <1>5, <1>7, <1>9, ValueTerms
<1>11. Value(c, N, y, p) \in Nat
  BY <1>5, <1>9, ValueNat
<1>12. QED
  BY <1>6, <1>8, <1>10, <1>11 DEF y

\* Multiples of the modulus
LEMMA CongruentMultiple ==
  ASSUME NEW p \in Nat \ {0}, NEW a \in Nat, NEW b \in Nat
  PROVE  Congruent(p * b + a, a, p)
<1>1. p * b = b * p
  OBVIOUS
<1>2. (b * p + a) % p = a % p
  BY ModAdd
<1>3. QED
  BY <1>1, <1>2 DEF Congruent

\* The butterfly of decimation in frequency takes that of decimation in time back,
\* twice.
LEMMA ButterflyBack ==
  ASSUME NEW p \in Nat \ {0, 1}, NEW e \in Nat, NEW o \in Nat, NEW w \in Nat, NEW z \in Nat,
         NEW f \in Nat, NEW A \in Nat, NEW B \in Nat,
         Congruent(A, e + w * o, p), Congruent(B, e + ((p - 1) * w) * o, p),
         Congruent(w * z, 1, p)
  PROVE  /\ Congruent(f * A + f * B, (2 * f) * e, p)
         /\ Congruent((f * A + (p - 1) * (f * B)) * z, (2 * f) * o, p)
<1> DEFINE h == w * o
           a == f * e
           b == f * h
           k == p - 2
           C == e + h
           D == e + (p - 1) * h
<1>1. /\ p \in Nat \ {0} /\ k \in Nat /\ p = k + 2 /\ h \in Nat
  OBVIOUS
<1>2. D = e + ((p - 1) * w) * o
  OBVIOUS
<1>3. Congruent(A, C, p) /\ Congruent(B, D, p)
  BY <1>2
<1>4. a \in Nat /\ b \in Nat /\ C \in Nat
  <2> HIDE DEF h
  <2>1. QED
    BY <1>1
<1>5. D \in Nat
  <2> HIDE DEF h
  <2>1. (p - 1) * h \in Nat
    BY <1>1
  <2>2. QED
    BY <2>1
<1>6. f * C = a + b /\ f * D = a + (p - 1) * b
  <2>1. f * (e + h) = f * e + f * h
    BY <1>1
  <2>2. f * (e + (p - 1) * h) = f * e + (p - 1) * (f * h)
    <3> HIDE DEF h
    <3>1. QED
      BY <1>1
  <2>3. QED
    BY <2>1, <2>2
<1> HIDE DEF h, C, D
<1>7. Congruent(f * A, f * C, p) /\ Congruent(f * B, f * D, p)
  BY <1>1, <1>3, <1>4, <1>5, CongruentTimes
<1>8. f * A \in Nat /\ f * B \in Nat /\ f * C \in Nat /\ f * D \in Nat
  BY <1>4, <1>5
<1>9. Congruent(f * A + f * B, f * C + f * D, p)
  BY <1>1, <1>7, <1>8, SumCongruent
<1>10. Congruent(f * C + f * D, (2 * f) * e, p)
  <2>1. (2 * f) * e = 2 * a
    OBVIOUS
  <2> HIDE DEF a, b
  <2>2. (a + b) + (a + (p - 1) * b) = p * b + 2 * a
    BY <1>1, <1>4
  <2>3. 2 * a \in Nat
    BY <1>4
  <2>4. Congruent(p * b + 2 * a, 2 * a, p)
    BY <1>1, <1>4, <2>3, CongruentMultiple
  <2>5. QED
    BY <1>6, <2>1, <2>2, <2>4
<1>11. Congruent(f * A + (p - 1) * (f * B), f * C + (p - 1) * (f * D), p)
  <2> DEFINE X == f * B
             Y == f * D
             Z == f * A
             W == f * C
             l == p - 1
  <2>1. l \in Nat /\ X \in Nat /\ Y \in Nat /\ Z \in Nat /\ W \in Nat
    BY <1>8
  <2>2. Congruent(X, Y, p) /\ Congruent(Z, W, p)
    BY <1>7
  <2> HIDE DEF X, Y, Z, W, l
  <2>3. Congruent(l * X, l * Y, p)
    BY <1>1, <2>1, <2>2, CongruentTimes
  <2>4. l * X \in Nat /\ l * Y \in Nat
    BY <2>1
  <2>5. Congruent(Z + l * X, W + l * Y, p)
    BY <1>1, <2>1, <2>2, <2>3, <2>4, SumCongruent
  <2>6. QED
    BY <2>5 DEF X, Y, Z, W, l
<1>12. Congruent(f * C + (p - 1) * (f * D), 2 * b, p)
  <2> HIDE DEF a, b, k
  <2> DEFINE d == a + k * b
  <2>1. (a + b) + (k + 1) * (a + (k + 1) * b) = (k + 2) * d + 2 * b
    BY <1>1, <1>4
  <2>2. d \in Nat /\ 2 * b \in Nat
    <3>1. k * b \in Nat
      BY <1>1, <1>4
    <3>2. QED
      BY <1>4, <3>1
  <2>3. p - 1 = k + 1
    BY <1>1
  <2> HIDE DEF d
  <2>4. Congruent(p * d + 2 * b, 2 * b, p)
    BY <1>1, <2>2, CongruentMultiple
  <2>5. f * C + (p - 1) * (f * D) = p * d + 2 * b
    BY <1>1, <1>6, <2>1, <2>3
  <2>6. QED
    BY <2>4, <2>5
<1>13. Congruent((f * A + (p - 1) * (f * B)) * z, (2 * f) * o, p)
  <2> DEFINE X == f * A + (p - 1) * (f * B)
             g == (2 * f) * o
  <2>1. X \in Nat /\ g \in Nat /\ 2 * b \in Nat
    <3>1. (p - 1) * (f * B) \in Nat
      BY <1>8
    <3>2. g \in Nat
      OBVIOUS
    <3>3. 2 * b \in Nat
      BY <1>4
    <3>4. QED
      BY <1>8, <3>1, <3>2, <3>3
  <2>2. Congruent(X, 2 * b, p)
    BY <1>11, <1>12, CongruentTrans
  <2>3. 2 * b = g * w
    BY DEF h
  <2> HIDE DEF X, g, b
  <2>4. Congruent(X * z, (2 * b) * z, p)
    BY <1>1, <2>1, <2>2, CongruentTimes
  <2>5. (g * w) * z = g * (w * z) /\ w * z \in Nat /\ g * 1 = g
    BY <2>1
  <2>6. Congruent(g * (w * z), g * 1, p)
    <3> DEFINE l == w * z
    <3>1. l \in Nat /\ Congruent(l, 1, p)
      BY <2>5
    <3> HIDE DEF l
    <3>2. Congruent(g * l, g * 1, p)
      BY <1>1, <2>1, <3>1, CongruentTimes
    <3>3. QED
      BY <3>2 DEF l
  <2>7. Congruent(X * z, g, p)
    BY <2>3, <2>4, <2>5, <2>6 DEF Congruent
  <2>8. QED
    BY <2>7 DEF X, g
<1>14. Congruent(f * A + f * B, (2 * f) * e, p)
  BY <1>9, <1>10, CongruentTrans
<1>15. QED
  BY <1>13, <1>14

-----------------------------------------------------------------------------
(***************************************************************************)
(* Arithmetic on encoded values                                            *)
(***************************************************************************)

\* What is known of a context
LEMMA ContextIs ==
  ASSUME ctx \in Contexts
  PROVE  /\ q \in Nat /\ Prime(q) /\ q \in Nat \ {0, 1}
         /\ n \in Nat \ {0} /\ \E k \in Nat : n = 2^k
         /\ ctx.adapter \in {"scalar", "toy", "naive"} /\ ctx.type \in {"cyclic", "negacyclic"}
         /\ ctx.radix \in Nat /\ ctx.radix % q # 0
         /\ ctx.adapter # "scalar" => ctx.radix = 1
         /\ ctx.omega \in Nat /\ HasOrder(ctx.omega, n, q)
         /\ ctx.psi \in Nat
         /\ IF ctx.type = "negacyclic"
              THEN HasOrder(ctx.psi, 2 * n, q) /\ MulMod(ctx.psi, ctx.psi, q) = ctx.omega % q
              ELSE ctx.psi = 0
<1>1. /\ q \in Nat /\ Prime(q)
      /\ n \in Nat /\ \E k \in 0 .. n : n = 2^k
      /\ ctx.adapter \in {"scalar", "toy", "naive"} /\ ctx.type \in {"cyclic", "negacyclic"}
      /\ ctx.radix \in Nat /\ ctx.radix % q # 0
      /\ ctx.adapter # "scalar" => ctx.radix = 1
      /\ ctx.omega \in Nat /\ HasOrder(ctx.omega, n, q)
      /\ ctx.psi \in Nat
      /\ IF ctx.type = "negacyclic"
           THEN HasOrder(ctx.psi, 2 * n, q) /\ MulMod(ctx.psi, ctx.psi, q) = ctx.omega % q
           ELSE ctx.psi = 0
  BY TransformAssumption DEF q, n
<1>2. q \in Nat \ {0, 1}
  BY <1>1 DEF Prime
<1>3. \E k \in Nat : n = 2^k
  BY <1>1
<1>4. n \in Nat \ {0}
  BY <1>3, PowersOfTwo
<1>5. QED
  BY <1>1, <1>2, <1>3, <1>4

\* The radix and its inverse
LEMMA RadixIs ==
  ASSUME ctx \in Contexts
  PROVE  /\ ctx.radix \in Nat /\ RadixInverse \in Nat /\ q \in Nat \ {0, 1} /\ q \in Nat \ {0}
         /\ Congruent(ctx.radix * RadixInverse, 1, q)
<1>1. q \in Nat /\ Prime(q) /\ q \in Nat \ {0, 1} /\ ctx.radix \in Nat /\ ctx.radix % q # 0
  BY ContextIs
<1>2. q - 2 \in Nat
  BY <1>1
<1>3. RadixInverse = ModPow(ctx.radix, q - 2, q)
  BY DEF RadixInverse, Inverted
<1>4. RadixInverse \in Nat
  BY <1>1, <1>2, <1>3, ModPowNat
<1>5. MulMod(ctx.radix, RadixInverse, q) = 1
  BY <1>1, <1>3, InverseIs
<1>6. 1 % q = 1
  BY <1>1
<1>7. QED
  BY <1>1, <1>4, <1>5, <1>6 DEF MulMod, Congruent

\* Reducing a congruence
LEMMA CongruentReduced ==
  ASSUME NEW p, NEW a, NEW b, Congruent(a, b, p)
  PROVE  a % p = b % p
BY DEF Congruent

\* A product and its residue
LEMMA MulModCongruent ==
  ASSUME NEW p \in Nat \ {0}, NEW a \in Nat, NEW b \in Nat
  PROVE  /\ MulMod(a, b, p) \in Nat
         /\ Congruent(MulMod(a, b, p), a * b, p)
<1>1. a * b \in Nat
  OBVIOUS
<1>2. MulMod(a, b, p) \in 0 .. p - 1
  BY MulModType
<1>3. Congruent((a * b) % p, a * b, p)
  BY <1>1, CongruentMod
<1>4. QED
  BY <1>2, <1>3 DEF MulMod

\* Encoded values are residues, equal for congruent numbers.
LEMMA EncType ==
  ASSUME ctx \in Contexts, NEW a \in Nat
  PROVE  /\ Enc(a) \in Nat /\ Enc(a) \in 0 .. q - 1
         /\ Congruent(Enc(a), a * ctx.radix, q)
<1>1. ctx.radix \in Nat /\ q \in Nat \ {0}
  BY RadixIs
<1>2. MulMod(a, ctx.radix, q) \in 0 .. q - 1
  BY <1>1, MulModType
<1>3. Congruent(MulMod(a, ctx.radix, q), a * ctx.radix, q)
  BY <1>1, MulModCongruent
<1>4. QED
  BY <1>2, <1>3 DEF Enc

\* Congruent numbers have the same code.
LEMMA EncCongruent ==
  ASSUME ctx \in Contexts, NEW a \in Nat, NEW b \in Nat, Congruent(a, b, q)
  PROVE  Enc(a) = Enc(b)
<1>1. ctx.radix \in Nat /\ q \in Nat \ {0}
  BY RadixIs
<1>2. Congruent(a * ctx.radix, b * ctx.radix, q)
  BY <1>1, CongruentTimes
<1>3. QED
  BY <1>2 DEF Enc, MulMod, Congruent

\* A residue that is congruent to a * radix is the encoded a.
LEMMA EncIs ==
  ASSUME ctx \in Contexts, NEW a \in Nat, NEW b, Congruent(b, a * ctx.radix, q)
  PROVE  b % q = Enc(a)
BY DEF Enc, MulMod, Congruent

\* The sum
LEMMA EncAdd ==
  ASSUME ctx \in Contexts, NEW a \in Nat, NEW b \in Nat
  PROVE  Add(Enc(a), Enc(b)) = Enc(a + b)
<1> DEFINE r == ctx.radix
           A == Enc(a)
           B == Enc(b)
           c == a * r
           d == b * r
<1>1. r \in Nat /\ q \in Nat \ {0}
  BY RadixIs
<1>2. A \in Nat /\ Congruent(A, c, q)
  BY EncType
<1>3. B \in Nat /\ Congruent(B, d, q)
  BY EncType
<1>4. c \in Nat /\ d \in Nat /\ c + d = (a + b) * r /\ a + b \in Nat
  BY <1>1
<1> HIDE DEF A, B, c, d
<1>5. Congruent(A + B, c + d, q)
  BY <1>1, <1>2, <1>3, <1>4, SumCongruent
<1>6. (A + B) % q = Enc(a + b)
  BY <1>4, <1>5, EncIs
<1>7. QED
  BY <1>6 DEF Add, A, B

\* The product: Mul divides it by the radix once.
LEMMA EncMul ==
  ASSUME ctx \in Contexts, NEW a \in Nat, NEW b \in Nat
  PROVE  Mul(Enc(a), Enc(b)) = Enc(a * b)
<1> DEFINE r == ctx.radix
           z == RadixInverse
           A == Enc(a)
           B == Enc(b)
           c == a * r
           d == b * r
           l == r * z
           C == MulMod(A, B, q)
           e == (a * b) * r
<1>1. r \in Nat /\ z \in Nat /\ q \in Nat \ {0} /\ Congruent(l, 1, q)
  BY RadixIs
<1>2. A \in Nat /\ Congruent(A, c, q)
  BY EncType
<1>3. B \in Nat /\ Congruent(B, d, q)
  BY EncType
<1>4. c \in Nat /\ d \in Nat
  BY <1>1
<1>5. c * d = e * r /\ e \in Nat /\ a * b \in Nat
  <2>1. (a * r) * (b * r) = ((a * b) * r) * r
    BY <1>1
  <2>2. a * b \in Nat
    OBVIOUS
  <2>3. (a * b) * r \in Nat
    BY <1>1, <2>2
  <2>4. QED
    BY <2>1, <2>2, <2>3
<1>6. (e * r) * z = e * l /\ e * 1 = e /\ l \in Nat /\ e * r \in Nat
  <2> HIDE DEF e
  <2>1. QED
    BY <1>1, <1>5
<1> HIDE DEF A, B, c, d, z, l, e
<1>7. Congruent(A * B, c * d, q)
  BY <1>1, <1>2, <1>3, <1>4, ProductCongruent
<1>8. C \in Nat /\ Congruent(C, A * B, q)
  BY <1>1, <1>2, <1>3, MulModCongruent
<1> HIDE DEF C
<1>9. Congruent(C, e * r, q)
  BY <1>5, <1>7, <1>8, CongruentTrans
<1>10. Congruent(C * z, (e * r) * z, q)
  BY <1>1, <1>6, <1>8, <1>9, CongruentTimes
<1>11. Congruent(e * l, e * 1, q)
  BY <1>1, <1>5, <1>6, CongruentTimes
<1>12. Congruent(C * z, e, q)
  BY <1>6, <1>10, <1>11 DEF Congruent
<1>13. (C * z) % q = Enc(a * b)
  BY <1>5, <1>12, EncIs DEF e
<1>14. QED
  BY <1>13 DEF Mul, MulMod, A, B, C, z

\* Decoding gives the residue back.
LEMMA EncDec ==
  ASSUME ctx \in Contexts, NEW a \in Nat
  PROVE  Dec(Enc(a)) = a % q
<1> DEFINE r == ctx.radix
           z == RadixInverse
           A == Enc(a)
           l == r * z
<1>1. r \in Nat /\ z \in Nat /\ q \in Nat \ {0} /\ Congruent(l, 1, q)
  BY RadixIs
<1>2. A \in Nat /\ Congruent(A, a * r, q)
  BY EncType
<1>3. (a * r) * z = a * l /\ l \in Nat /\ a * 1 = a /\ a * r \in Nat
  BY <1>1
<1> HIDE DEF A, z, l
<1>4. Congruent(A * z, (a * r) * z, q)
  BY <1>1, <1>2, <1>3, CongruentTimes
<1>5. Congruent(a * l, a * 1, q)
  BY <1>1, <1>3, CongruentTimes
<1>6. Congruent(A * z, a, q)
  BY <1>3, <1>4, <1>5 DEF Congruent
<1>7. (A * z) % q = a % q
  BY <1>6 DEF Congruent
<1>8. QED
  BY <1>7 DEF Dec, MulMod, A, z

\* Numbers with equal sums are congruent.
LEMMA CongruentCancel ==
  ASSUME NEW p \in Nat \ {0}, NEW a \in Nat, NEW b \in Nat, NEW c \in Nat,
         Congruent(a + c, b + c, p)
  PROVE  Congruent(a, b, p)
<1> DEFINE l == (p - 1) * c
           d == a + c
           e == b + c
<1>1. l \in Nat /\ d \in Nat /\ e \in Nat
  <2>1. p - 1 \in Nat
    OBVIOUS
  <2>2. QED
    BY <2>1
<1>2. d + l = p * c + a /\ e + l = p * c + b
  OBVIOUS
<1>3. Congruent(d, e, p) /\ Congruent(l, l, p)
  BY DEF Congruent
<1> HIDE DEF d, e, l
<1>4. Congruent(d + l, e + l, p)
  BY <1>1, <1>3, SumCongruent
<1>5. Congruent(p * c + a, a, p)
  BY CongruentMultiple
<1>6. Congruent(p * c + b, b, p)
  BY CongruentMultiple
<1>7. QED
  BY <1>2, <1>4, <1>5, <1>6 DEF Congruent

\* The difference
LEMMA EncSub ==
  ASSUME ctx \in Contexts, NEW a \in Nat, NEW b \in Nat
  PROVE  Sub(Enc(a), Enc(b)) = Enc(a + (q - 1) * b)
<1> DEFINE r == ctx.radix
           A == Enc(a)
           B == Enc(b)
           c == a * r
           d == b * r
           D == A + (q - B)
           g == a + (q - 1) * b
           e == g * r
<1>1. r \in Nat /\ q \in Nat \ {0}
  BY RadixIs
<1>2. A \in Nat /\ Congruent(A, c, q)
  BY EncType
<1>3. B \in 0 .. q - 1 /\ B \in Nat /\ Congruent(B, d, q)
  BY EncType
<1>4. c \in Nat /\ d \in Nat
  BY <1>1
<1>5. g \in Nat
  <2>1. q - 1 \in Nat
    BY <1>1
  <2>2. (q - 1) * b \in Nat
    BY <2>1
  <2>3. QED
    BY <2>2
<1>6. e + d = q * d + c
  <2>1. (a + (q - 1) * b) * r + b * r = q * (b * r) + a * r
    BY <1>1
  <2>2. QED
    BY <2>1
<1>7. e \in Nat
  <2> HIDE DEF g
  <2>1. QED
    BY <1>1, <1>5
<1> HIDE DEF A, B, c, d, e, g
<1>8. D \in Nat /\ D + B = q * 1 + A
  BY <1>1, <1>2, <1>3
<1> HIDE DEF D
<1>9. Congruent(D + B, A, q)
  <2>1. Congruent(q * 1 + A, A, q)
    BY <1>1, <1>2, CongruentMultiple
  <2>2. QED
    BY <1>8, <2>1
<1>10. Congruent(e + d, c, q)
  <2>1. Congruent(q * d + c, c, q)
    BY <1>1, <1>4, CongruentMultiple
  <2>2. QED
    BY <1>6, <2>1
<1>11. Congruent(e + B, e + d, q)
  <2>1. Congruent(e, e, q)
    BY DEF Congruent
  <2>2. QED
    BY <1>1, <1>3, <1>4, <1>7, <2>1, SumCongruent
<1>12. Congruent(D + B, e + B, q)
  BY <1>2, <1>9, <1>10, <1>11 DEF Congruent
<1>13. Congruent(D, e, q)
  BY <1>1, <1>3, <1>7, <1>8, <1>12, CongruentCancel
<1>14. D % q = Enc(g)
  BY <1>5, <1>13, EncIs DEF e
<1>15. QED
  BY <1>14 DEF Sub, A, B, D, g

\* One more power
LEMMA NextPower ==
  ASSUME NEW p \in Nat \ {0, 1}, NEW x \in Nat, NEW e \in Nat
  PROVE  Congruent(ModPow(x, e, p) * x, ModPow(x, e + 1, p), p)
<1> DEFINE y == ModPow(x, e, p)
           z == ModPow(x, 1, p)
           w == ModPow(x, e + 1, p)
<1>1. p \in Nat \ {0} /\ 1 \in Nat /\ e + 1 \in Nat
  OBVIOUS
<1>2. y \in Nat
  BY ModPowNat
<1>3. z = x % p
  BY <1>1, ModPowType
<1>4. MulMod(y, z, p) = w
  BY <1>1, ModPowSum
<1>5. x % p \in Nat
  BY <1>1
<1> HIDE DEF y, z, w
<1>6. Congruent(MulMod(y, x % p, p), y * (x % p), p)
  BY <1>1, <1>2, <1>5, MulModCongruent
<1>7. Congruent(x % p, x, p)
  BY <1>1, CongruentMod
<1>8. Congruent(y * (x % p), y * x, p)
  BY <1>1, <1>2, <1>5, <1>7, CongruentTimes
<1>9. Congruent(w, y * x, p)
  BY <1>3, <1>4, <1>6, <1>8 DEF Congruent
<1>10. QED
  BY <1>9, CongruentSym DEF y, w

\* The powers that the loops multiply up
LEMMA EncPowers ==
  ASSUME ctx \in Contexts, NEW a \in Nat, NEW x \in Nat, NEW j \in Nat
  PROVE  Powers(Enc(a), Enc(x))[j] = Enc(a * ModPow(x, j, q))
<1> DEFINE F(k) == Enc(a * ModPow(x, k, q))
           f == [k \in Nat |-> F(k)]
           w == CHOOSE g : g = [k \in Nat |-> IF k = 0 THEN Enc(a) ELSE Mul(g[k - 1], Enc(x))]
           S == {k \in Nat : w[k] = F(k)}
<1>1. q \in Nat \ {0, 1} /\ q \in Nat \ {0}
  BY RadixIs
<1>2. F(0) = Enc(a)
  <2>1. 0 \in Nat /\ a * 1 = a
    OBVIOUS
  <2>2. ModPow(x, 0, q) = 1
    BY <1>1, <2>1, ModPowType
  <2>3. QED
    BY <2>1, <2>2
<1>3. ASSUME NEW k \in Nat
      PROVE  Mul(F(k), Enc(x)) = F(k + 1)
  <2> DEFINE y == ModPow(x, k, q)
             z == ModPow(x, k + 1, q)
  <2>1. k + 1 \in Nat
    OBVIOUS
  <2>2. y \in Nat
    BY <1>1, ModPowNat
  <2>3. z \in Nat
    BY <1>1, <2>1, ModPowNat
  <2>4. Congruent(y * x, z, q)
    BY <1>1, NextPower
  <2> HIDE DEF y, z
  <2>5. a * y \in Nat /\ y * x \in Nat /\ a * z \in Nat /\ (a * y) * x = a * (y * x)
    BY <2>2, <2>3
  <2>6. a * (y * x) \in Nat
    BY <2>5
  <2>7. Congruent(a * (y * x), a * z, q)
    BY <1>1, <2>3, <2>4, <2>5, CongruentTimes
  <2>8. Mul(Enc(a * y), Enc(x)) = Enc((a * y) * x)
    BY <2>5, EncMul
  <2>9. Enc(a * (y * x)) = Enc(a * z)
    BY <2>5, <2>6, <2>7, EncCongruent
  <2>10. QED
    BY <2>5, <2>8, <2>9 DEF y, z
<1>4. \A k \in Nat : f[k] = F(k)
  OBVIOUS
<1> HIDE DEF F
<1>5. ASSUME NEW k \in Nat
      PROVE  f[k] = IF k = 0 THEN Enc(a) ELSE Mul(f[k - 1], Enc(x))
  <2>1. CASE k = 0
    BY <1>2, <1>4, <2>1
  <2>2. CASE k # 0
    <3>1. k - 1 \in Nat /\ (k - 1) + 1 = k
      BY <2>2
    <3>2. Mul(F(k - 1), Enc(x)) = F(k)
      BY <1>3, <3>1
    <3>3. f[k] = F(k) /\ f[k - 1] = F(k - 1)
      BY <1>4, <3>1
    <3>4. QED
      BY <2>2, <3>2, <3>3
  <2>3. QED
    BY <2>1, <2>2
<1>6. f = [k \in Nat |-> IF k = 0 THEN Enc(a) ELSE Mul(f[k - 1], Enc(x))]
  <2>1. f = [k \in Nat |-> f[k]]
    OBVIOUS
  <2> HIDE DEF f
  <2>2. QED
    BY <1>5, <2>1
<1>7. w = [k \in Nat |-> IF k = 0 THEN Enc(a) ELSE Mul(w[k - 1], Enc(x))]
  <2> HIDE DEF f
  <2>1. QED
    BY <1>6
<1>8. Powers(Enc(a), Enc(x)) = w
  BY DEF Powers
<1> HIDE DEF w, f
<1>9. w[0] = Enc(a)
  BY <1>7
<1>10. ASSUME NEW k \in Nat
       PROVE  w[k + 1] = Mul(w[k], Enc(x))
  BY <1>7
<1>11. Nat \subseteq S
  <2>1. 0 \in S
    BY <1>2, <1>9
  <2>2. ASSUME NEW k \in Nat, k \in S
        PROVE  k + 1 \in S
    BY <1>3, <1>10, <2>2
  <2> HIDE DEF S
  <2>3. QED
    BY <2>1, <2>2, Induction
<1>12. QED
  BY <1>8, <1>11 DEF F

\* Every adapter reverses the bits of the index.
LEMMA BitrevIs ==
  ASSUME ctx \in Contexts
  PROVE  Bitrev = Rev(n)
<1>1. PICK k \in Nat : n = 2^k
  BY ContextIs
<1>2. Counter(n) = Rev(n)
  BY <1>1, CounterIs
<1>3. QED
  BY <1>2 DEF Bitrev, Rev, Indices

-----------------------------------------------------------------------------
(***************************************************************************)
(* Stages                                                                  *)
(***************************************************************************)

\* The array v holds f times the transforms of the blocks of size s, encoded.
Blocks(v, x, s, root, c, f) ==
  \A i \in 0 .. x.n - 1 : v[i] = MulMod(f * Entry(c, x.n, s, root, i, x.q), x.radix, x.q)

\* i is the upper or the lower place of the butterfly at h.
Butterfly(i, h, u, t, s, N) ==
  /\ Upper(h, u, s, t) /\ h + s \in 0 .. N - 1
  /\ i % ((2 * s) \div 2) = t
  /\ \/ Halfway(i, 2 * s) /\ i = h /\ Partner(i, 2 * s) = h + s
     \/ ~Halfway(i, 2 * s) /\ i = h + s /\ Partner(i, 2 * s) = h

\* The butterfly that a place belongs to
LEMMA ButterflyOf ==
  ASSUME NEW s \in Nat \ {0}, NEW M \in Nat \ {0}, NEW N, Places(N, s, M), NEW i \in 0 .. N - 1
  PROVE  \E u \in 0 .. M - 1, t \in 0 .. s - 1, h \in 0 .. N - 1 : Butterfly(i, h, u, t, s, N)
<1> USE DEF Butterfly
<1>1. (2 * s) \div 2 = s
  OBVIOUS
<1>2. PICK u \in 0 .. M - 1, t \in 0 .. s - 1 :
           \/ i % (2 * s) < s /\ Upper(i, u, s, t)
           \/ ~(i % (2 * s) < s) /\ Upper(i - s, u, s, t)
  BY BlockOf
<1>3. CASE i % (2 * s) < s /\ Upper(i, u, s, t)
  <2>1. i + s \in 0 .. N - 1 /\ i % s = t
    BY <1>3, BlockPlaces
  <2>2. Halfway(i, 2 * s) /\ Partner(i, 2 * s) = i + s
    BY <1>1, <1>3 DEF Halfway, Partner
  <2>3. QED
    BY <1>1, <1>3, <2>1, <2>2
<1>4. CASE ~(i % (2 * s) < s) /\ Upper(i - s, u, s, t)
  <2> DEFINE h == i - s
  <2>1. Upper(h, u, s, t)
    BY <1>4
  <2>2. h + s = i
    OBVIOUS
  <2> HIDE DEF h
  <2>3. h \in 0 .. N - 1 /\ h + s \in 0 .. N - 1 /\ (h + s) % s = t
    BY <2>1, BlockPlaces
  <2>4. ~Halfway(i, 2 * s) /\ Partner(i, 2 * s) = h
    BY <1>1, <1>4 DEF Halfway, Partner, h
  <2>5. QED
    BY <1>1, <2>1, <2>2, <2>3, <2>4
<1>5. QED
  BY <1>2, <1>3, <1>4

\* The powers of the root of a stage
LEMMA TwiddleIs ==
  ASSUME ctx \in Contexts, NEW root \in Nat, NEW size \in Nat \ {0}, NEW t \in Nat
  PROVE  /\ ModPow(ModPow(root, n \div size, q), t, q) \in Nat
         /\ Powers(Enc(1), Twiddle(root, size))[t]
            = Enc(ModPow(ModPow(root, n \div size, q), t, q))
<1> DEFINE x == ModPow(root, n \div size, q)
<1>1. q \in Nat \ {0, 1} /\ n \in Nat
  BY ContextIs
<1>2. n \div size \in Nat
  BY <1>1
<1>3. x \in Nat
  BY <1>1, <1>2, ModPowNat
<1> HIDE DEF x
<1>4. ModPow(x, t, q) \in Nat
  BY <1>1, <1>3, ModPowNat
<1>5. 1 * ModPow(x, t, q) = ModPow(x, t, q) /\ 1 \in Nat
  BY <1>4
<1>6. Powers(Enc(1), Enc(x))[t] = Enc(1 * ModPow(x, t, q))
  BY <1>3, <1>5, EncPowers
<1>7. QED
  BY <1>4, <1>5, <1>6 DEF Twiddle, x

\* A stage of decimation in time doubles the blocks.
LEMMA TimeStage ==
  ASSUME ctx \in Contexts, NEW j \in Nat, NEW k \in Nat, NEW s, NEW M, Staged(j, k, n, s, M),
         NEW root \in Nat, ModPow(root, n \div 2, q) = q - 1, NEW c, Summable(c, n),
         NEW v, Blocks(v, ctx, s, root, c, 1)
  PROVE  Blocks(DecimateInTime(v, 2 * s, root), ctx, 2 * s, root, c, 1)
<1> DEFINE w == Powers(Enc(1), Twiddle(root, 2 * s))
           En(z, i) == Entry(c, n, z, root, i, q)
<1>1. q \in Nat \ {0, 1} /\ q \in Nat \ {0}
  BY ContextIs
<1>2. s \in Nat \ {0} /\ M \in Nat \ {0} /\ Places(n, s, M)
  BY StageSizes
<1>3. \A i \in 0 .. n - 1 : v[i] = Enc(1 * En(s, i))
  BY DEF Blocks, Enc, n, q
<1>4. SUFFICES ASSUME NEW i \in 0 .. n - 1
               PROVE  DecimateInTime(v, 2 * s, root)[i] = Enc(1 * En(2 * s, i))
  BY DEF Blocks, Enc, n, q
<1>5. PICK u \in 0 .. M - 1, t \in 0 .. s - 1, h \in 0 .. n - 1 : Butterfly(i, h, u, t, s, n)
  BY <1>2, ButterflyOf
<1> DEFINE W == ModPow(ModPow(root, n \div (2 * s), q), t, q)
           e == En(s, h)
           o == En(s, h + s)
           E == En(2 * s, h)
           O == En(2 * s, h + s)
<1>6. t \in Nat /\ 2 * s \in Nat \ {0}
  BY <1>2
<1>7. w[t] = Enc(W)
  BY <1>6, TwiddleIs
<1>8. W = ModPow(ModPow(root, n \div (2 * s), q), t, q)
  OBVIOUS
<1> HIDE DEF W
<1>9. /\ W \in Nat /\ e \in Nat /\ o \in Nat /\ E \in Nat /\ O \in Nat
      /\ Congruent(E, e + W * o, q)
      /\ Congruent(O, e + ((q - 1) * W) * o, q)
  BY <1>1, <1>5, <1>8, Combine DEF Butterfly
<1>10. 1 * e = e /\ 1 * o = o /\ 1 * E = E /\ 1 * O = O
  BY <1>9
<1>11. v[h] = Enc(e) /\ v[h + s] = Enc(o)
  BY <1>3, <1>5, <1>10 DEF Butterfly
<1> HIDE DEF w, En, e, o, E, O
<1> DEFINE g == o * W
<1>12. g \in Nat /\ W * o = g /\ ((q - 1) * W) * o = (q - 1) * g
  BY <1>1, <1>9
<1>13. Mul(Enc(o), Enc(W)) = Enc(g)
  BY <1>9, EncMul
<1> HIDE DEF g
<1>14. CASE Halfway(i, 2 * s) /\ i = h /\ Partner(i, 2 * s) = h + s
  <2>1. DecimateInTime(v, 2 * s, root)[i] = Add(v[h], Mul(v[h + s], w[t]))
    BY <1>5, <1>14 DEF DecimateInTime, Indices, w, Butterfly
  <2>2. Add(Enc(e), Enc(g)) = Enc(e + g)
    BY <1>9, <1>12, EncAdd
  <2>3. e + g \in Nat /\ Congruent(e + g, E, q)
    BY <1>9, <1>12, CongruentSym
  <2>4. Enc(e + g) = Enc(E)
    BY <1>9, <2>3, EncCongruent
  <2>5. QED
    BY <1>7, <1>10, <1>11, <1>13, <1>14, <2>1, <2>2, <2>4 DEF E
<1>15. CASE ~Halfway(i, 2 * s) /\ i = h + s /\ Partner(i, 2 * s) = h
  <2>1. DecimateInTime(v, 2 * s, root)[i] = Sub(v[h], Mul(v[h + s], w[t]))
    BY <1>5, <1>15 DEF DecimateInTime, Indices, w, Butterfly
  <2>2. Sub(Enc(e), Enc(g)) = Enc(e + (q - 1) * g)
    BY <1>9, <1>12, EncSub
  <2>3. e + (q - 1) * g \in Nat
    <3>1. q - 1 \in Nat
      BY <1>1
    <3>2. (q - 1) * g \in Nat
      BY <1>12, <3>1
    <3>3. QED
      BY <1>9, <3>2
  <2>4. Congruent(e + (q - 1) * g, O, q)
    BY <1>9, <1>12, CongruentSym
  <2>5. Enc(e + (q - 1) * g) = Enc(O)
    BY <1>9, <2>3, <2>4, EncCongruent
  <2>6. QED
    BY <1>7, <1>10, <1>11, <1>13, <1>15, <2>1, <2>2, <2>5 DEF O
<1>16. QED
  BY <1>5, <1>14, <1>15 DEF Butterfly

\* The powers of inverse roots
LEMMA TwiddlesCancel ==
  ASSUME NEW p \in Nat \ {0, 1}, NEW x \in Nat, NEW y \in Nat, MulMod(x, y, p) = 1,
         NEW e \in Nat, NEW t \in Nat
  PROVE  Congruent(ModPow(ModPow(x, e, p), t, p) * ModPow(ModPow(y, e, p), t, p), 1, p)
<1> DEFINE a == ModPow(x, e, p)
           b == ModPow(y, e, p)
<1>1. a \in Nat /\ b \in Nat
  BY ModPowNat
<1>2. MulMod(a, b, p) = 1
  BY InversePowers
<1> HIDE DEF a, b
<1>3. MulMod(ModPow(a, t, p), ModPow(b, t, p), p) = 1
  BY <1>1, <1>2, InversePowers
<1>4. 1 % p = 1
  OBVIOUS
<1>5. QED
  BY <1>3, <1>4 DEF MulMod, Congruent, a, b

\* A stage of decimation in frequency halves the blocks, and doubles all.
LEMMA FrequencyStage ==
  ASSUME ctx \in Contexts, NEW j \in Nat, NEW k \in Nat, NEW s, NEW M, Staged(j, k, n, s, M),
         NEW x \in Nat, NEW y \in Nat, MulMod(x, y, q) = 1,
         ModPow(x, n \div 2, q) = q - 1, NEW c, Summable(c, n), NEW f \in Nat,
         NEW v, Blocks(v, ctx, 2 * s, x, c, f)
  PROVE  Blocks(DecimateInFrequency(v, 2 * s, y), ctx, s, x, c, 2 * f)
<1> DEFINE w == Powers(Enc(1), Twiddle(y, 2 * s))
           En(z, i) == Entry(c, n, z, x, i, q)
<1>1. q \in Nat \ {0, 1} /\ q \in Nat \ {0} /\ n \in Nat
  BY ContextIs
<1>2. s \in Nat \ {0} /\ M \in Nat \ {0} /\ Places(n, s, M)
  BY StageSizes
<1>3. \A i \in 0 .. n - 1 : v[i] = Enc(f * En(2 * s, i))
  BY DEF Blocks, Enc, n, q
<1>4. SUFFICES ASSUME NEW i \in 0 .. n - 1
               PROVE  DecimateInFrequency(v, 2 * s, y)[i] = Enc((2 * f) * En(s, i))
  BY DEF Blocks, Enc, n, q
<1>5. PICK u \in 0 .. M - 1, t \in 0 .. s - 1, h \in 0 .. n - 1 : Butterfly(i, h, u, t, s, n)
  BY <1>2, ButterflyOf
<1> DEFINE l == n \div (2 * s)
           W == ModPow(ModPow(x, l, q), t, q)
           Z == ModPow(ModPow(y, l, q), t, q)
           e == En(s, h)
           o == En(s, h + s)
           E == En(2 * s, h)
           O == En(2 * s, h + s)
<1>6. t \in Nat /\ 2 * s \in Nat \ {0} /\ l \in Nat
  BY <1>1, <1>2
<1>7. Z \in Nat /\ w[t] = Enc(Z)
  BY <1>6, TwiddleIs
<1>8. Congruent(W * Z, 1, q)
  <2> HIDE DEF l
  <2>1. QED
    BY <1>1, <1>6, TwiddlesCancel
<1>9. W = ModPow(ModPow(x, n \div (2 * s), q), t, q)
  OBVIOUS
<1> HIDE DEF W, Z
<1>10. /\ W \in Nat /\ e \in Nat /\ o \in Nat /\ E \in Nat /\ O \in Nat
       /\ Congruent(E, e + W * o, q)
       /\ Congruent(O, e + ((q - 1) * W) * o, q)
  BY <1>1, <1>5, <1>9, Combine DEF Butterfly
<1>11. v[h] = Enc(f * E) /\ v[h + s] = Enc(f * O)
  BY <1>3, <1>5 DEF Butterfly
<1> HIDE DEF w, En, e, o, E, O
<1> DEFINE a == f * E
           b == f * O
           A == (2 * f) * e
           B == (2 * f) * o
           d == a + (q - 1) * b
<1>12. /\ Congruent(a + b, A, q)
       /\ Congruent(d * Z, B, q)
  BY <1>1, <1>7, <1>8, <1>10, ButterflyBack
<1>13. a \in Nat /\ b \in Nat /\ A \in Nat /\ B \in Nat /\ a + b \in Nat
  BY <1>10
<1>14. d \in Nat
  <2> HIDE DEF a, b
  <2>1. q - 1 \in Nat
    BY <1>1
  <2>2. (q - 1) * b \in Nat
    BY <1>13, <2>1
  <2>3. QED
    BY <1>13, <2>2
<1>15. CASE Halfway(i, 2 * s) /\ i = h /\ Partner(i, 2 * s) = h + s
  <2>1. DecimateInFrequency(v, 2 * s, y)[i] = Add(v[h], v[h + s])
    BY <1>5, <1>15 DEF DecimateInFrequency, Indices, w, Butterfly
  <2> HIDE DEF a, b, A
  <2>2. Add(Enc(a), Enc(b)) = Enc(a + b)
    BY <1>13, EncAdd
  <2>3. Enc(a + b) = Enc(A)
    BY <1>12, <1>13, EncCongruent
  <2>4. QED
    BY <1>11, <1>15, <2>1, <2>2, <2>3 DEF a, b, A, e
<1>16. CASE ~Halfway(i, 2 * s) /\ i = h + s /\ Partner(i, 2 * s) = h
  <2>1. DecimateInFrequency(v, 2 * s, y)[i] = Mul(Sub(v[h], v[h + s]), w[t])
    BY <1>5, <1>16 DEF DecimateInFrequency, Indices, w, Butterfly
  <2> HIDE DEF a, b, B
  <2>2. Sub(Enc(a), Enc(b)) = Enc(d)
    BY <1>13, EncSub
  <2> HIDE DEF d
  <2>3. Mul(Enc(d), Enc(Z)) = Enc(d * Z)
    BY <1>7, <1>14, EncMul
  <2>4. d * Z \in Nat
    BY <1>7, <1>14
  <2>5. Enc(d * Z) = Enc(B)
    BY <1>12, <1>13, <2>4, EncCongruent
  <2>6. QED
    BY <1>7, <1>11, <1>16, <2>1, <2>2, <2>3, <2>5 DEF a, b, B, o
<1>17. QED
  BY <1>5, <1>15, <1>16 DEF Butterfly

-----------------------------------------------------------------------------
(***************************************************************************)
(* Before the first stage and after the last                               *)
(***************************************************************************)

\* The coefficients of a polynomial of a context
Vectors == [Indices -> 0 .. q - 1]

\* Its values
LEMMA VectorIs ==
  ASSUME ctx \in Contexts, NEW c \in Vectors
  PROVE  /\ Summable(c, n)
         /\ \A i \in Indices : c[i] \in Nat /\ c[i] % q = c[i] /\ i \in Nat
<1>1. n \in Nat /\ q \in Nat \ {0}
  BY ContextIs
<1>2. ASSUME NEW i \in Indices
      PROVE  c[i] \in Nat /\ c[i] % q = c[i] /\ i \in Nat
  <2>1. c[i] \in 0 .. q - 1
    BY DEF Vectors
  <2>2. QED
    BY <1>1, <2>1 DEF Indices
<1>3. QED
  BY <1>2 DEF Summable, Indices

\* A value of Dft
LEMMA DftIs ==
  ASSUME ctx \in Contexts, NEW root \in Nat, NEW c, Summable(c, n), NEW i \in Indices
  PROVE  /\ Dft(c, n, root)[i] = Value(c, n, ModPow(root, i, q), q) % q
         /\ Dft(c, n, root)[i] \in 0 .. q - 1
         /\ Value(c, n, ModPow(root, i, q), q) \in Nat
<1> DEFINE y == ModPow(root, i, q)
           g == [t \in 0 .. n - 1 |-> c[t] * ModPow(root, t * i, q)]
<1>1. q \in Nat \ {0, 1} /\ q \in Nat \ {0} /\ n \in Nat /\ i \in Nat /\ i \in 0 .. n - 1
  BY ContextIs DEF Indices
<1>2. y \in Nat
  BY <1>1, ModPowNat
<1>3. \A t \in 0 .. n - 1 : g[t] = c[t] * ModPow(y, t, q)
  <2> SUFFICES ASSUME NEW t \in 0 .. n - 1
               PROVE  ModPow(root, t * i, q) = ModPow(y, t, q)
    OBVIOUS
  <2>1. t \in Nat /\ t * i = i * t
    BY <1>1
  <2>2. ModPow(y, t, q) = ModPow(root, i * t, q)
    BY <1>1, <2>1, ModPowOfPow
  <2>3. QED
    BY <2>1, <2>2
<1>4. Dft(c, n, root)[i] = Total(g, n) % q
  BY <1>1 DEF Dft
<1> HIDE DEF y, g
<1>5. Total(g, n) = Value(c, n, y, q)
  BY <1>1, <1>2, <1>3, ValueTerms
<1>6. Value(c, n, y, q) \in Nat
  BY <1>1, <1>2, ValueNat
<1>7. QED
  BY <1>1, <1>4, <1>5, <1>6, ModIdempotent DEF y

\* All of Dft
LEMMA DftVector ==
  ASSUME ctx \in Contexts, NEW root \in Nat, NEW c, Summable(c, n)
  PROVE  Dft(c, n, root) \in Vectors
<1>1. \A i \in Indices : Dft(c, n, root)[i] \in 0 .. q - 1
  BY DftIs
<1>2. QED
  BY <1>1 DEF Dft, Vectors, Indices

\* The first stage of decimation in time starts from blocks of size 1.
LEMMA TimeStart ==
  ASSUME ctx \in Contexts, NEW root \in Nat, NEW c, Summable(c, n),
         NEW v, \A i \in Indices : v[i] = Enc(c[i])
  PROVE  Blocks(Permute(v), ctx, 1, root, c, 1)
<1>1. PICK k \in Nat : n = 2^k
  BY ContextIs
<1>2. q \in Nat \ {0, 1}
  BY ContextIs
<1>3. SUFFICES ASSUME NEW i \in 0 .. n - 1
               PROVE  Permute(v)[i] = Enc(1 * Entry(c, n, 1, root, i, q))
  BY DEF Blocks, Enc, n, q
<1>4. Rev(n)[i] \in 0 .. n - 1
  BY <1>1, RevInvolution
<1>5. Permute(v)[i] = v[Rev(n)[i]]
  BY BitrevIs DEF Permute, Indices
<1>6. v[Rev(n)[i]] = Enc(c[Rev(n)[i]])
  BY <1>4 DEF Indices
<1>7. Entry(c, n, 1, root, i, q) = c[Rev(n)[i]] /\ c[Rev(n)[i]] \in Nat
  BY <1>1, <1>2, EntryOne
<1>8. 1 * c[Rev(n)[i]] = c[Rev(n)[i]]
  BY <1>7
<1>9. QED
  BY <1>5, <1>6, <1>7, <1>8

\* The first stage of decimation in frequency starts from one block.
LEMMA FrequencyStart ==
  ASSUME ctx \in Contexts, NEW root \in Nat, NEW c, Summable(c, n),
         NEW v, \A i \in Indices : v[i] = Enc(Dft(c, n, root)[i])
  PROVE  Blocks(v, ctx, n, root, c, 1)
<1>1. PICK k \in Nat : n = 2^k
  BY ContextIs
<1>2. q \in Nat \ {0, 1} /\ q \in Nat \ {0}
  BY ContextIs
<1>3. SUFFICES ASSUME NEW i \in 0 .. n - 1
               PROVE  v[i] = Enc(1 * Entry(c, n, n, root, i, q))
  BY DEF Blocks, Enc, n, q
<1> DEFINE a == Value(c, n, ModPow(root, i, q), q)
<1>4. Entry(c, n, n, root, i, q) = a /\ a \in Nat
  BY <1>1, <1>2, EntryAll
<1>5. v[i] = Enc(a % q)
  BY DftIs DEF Indices
<1> HIDE DEF a
<1>6. a % q \in Nat /\ Congruent(a % q, a, q) /\ 1 * a = a
  BY <1>2, <1>4, CongruentMod
<1>7. Enc(a % q) = Enc(a)
  BY <1>4, <1>6, EncCongruent
<1>8. QED
  BY <1>4, <1>5, <1>6, <1>7

\* One block: the transform, encoded
LEMMA TimeEnd ==
  ASSUME ctx \in Contexts, NEW root \in Nat, NEW c, Summable(c, n),
         NEW v, Blocks(v, ctx, n, root, c, 1), NEW i \in Indices
  PROVE  /\ v[i] = Enc(Value(c, n, ModPow(root, i, q), q))
         /\ v[i] = Enc(Dft(c, n, root)[i])
         /\ Dec(v[i]) = Dft(c, n, root)[i]
<1>1. PICK k \in Nat : n = 2^k
  BY ContextIs
<1>2. q \in Nat \ {0, 1} /\ q \in Nat \ {0}
  BY ContextIs
<1> DEFINE a == Value(c, n, ModPow(root, i, q), q)
<1>3. i \in 0 .. n - 1
  BY DEF Indices
<1>4. Entry(c, n, n, root, i, q) = a /\ a \in Nat
  BY <1>1, <1>2, <1>3, EntryAll
<1>5. v[i] = Enc(1 * Entry(c, n, n, root, i, q))
  BY <1>3 DEF Blocks, Enc, n, q
<1>6. Dft(c, n, root)[i] = a % q
  BY DftIs
<1> HIDE DEF a
<1>7. v[i] = Enc(a)
  <2>1. 1 * a = a
    BY <1>4
  <2>2. QED
    BY <1>4, <1>5, <2>1
<1>8. Enc(a % q) = Enc(a)
  <2>1. a % q \in Nat /\ Congruent(a % q, a, q)
    BY <1>2, <1>4, CongruentMod
  <2>2. QED
    BY <1>4, <2>1, EncCongruent
<1>9. Dec(Enc(a)) = a % q
  BY <1>4, EncDec
<1>10. QED
  BY <1>6, <1>7, <1>8, <1>9 DEF a

\* Decimation in frequency ends with n times the coefficients, in reversed order.
LEMMA FrequencyEnd ==
  ASSUME ctx \in Contexts, NEW root \in Nat, NEW c, Summable(c, n),
         NEW v, Blocks(v, ctx, 1, root, c, n), NEW i \in Indices
  PROVE  Permute(v)[i] = Enc(n * c[i])
<1>1. PICK k \in Nat : n = 2^k
  BY ContextIs
<1>2. q \in Nat \ {0, 1}
  BY ContextIs
<1> DEFINE h == Rev(n)[i]
<1>3. i \in 0 .. n - 1
  BY DEF Indices
<1>4. h \in 0 .. n - 1 /\ Rev(n)[h] = i
  BY <1>1, <1>3, RevInvolution
<1>5. Permute(v)[i] = v[h]
  BY BitrevIs DEF Permute
<1> HIDE DEF h
<1>6. v[h] = Enc(n * Entry(c, n, 1, root, h, q))
  BY <1>4 DEF Blocks, Enc, n, q
<1>7. Entry(c, n, 1, root, h, q) = c[Rev(n)[h]]
  BY <1>1, <1>2, <1>4, EntryOne
<1>8. QED
  BY <1>4, <1>5, <1>6, <1>7

\* Decimation in time with the inverse root, over a transform, does too.
LEMMA InverseTimeEnd ==
  ASSUME ctx \in Contexts, NEW x \in Nat, NEW y \in Nat, MulMod(x, y, q) = 1,
         HasOrder(x, n, q), NEW c, Summable(c, n),
         NEW v, Blocks(v, ctx, n, y, Dft(c, n, x), 1), NEW i \in Indices
  PROVE  v[i] = Enc(n * c[i])
<1> DEFINE d == Dft(c, n, x)
           a == Value(d, n, ModPow(y, i, q), q)
<1>1. q \in Nat \ {0, 1} /\ q \in Nat \ {0} /\ q \in Nat /\ Prime(q) /\ n \in Nat
  BY ContextIs
<1>2. d \in Vectors
  BY DftVector
<1>3. Summable(d, n)
  BY <1>2, VectorIs
<1>4. v[i] = Enc(a)
  BY <1>3, TimeEnd
<1>5. AreValues(d, c, n, x, q)
  <2>1. ASSUME NEW t \in 0 .. n - 1
        PROVE  Congruent(d[t], Value(c, n, ModPow(x, t, q), q), q)
    <3> DEFINE b == Value(c, n, ModPow(x, t, q), q)
    <3>1. d[t] = b % q /\ b \in Nat
      BY DftIs DEF Indices
    <3> HIDE DEF b
    <3>2. Congruent(b % q, b, q)
      BY <1>1, <3>1, CongruentMod
    <3>3. QED
      BY <3>1, <3>2 DEF b
  <2>2. QED
    BY <2>1 DEF AreValues
<1>6. i \in 0 .. n - 1 /\ i \in Nat
  BY DEF Indices
<1>7. a \in Nat
  <2>1. ModPow(y, i, q) \in Nat
    BY <1>1, <1>6, ModPowNat
  <2> HIDE DEF d
  <2>2. QED
    BY <1>1, <1>3, <2>1, ValueNat
<1> HIDE DEF d
<1>8. Congruent(a, n * c[i], q)
  BY <1>1, <1>3, <1>5, <1>6, InverseTransform
<1>9. n * c[i] \in Nat
  <2>1. c[i] \in Nat
    BY <1>6 DEF Summable
  <2>2. QED
    BY <1>1, <2>1
<1> HIDE DEF a
<1>10. Enc(a) = Enc(n * c[i])
  BY <1>7, <1>8, <1>9, EncCongruent
<1>11. QED
  BY <1>4, <1>10

\* The naive adapter squares psi for its root: it needs a negacyclic context.
NaiveFits == \A x \in Contexts : x.adapter = "naive" => x.type = "negacyclic"

\* A reduced number is its own residue.
LEMMA ReducedIs ==
  ASSUME NEW a \in Nat, NEW p \in Nat \ {0}
  PROVE  a % p \in Nat /\ (a % p) % p = a % p
<1>1. a % p \in 0 .. p - 1
  OBVIOUS
<1>2. QED
  BY <1>1

\* The roots that the stages use have order n.
LEMMA OmegaIs ==
  ASSUME ctx \in Contexts, NaiveFits
  PROVE  /\ Omega \in Nat /\ HasOrder(Omega, n, q)
         /\ Inverted(Omega) \in Nat /\ MulMod(Omega, Inverted(Omega), q) = 1
         /\ HasOrder(Inverted(Omega), n, q)
         /\ ModPow(Omega, n, q) = 1
<1> DEFINE x == ctx.omega
           y == ModPow(x % q, q - 2, q)
<1>1. /\ q \in Nat /\ Prime(q) /\ q \in Nat \ {0, 1} /\ q \in Nat \ {0} /\ n \in Nat \ {0}
      /\ x \in Nat /\ HasOrder(x, n, q) /\ ctx.psi \in Nat
  BY ContextIs
<1>2. Omega = x % q
  <2>1. CASE ctx.adapter = "naive"
    <3>1. MulMod(ctx.psi, ctx.psi, q) = x % q
      BY <2>1, ContextIs DEF NaiveFits
    <3>2. MulMod(ctx.psi % q, ctx.psi % q, q) = MulMod(ctx.psi, ctx.psi, q)
      BY <1>1, ModMulBoth DEF MulMod
    <3>3. QED
      BY <2>1, <3>1, <3>2 DEF Omega, Psi, Reduced
  <2>2. CASE ctx.adapter # "naive"
    BY <2>2 DEF Omega, Reduced
  <2>3. QED
    BY <2>1, <2>2
<1>3. x % q \in Nat /\ (x % q) % q = x % q
  <2> HIDE DEF x
  <2>1. QED
    BY <1>1, ReducedIs
<1>4. HasOrder(x % q, n, q)
  BY <1>1, <1>3 DEF HasOrder
<1>5. q - 2 \in Nat
  BY <1>1
<1>6. Inverted(Omega) = y
  BY <1>2 DEF Inverted
<1>7. y \in Nat
  BY <1>1, <1>3, <1>5, ModPowNat
<1>8. ModPow(x % q, n, q) = 1
  BY <1>1, <1>3, <1>4, OrderIs
<1>9. (x % q) % q # 0
  BY <1>1, <1>3, <1>8, RootNotZero
<1>10. MulMod(x % q, y, q) = 1
  BY <1>1, <1>3, <1>9, InverseIs
<1> HIDE DEF y
<1>11. HasOrder(y, n, q)
  BY <1>1, <1>3, <1>4, <1>7, <1>10, InverseOrder
<1>12. QED
  BY <1>2, <1>3, <1>4, <1>6, <1>7, <1>8, <1>10, <1>11

\* Where there is a stage, their powers turn the sign half way.
LEMMA HalfTurns ==
  ASSUME ctx \in Contexts, NaiveFits, NEW j \in Nat, NEW k \in Nat, NEW s, NEW M,
         Staged(j, k, n, s, M)
  PROVE  /\ ModPow(Omega, n \div 2, q) = q - 1
         /\ ModPow(Inverted(Omega), n \div 2, q) = q - 1
<1> DEFINE h == s * M
<1>1. s \in Nat \ {0} /\ M \in Nat \ {0} /\ n = (2 * s) * M /\ n \div 2 = h
  BY StageSizes
<1>2. n = 2 * h /\ h \in Nat \ {0}
  BY <1>1
<1>3. q \in Nat /\ Prime(q)
  BY ContextIs
<1>4. /\ Omega \in Nat /\ HasOrder(Omega, n, q)
      /\ Inverted(Omega) \in Nat /\ HasOrder(Inverted(Omega), n, q)
  BY OmegaIs
<1> HIDE DEF h
<1>5. HasOrder(Omega, 2 * h, q) /\ HasOrder(Inverted(Omega), 2 * h, q)
  BY <1>2, <1>4
<1>6. QED
  BY <1>1, <1>2, <1>3, <1>4, <1>5, HalfTurn

\* n is no multiple of q, and NInv is its inverse.
LEMMA SizeIs ==
  ASSUME ctx \in Contexts, NaiveFits
  PROVE  NInv \in Nat /\ Congruent(n * NInv, 1, q)
<1>1. /\ q \in Nat /\ Prime(q) /\ q \in Nat \ {0, 1} /\ q \in Nat \ {0} /\ n \in Nat \ {0}
      /\ n \in Nat
  BY ContextIs
<1>2. Omega \in Nat /\ HasOrder(Omega, n, q) /\ ModPow(Omega, n, q) = 1
  BY OmegaIs
<1>3. \A j \in 1 .. n - 1 : ModPow(Omega, j, q) # 1
  BY <1>1, <1>2, OrderIs
<1>4. ModPow(Omega, q - 1, q) = 1
  <2>1. Omega % q # 0
    BY <1>1, <1>2, RootNotZero
  <2>2. QED
    BY <1>1, <1>2, <2>1, FermatModPow
<1>5. n < q
  <2>1. ~(q - 1 \in 1 .. n - 1)
    BY <1>3, <1>4
  <2>2. QED
    BY <1>1, <2>1
<1>6. n % q = n /\ n % q # 0
  <2>1. n \in 0 .. q - 1 /\ n = 0 * q + n /\ 0 \in Nat
    BY <1>1, <1>5
  <2>2. n % q = n
    BY <1>1, <2>1, ModUnique
  <2>3. QED
    BY <1>1, <2>2
<1>7. q - 2 \in Nat
  BY <1>1
<1>8. NInv = ModPow(n, q - 2, q)
  BY <1>6 DEF NInv, Inverted, Reduced
<1>9. MulMod(n, NInv, q) = 1
  BY <1>1, <1>6, <1>8, InverseIs
<1>10. NInv \in Nat
  BY <1>1, <1>7, <1>8, ModPowNat
<1>11. 1 % q = 1
  BY <1>1
<1>12. QED
  BY <1>9, <1>10, <1>11 DEF MulMod, Congruent

\* Psi and its inverse
LEMMA PsiIs ==
  ASSUME ctx \in Contexts
  PROVE  /\ Psi \in Nat /\ Inverted(Psi) \in Nat
         /\ ctx.type = "negacyclic" =>
              ModPow(Psi, n, q) = q - 1 /\ MulMod(Psi, Inverted(Psi), q) = 1
         /\ ctx.type # "negacyclic" => Psi = 0
<1> DEFINE x == ctx.psi % q
<1>1. /\ q \in Nat /\ Prime(q) /\ q \in Nat \ {0, 1} /\ q \in Nat \ {0} /\ n \in Nat \ {0}
      /\ ctx.psi \in Nat
  BY ContextIs
<1>2. Psi = x /\ x \in Nat /\ x % q = x
  <2>1. ctx.psi % q \in Nat /\ (ctx.psi % q) % q = ctx.psi % q
    BY <1>1, ReducedIs
  <2>2. QED
    BY <2>1 DEF Psi, Reduced
<1>3. q - 2 \in Nat
  BY <1>1
<1> HIDE DEF x
<1>4. Inverted(Psi) = ModPow(x, q - 2, q) /\ Inverted(Psi) \in Nat
  BY <1>1, <1>2, <1>3, ModPowNat DEF Inverted
<1>5. ASSUME ctx.type = "negacyclic"
      PROVE  ModPow(x, n, q) = q - 1 /\ MulMod(x, Inverted(Psi), q) = 1
  <2>1. HasOrder(ctx.psi, 2 * n, q)
    BY <1>5, ContextIs
  <2>2. HasOrder(x, 2 * n, q)
    BY <1>2, <2>1 DEF HasOrder, x
  <2>3. ModPow(x, n, q) = q - 1
    BY <1>1, <1>2, <2>2, HalfTurn
  <2>4. 2 * n \in Nat \ {0} /\ 2 * n \in Nat
    BY <1>1
  <2>5. ModPow(x, 2 * n, q) = 1
    BY <1>1, <1>2, <2>2, <2>4, OrderIs
  <2>6. x % q # 0
    BY <1>1, <1>2, <2>4, <2>5, RootNotZero
  <2>7. QED
    BY <1>1, <1>2, <1>4, <2>3, <2>6, InverseIs
<1>6. ASSUME ctx.type # "negacyclic"
      PROVE  Psi = 0
  <2>1. ctx.psi = 0
    BY <1>6, ContextIs
  <2>2. 0 % q = 0
    BY <1>1
  <2>3. QED
    BY <2>1, <2>2 DEF Psi, Reduced
<1>7. QED
  BY <1>2, <1>4, <1>5, <1>6

\* Twisting
LEMMA TwistedByIs ==
  ASSUME ctx \in Contexts, NEW c \in Vectors, NEW x \in Nat
  PROVE  /\ TwistedBy(c, x) \in Vectors
         /\ \A i \in Indices : TwistedBy(c, x)[i] = MulMod(c[i], ModPow(x, i, q), q)
<1>1. q \in Nat \ {0, 1} /\ q \in Nat \ {0}
  BY ContextIs
<1>2. \A i \in Indices : MulMod(c[i], ModPow(x, i, q), q) \in 0 .. q - 1
  <2> SUFFICES ASSUME NEW i \in Indices
               PROVE  MulMod(c[i], ModPow(x, i, q), q) \in 0 .. q - 1
    OBVIOUS
  <2>1. c[i] \in Nat /\ i \in Nat
    BY VectorIs
  <2>2. ModPow(x, i, q) \in Nat
    BY <1>1, <2>1, ModPowNat
  <2>3. QED
    BY <1>1, <2>1, <2>2, MulModType
<1>3. QED
  BY <1>2 DEF TwistedBy, Vectors

\* Twisting by inverse powers takes the twist back.
LEMMA TwistBack ==
  ASSUME ctx \in Contexts, NEW a \in Nat, NEW i \in Nat, a % q = a,
         NEW x \in Nat, NEW y \in Nat, i = 0 \/ a = 0 \/ MulMod(x, y, q) = 1
  PROVE  MulMod(MulMod(a, ModPow(x, i, q), q), ModPow(y, i, q), q) = a
<1> DEFINE b == ModPow(x, i, q)
           c == ModPow(y, i, q)
<1>1. q \in Nat \ {0, 1} /\ q \in Nat \ {0}
  BY ContextIs
<1>2. b \in Nat
  BY <1>1, ModPowNat
<1>3. c \in Nat
  BY <1>1, ModPowNat
<1>4. a # 0 => MulMod(b, c, q) = 1
  <2>1. CASE i = 0
    <3>1. b = 1 /\ c = 1
      BY <1>1, <2>1, ModPowType
    <3>2. 1 * 1 = 1 /\ 1 % q = 1
      BY <1>1
    <3>3. QED
      BY <3>1, <3>2 DEF MulMod
  <2>2. CASE MulMod(x, y, q) = 1
    BY <1>1, <2>2, InversePowers
  <2>3. QED
    BY <2>1, <2>2
<1> HIDE DEF b, c
<1>5. MulMod(MulMod(a, b, q), c, q) = MulMod(a, MulMod(b, c, q), q)
  BY <1>1, <1>2, <1>3, MulModRing
<1>6. CASE a = 0
  <2> DEFINE d == MulMod(b, c, q)
  <2>1. d \in Nat
    BY <1>1, <1>2, <1>3, MulModCongruent
  <2> HIDE DEF d
  <2>2. 0 * d = 0 /\ 0 % q = 0
    BY <1>1, <2>1
  <2>3. QED
    BY <1>5, <1>6, <2>2 DEF MulMod, b, c, d
<1>7. CASE a # 0
  <2>1. MulMod(a, 1, q) = a
    BY <1>1, MulModRing
  <2>2. QED
    BY <1>4, <1>5, <1>7, <2>1 DEF b, c
<1>8. QED
  BY <1>6, <1>7

\* What the inverse transforms return: the factor n cancels.
LEMMA UnscaleIs ==
  ASSUME ctx \in Contexts, NaiveFits, NEW a \in Nat, NEW z \in Nat
  PROVE  Dec(Mul(Enc(n * a), Enc(NInv * z))) = MulMod(a, z, q)
<1> DEFINE l == n * NInv
           c == (n * a) * (NInv * z)
           d == a * z
<1>1. q \in Nat \ {0} /\ n \in Nat
  BY ContextIs
<1>2. NInv \in Nat /\ Congruent(l, 1, q)
  BY SizeIs
<1>3. c = d * l /\ d * 1 = d /\ d \in Nat /\ l \in Nat
  BY <1>1, <1>2
<1>4. n * a \in Nat /\ NInv * z \in Nat
  BY <1>1, <1>2
<1>5. c \in Nat
  BY <1>4
<1>6. Dec(Mul(Enc(n * a), Enc(NInv * z))) = c % q
  <2>1. Mul(Enc(n * a), Enc(NInv * z)) = Enc(c)
    BY <1>4, EncMul
  <2> HIDE DEF c
  <2>2. Dec(Enc(c)) = c % q
    BY <1>5, EncDec
  <2>3. QED
    BY <2>1, <2>2
<1> HIDE DEF c, d, l
<1>7. Congruent(d * l, d * 1, q)
  BY <1>1, <1>2, <1>3, CongruentTimes
<1>8. c % q = d % q
  BY <1>3, <1>7 DEF Congruent
<1>9. QED
  BY <1>6, <1>8 DEF MulMod, d

-----------------------------------------------------------------------------
(***************************************************************************)
(* Products                                                                *)
(***************************************************************************)

\* The product of the constant terms, all that psi = 0 leaves of two polynomials
ConstantProduct(v, w) == [k \in Indices |-> IF k = 0 THEN MulMod(v[0], w[0], q) ELSE 0]

\* What ntt_negacyclic_mul makes of the coefficients
Product(v, w) ==
  IF ctx.type = "negacyclic" THEN NegacyclicProduct(v, w) ELSE ConstantProduct(v, w)

\* The rows of the product modulo x^n + 1, and its type
LEMMA NegacyclicProductType ==
  ASSUME ctx \in Contexts, NEW a \in Vectors, NEW b \in Vectors
  PROVE  /\ NegacyclicProduct(a, b) \in Vectors
         /\ \E T : IsRows(T, a, b, n, q) /\ AreTotals(NegacyclicProduct(a, b), T, n, q)
<1> DEFINE c == NegacyclicProduct(a, b)
           T == [k \in Indices |->
                   [i \in Indices |->
                      IF i <= k THEN a[i] * b[k - i] ELSE (q - 1) * a[i] * b[n + k - i]]]
<1>1. q \in Nat \ {0, 1} /\ q \in Nat \ {0} /\ n \in Nat /\ Indices = 0 .. n - 1
  BY ContextIs DEF Indices
<1>2. Summable(a, n) /\ Summable(b, n)
  BY VectorIs
<1>3. IsRows(T, a, b, n, q)
  BY <1>1 DEF IsRows, Summand
<1>4. c = [k \in Indices |-> Total(T[k], n) % q]
  BY DEF NegacyclicProduct
<1> HIDE DEF T, c
<1>5. AreTotals(c, T, n, q)
  BY <1>1, <1>4 DEF AreTotals
<1>6. \A k \in Indices : c[k] \in 0 .. q - 1
  <2> SUFFICES ASSUME NEW k \in Indices
               PROVE  c[k] \in 0 .. q - 1
    OBVIOUS
  <2>1. c[k] = Total(T[k], n) % q
    BY <1>4
  <2>2. \A i \in 0 .. n - 1 : T[k][i] = Summand(a, b, i, k, n, q)
    BY <1>1, <1>3 DEF IsRows
  <2>3. \A i \in 0 .. n - 1 : Summand(a, b, i, k, n, q) \in Nat
    <3> SUFFICES ASSUME NEW i \in 0 .. n - 1
                 PROVE  Summand(a, b, i, k, n, q) \in Nat
      OBVIOUS
    <3>1. k \in 0 .. n - 1 /\ a[i] \in Nat /\ \A j \in 0 .. n - 1 : b[j] \in Nat
      BY <1>1, <1>2 DEF Summable
    <3>2. CASE i <= k
      <4>1. b[k - i] \in Nat
        BY <1>1, <3>1, <3>2
      <4>2. QED
        BY <3>1, <3>2, <4>1 DEF Summand
    <3>3. CASE ~(i <= k)
      <4>1. b[n + k - i] \in Nat /\ q - 1 \in Nat
        BY <1>1, <3>1, <3>3
      <4>2. (q - 1) * a[i] \in Nat
        BY <3>1, <4>1
      <4>3. QED
        BY <3>3, <4>1, <4>2 DEF Summand
    <3>4. QED
      BY <3>2, <3>3
  <2>4. Summable(T[k], n)
    BY <2>2, <2>3 DEF Summable
  <2>5. Total(T[k], n) \in Nat
    BY <1>1, <2>4, TotalNat
  <2>6. QED
    BY <1>1, <2>1, <2>5, ModIdempotent
<1>7. c \in Vectors
  BY <1>4, <1>6 DEF Vectors
<1>8. QED
  BY <1>3, <1>5, <1>7 DEF c

\* The product modulo x^n + 1 has the product of the values at a root of x^n + 1.
LEMMA NegacyclicProductIs ==
  ASSUME ctx \in Contexts, NEW a \in Vectors, NEW b \in Vectors,
         NEW y \in Nat, ModPow(y, n, q) = q - 1
  PROVE  /\ NegacyclicProduct(a, b) \in Vectors
         /\ Congruent(Value(NegacyclicProduct(a, b), n, y, q),
                      Value(a, n, y, q) * Value(b, n, y, q), q)
<1> DEFINE c == NegacyclicProduct(a, b)
<1>1. q \in Nat \ {0, 1} /\ n \in Nat
  BY ContextIs
<1>2. Summable(a, n) /\ Summable(b, n)
  BY VectorIs
<1> HIDE DEF c
<1>3. c \in Vectors /\ \E T : IsRows(T, a, b, n, q) /\ AreTotals(c, T, n, q)
  BY NegacyclicProductType DEF c
<1>4. Congruent(Value(c, n, y, q), Value(a, n, y, q) * Value(b, n, y, q), q)
  BY <1>1, <1>2, <1>3, ConvolutionValue
<1>5. QED
  BY <1>3, <1>4 DEF c

\* The constant terms only
LEMMA ConstantProductIs ==
  ASSUME ctx \in Contexts, NEW a \in Vectors, NEW b \in Vectors
  PROVE  /\ ConstantProduct(a, b) \in Vectors
         /\ Congruent(Value(ConstantProduct(a, b), n, 0, q),
                      Value(a, n, 0, q) * Value(b, n, 0, q), q)
         /\ \A i \in Indices : i # 0 => ConstantProduct(a, b)[i] = 0
<1> DEFINE c == ConstantProduct(a, b)
<1>1. /\ q \in Nat \ {0, 1} /\ q \in Nat \ {0} /\ n \in Nat \ {0} /\ Indices = 0 .. n - 1
      /\ 0 \in Indices
  BY ContextIs DEF Indices
<1>2. Summable(a, n) /\ Summable(b, n) /\ a[0] \in Nat /\ b[0] \in Nat
  BY <1>1, VectorIs
<1>3. c[0] = MulMod(a[0], b[0], q) /\ \A i \in Indices : i # 0 => c[i] = 0
  BY <1>1 DEF ConstantProduct
<1>4. MulMod(a[0], b[0], q) \in 0 .. q - 1
  BY <1>1, <1>2, MulModType
<1>5. \A i \in Indices : c[i] \in 0 .. q - 1
  BY <1>1, <1>3, <1>4
<1>6. c \in Vectors
  BY <1>5 DEF ConstantProduct, Vectors
<1> HIDE DEF c
<1>7. Summable(c, n)
  BY <1>6, VectorIs
<1>8. Value(a, n, 0, q) = a[0] /\ Value(b, n, 0, q) = b[0]
  BY <1>1, <1>2, ValueAtZero
<1>9. Value(c, n, 0, q) = c[0]
  BY <1>1, <1>7, ValueAtZero
<1>10. Congruent(MulMod(a[0], b[0], q), a[0] * b[0], q)
  BY <1>1, <1>2, MulModCongruent
<1>11. QED
  BY <1>3, <1>6, <1>8, <1>9, <1>10 DEF c

\* The twisted product takes the products of the values of the twisted operands.
LEMMA ProductValues ==
  ASSUME ctx \in Contexts, NEW a \in Vectors, NEW b \in Vectors,
         NEW z \in Nat, ModPow(z, n, q) = 1
  PROVE  /\ Product(a, b) \in Vectors
         /\ Congruent(Value(TwistedBy(Product(a, b), Psi), n, z, q),
                      Value(TwistedBy(a, Psi), n, z, q) * Value(TwistedBy(b, Psi), n, z, q), q)
<1> DEFINE c == Product(a, b)
           y == MulMod(Psi, z, q)
           A == Value(a, n, y, q)
           B == Value(b, n, y, q)
           C == Value(c, n, y, q)
           X == Value(TwistedBy(a, Psi), n, z, q)
           Y == Value(TwistedBy(b, Psi), n, z, q)
           Z == Value(TwistedBy(c, Psi), n, z, q)
<1>1. q \in Nat \ {0, 1} /\ q \in Nat \ {0} /\ n \in Nat
  BY ContextIs
<1>2. Psi \in Nat
  BY PsiIs
<1>3. y \in Nat
  BY <1>1, <1>2, MulModCongruent
<1>4. c \in Vectors /\ Congruent(C, A * B, q)
  <2>1. CASE ctx.type = "negacyclic"
    <3>1. ModPow(Psi, n, q) = q - 1
      BY <2>1, PsiIs
    <3>2. ModPow(y, n, q) = MulMod(q - 1, 1, q)
      BY <1>1, <1>2, <3>1, ModPowOfProduct
    <3>3. MulMod(q - 1, 1, q) = q - 1
      BY <1>1 DEF MulMod
    <3>4. c = NegacyclicProduct(a, b)
      BY <2>1 DEF Product
    <3> HIDE DEF y, c
    <3>5. QED
      BY <1>3, <3>2, <3>3, <3>4, NegacyclicProductIs
  <2>2. CASE ctx.type # "negacyclic"
    <3>1. Psi = 0
      BY <2>2, PsiIs
    <3>2. y = 0
      <4>1. 0 * z = 0 /\ 0 % q = 0
        BY <1>1
      <4>2. QED
        BY <3>1, <4>1 DEF MulMod
    <3>3. c = ConstantProduct(a, b)
      BY <2>2 DEF Product
    <3> HIDE DEF y, c
    <3>4. QED
      BY <3>2, <3>3, ConstantProductIs
  <2>3. QED
    BY <2>1, <2>2
<1> HIDE DEF c
<1>5. ASSUME NEW v \in Vectors
      PROVE  /\ Congruent(Value(TwistedBy(v, Psi), n, z, q), Value(v, n, y, q), q)
             /\ Value(TwistedBy(v, Psi), n, z, q) \in Nat /\ Value(v, n, y, q) \in Nat
  <2>1. Summable(v, n)
    BY VectorIs
  <2>2. \A i \in 0 .. n - 1 : TwistedBy(v, Psi)[i] = MulMod(v[i], ModPow(Psi, i, q), q)
    BY <1>2, TwistedByIs DEF Indices
  <2> DEFINE g == TwistedBy(v, Psi)
  <2> HIDE DEF g
  <2>3. Summable(g, n) /\ Congruent(Value(g, n, z, q), Value(v, n, y, q), q)
    BY <1>1, <1>2, <2>1, <2>2, ValueTwisted DEF g
  <2>4. Value(g, n, z, q) \in Nat
    BY <1>1, <2>3, ValueNat
  <2> HIDE DEF y
  <2>5. Value(v, n, y, q) \in Nat
    BY <1>1, <1>3, <2>1, ValueNat
  <2>6. QED
    BY <2>3, <2>4, <2>5 DEF g
<1>6. Congruent(X, A, q) /\ X \in Nat /\ A \in Nat
  BY <1>5
<1>7. Congruent(Y, B, q) /\ Y \in Nat /\ B \in Nat
  BY <1>5
<1>8. Congruent(Z, C, q)
  BY <1>4, <1>5
<1> HIDE DEF X, Y, Z, A, B, C
<1>9. Congruent(A, X, q) /\ Congruent(B, Y, q)
  BY <1>6, <1>7, CongruentSym
<1>10. Congruent(A * B, X * B, q) /\ Congruent(X * B, X * Y, q)
  BY <1>1, <1>6, <1>7, <1>9, CongruentTimes
<1>11. Congruent(Z, X * Y, q)
  <2>1. Congruent(Z, A * B, q)
    BY <1>4, <1>8, CongruentTrans
  <2>2. Congruent(A * B, X * Y, q)
    BY <1>10, CongruentTrans
  <2>3. QED
    BY <2>1, <2>2, CongruentTrans
<1>12. QED
  BY <1>4, <1>11 DEF c, X, Y, Z

\* The same of their transforms
LEMMA ProductTransform ==
  ASSUME ctx \in Contexts, NaiveFits, NEW a \in Vectors, NEW b \in Vectors, NEW i \in Indices
  PROVE  Dft(TwistedBy(Product(a, b), Psi), n, Omega)[i]
           = MulMod(Dft(TwistedBy(a, Psi), n, Omega)[i],
                    Dft(TwistedBy(b, Psi), n, Omega)[i], q)
<1> DEFINE z == ModPow(Omega, i, q)
           c == Product(a, b)
           X == Value(TwistedBy(a, Psi), n, z, q)
           Y == Value(TwistedBy(b, Psi), n, z, q)
           Z == Value(TwistedBy(c, Psi), n, z, q)
<1>1. q \in Nat \ {0, 1} /\ q \in Nat \ {0} /\ n \in Nat /\ i \in Nat
  BY ContextIs DEF Indices
<1>2. Omega \in Nat /\ ModPow(Omega, n, q) = 1 /\ Psi \in Nat
  BY OmegaIs, PsiIs
<1>3. z \in Nat /\ ModPow(z, n, q) = 1
  <2>1. z \in Nat
    BY <1>1, <1>2, ModPowNat
  <2>2. ModPow(z, n, q) = 1
    BY <1>1, <1>2, RootPeriod
  <2>3. QED
    BY <2>1, <2>2
<1>4. c \in Vectors /\ Congruent(Z, X * Y, q)
  <2> HIDE DEF z
  <2>1. QED
    BY <1>3, ProductValues
<1>5. ASSUME NEW v \in Vectors
      PROVE  /\ Dft(TwistedBy(v, Psi), n, Omega)[i] = Value(TwistedBy(v, Psi), n, z, q) % q
             /\ Value(TwistedBy(v, Psi), n, z, q) \in Nat
  <2> DEFINE g == TwistedBy(v, Psi)
  <2>1. g \in Vectors
    BY <1>2, TwistedByIs
  <2> HIDE DEF g
  <2>2. Summable(g, n)
    BY <2>1, VectorIs
  <2>3. QED
    BY <1>2, <2>2, DftIs DEF g
<1> HIDE DEF c
<1>6. /\ Dft(TwistedBy(a, Psi), n, Omega)[i] = X % q /\ X \in Nat
      /\ Dft(TwistedBy(b, Psi), n, Omega)[i] = Y % q /\ Y \in Nat
      /\ Dft(TwistedBy(c, Psi), n, Omega)[i] = Z % q
  BY <1>4, <1>5
<1> HIDE DEF X, Y, Z
<1>7. MulMod(X % q, Y % q, q) = MulMod(X, Y, q)
  BY <1>1, <1>6, ModMulBoth DEF MulMod
<1>8. Z % q = MulMod(X, Y, q)
  BY <1>4 DEF Congruent, MulMod
<1>9. QED
  BY <1>6, <1>7, <1>8 DEF c

-----------------------------------------------------------------------------
(***************************************************************************)
(* The loops over the stages                                               *)
(***************************************************************************)

\* The blocks of size s are M; both are powers of two.
Sizes(s, M) == \E j \in Nat, k \in Nat : n = 2^(j + k) /\ s = 2^j /\ M = 2^k

\* A stage of decimation in time comes next, with blocks of this size to make.
TimeReached(v, size, root, c) ==
  \E s, M : Sizes(s, M) /\ size = 2 * s /\ Blocks(v, ctx, s, root, c, 1)

\* A stage of decimation in frequency comes next, with blocks of this size to halve.
FrequencyReached(v, size, root, c) ==
  \E M : Sizes(size, M) /\ Blocks(v, ctx, size, root, c, M)

\* What Sizes says of the two numbers
LEMMA SizesRange ==
  ASSUME NEW s, NEW M, Sizes(s, M)
  PROVE  s \in Nat \ {0} /\ M \in Nat \ {0} /\ n = s * M /\ s <= n
<1>1. PICK j \in Nat, k \in Nat : n = 2^(j + k) /\ s = 2^j /\ M = 2^k
  BY DEF Sizes
<1>2. s \in Nat \ {0} /\ M \in Nat \ {0}
  BY <1>1, PowersOfTwo
<1>3. n = s * M
  BY <1>1, TwoPowSum
<1>4. s * M >= s
  <2>1. PICK l \in Nat : M = l + 1
    <3>1. M - 1 \in Nat /\ M = (M - 1) + 1
      BY <1>2
    <3>2. QED
      BY <3>1
  <2>2. s * (l + 1) = s * l + s /\ s * l \in Nat
    BY <1>2, <2>1
  <2>3. QED
    BY <1>2, <2>1, <2>2
<1>5. QED
  BY <1>2, <1>3, <1>4

\* One block, or as many as there are places
LEMMA SizesEnds ==
  ASSUME ctx \in Contexts
  PROVE  Sizes(1, n) /\ Sizes(n, 1)
<1>1. PICK k \in Nat : n = 2^k
  BY ContextIs
<1>2. 2^0 = 1 /\ 0 \in Nat /\ 0 + k = k /\ k + 0 = k
  BY <1>1, TwoPowSum
<1>3. QED
  BY <1>1, <1>2 DEF Sizes

\* The block size that a stage of decimation in time makes
LEMMA SizesUp ==
  ASSUME ctx \in Contexts, NEW s, NEW M, Sizes(s, M), 2 * s <= n
  PROVE  \E j \in Nat, k \in Nat, L \in Nat : Staged(j, k, n, s, L) /\ Sizes(2 * s, L)
<1>1. PICK j \in Nat, k \in Nat : n = 2^(j + k) /\ s = 2^j /\ M = 2^k
  BY DEF Sizes
<1>2. s \in Nat \ {0}
  BY <1>1, PowersOfTwo
<1>3. k # 0
  <2>1. SUFFICES ASSUME k = 0
                 PROVE  FALSE
    OBVIOUS
  <2>2. n = s
    BY <1>1, <2>1
  <2>3. QED
    BY <1>2, <2>2
<1> DEFINE l == k - 1
<1>4. l \in Nat /\ j + k = (j + 1) + l
  BY <1>3
<1> HIDE DEF l
<1>5. n = 2^((j + 1) + l)
  BY <1>1, <1>4
<1>6. Staged(j, l, n, s, 2^l)
  BY <1>1, <1>5 DEF Staged
<1>7. 2^(j + 1) = 2 * s /\ j + 1 \in Nat
  BY <1>1, PowersOfTwo
<1>8. Sizes(2 * s, 2^l) /\ 2^l \in Nat
  BY <1>4, <1>5, <1>7, PowersOfTwo DEF Sizes
<1>9. QED
  BY <1>4, <1>6, <1>8

\* After the last stage there is one block.
LEMMA SizesLast ==
  ASSUME ctx \in Contexts, NEW s, NEW M, Sizes(s, M), 2 * s > n
  PROVE  s = n /\ M = 1
<1>1. PICK j \in Nat, k \in Nat : n = 2^(j + k) /\ s = 2^j /\ M = 2^k
  BY DEF Sizes
<1>2. s \in Nat \ {0} /\ n = s * M /\ M \in Nat \ {0}
  BY SizesRange
<1>3. k = 0
  <2>1. SUFFICES ASSUME k # 0
                 PROVE  FALSE
    OBVIOUS
  <2> DEFINE l == k - 1
             L == 2^l
  <2>2. l \in Nat /\ k = l + 1
    BY <2>1
  <2> HIDE DEF l
  <2>3. L \in Nat \ {0} /\ M = 2 * L
    BY <1>1, <2>2, PowersOfTwo
  <2> HIDE DEF L
  <2>4. PICK d \in Nat : L = d + 1
    <3>1. L - 1 \in Nat /\ L = (L - 1) + 1
      BY <2>3
    <3>2. QED
      BY <3>1
  <2>5. n = s * (2 * (d + 1))
    BY <1>2, <2>3, <2>4
  <2>6. s * (2 * (d + 1)) = 2 * s + 2 * (s * d) /\ s * d \in Nat
    BY <1>2, <2>4
  <2>7. QED
    BY <1>2, <2>5, <2>6
<1>4. M = 1
  BY <1>1, <1>3, TwoPowSum
<1>5. QED
  BY <1>2, <1>4

\* The block size that a stage of decimation in frequency leaves
LEMMA SizesDown ==
  ASSUME ctx \in Contexts, NEW s, NEW M, Sizes(s, M), s >= 2
  PROVE  \E j \in Nat, k \in Nat, t \in Nat :
           Staged(j, k, n, t, M) /\ s = 2 * t /\ s \div 2 = t /\ Sizes(t, 2 * M)
<1>1. PICK j \in Nat, k \in Nat : n = 2^(j + k) /\ s = 2^j /\ M = 2^k
  BY DEF Sizes
<1>2. j # 0
  <2>1. 2^0 = 1
    BY TwoPowSum
  <2>2. SUFFICES ASSUME j = 0
                 PROVE  FALSE
    OBVIOUS
  <2>3. s = 1
    BY <1>1, <2>1, <2>2
  <2>4. QED
    BY <2>3
<1> DEFINE l == j - 1
           t == 2^l
<1>3. l \in Nat /\ j = l + 1 /\ k + 1 \in Nat /\ l + (k + 1) = (l + 1) + k
  BY <1>2
<1> HIDE DEF l
<1>4. t \in Nat \ {0} /\ s = 2 * t /\ 2^(k + 1) = 2 * M
  BY <1>1, <1>3, PowersOfTwo
<1>5. n = 2^((l + 1) + k)
  BY <1>1, <1>3
<1>6. Staged(l, k, n, t, M)
  BY <1>1, <1>5 DEF Staged
<1>7. n = 2^(l + (k + 1))
  BY <1>3, <1>5
<1>8. Sizes(t, 2 * M)
  BY <1>3, <1>4, <1>7 DEF Sizes
<1> HIDE DEF t
<1>9. s \div 2 = t
  BY <1>4
<1>10. QED
  BY <1>3, <1>4, <1>6, <1>8, <1>9

\* Blocks of one place are as many as the places.
LEMMA SizesFirst ==
  ASSUME ctx \in Contexts, NEW s, NEW M, Sizes(s, M), s < 2
  PROVE  s = 1 /\ M = n
<1>1. s \in Nat \ {0} /\ M \in Nat \ {0} /\ n = s * M
  BY SizesRange
<1>2. s = 1
  BY <1>1
<1>3. QED
  BY <1>1, <1>2

\* What the blocks around a stage hold are numbers.
LEMMA EntryNat ==
  ASSUME ctx \in Contexts, NEW j \in Nat, NEW k \in Nat, NEW s, NEW M, Staged(j, k, n, s, M),
         NEW x \in Nat, ModPow(x, n \div 2, q) = q - 1, NEW c, Summable(c, n),
         NEW i \in Indices
  PROVE  Entry(c, n, s, x, i, q) \in Nat /\ Entry(c, n, 2 * s, x, i, q) \in Nat
<1>1. s \in Nat \ {0} /\ M \in Nat \ {0} /\ Places(n, s, M)
  BY StageSizes
<1>2. q \in Nat \ {0, 1} /\ n \in Nat /\ i \in 0 .. n - 1
  BY ContextIs DEF Indices
<1>3. PICK u \in 0 .. M - 1, t \in 0 .. s - 1, h \in 0 .. n - 1 : Butterfly(i, h, u, t, s, n)
  BY <1>1, <1>2, ButterflyOf
<1>4. Upper(h, u, s, t) /\ (i = h \/ i = h + s)
  BY <1>3 DEF Butterfly
<1> DEFINE w == ModPow(ModPow(x, n \div (2 * s), q), t, q)
<1>5. /\ Entry(c, n, s, x, h, q) \in Nat /\ Entry(c, n, s, x, h + s, q) \in Nat
      /\ Entry(c, n, 2 * s, x, h, q) \in Nat /\ Entry(c, n, 2 * s, x, h + s, q) \in Nat
  <2>1. w = ModPow(ModPow(x, n \div (2 * s), q), t, q)
    OBVIOUS
  <2> HIDE DEF w
  <2>2. QED
    BY <1>2, <1>4, <2>1, Combine
<1>6. QED
  BY <1>4, <1>5

\* A root that the loops run with
Usable(root) == root \in Nat /\ (root = Omega \/ root = Inverted(Omega))

\* The loop of decimation in time starts.
LEMMA TimeReachedFirst ==
  ASSUME ctx \in Contexts, NEW root \in Nat, NEW c \in Vectors,
         NEW v \in Vectors, \A i \in Indices : v[i] = Enc(c[i])
  PROVE  TimeReached(Permute(v), 2, root, c) /\ Permute(v) \in Vectors
<1>1. Summable(c, n)
  BY VectorIs
<1>2. Blocks(Permute(v), ctx, 1, root, c, 1)
  BY <1>1, TimeStart
<1>3. Sizes(1, n) /\ 2 = 2 * 1
  BY SizesEnds
<1>4. TimeReached(Permute(v), 2, root, c)
  BY <1>2, <1>3 DEF TimeReached
<1>5. PICK k \in Nat : n = 2^k
  BY ContextIs
<1>6. \A i \in Indices : v[Bitrev[i]] \in 0 .. q - 1
  BY <1>5, BitrevIs, RevInvolution DEF Indices, Vectors
<1>7. Permute(v) \in Vectors
  BY <1>6 DEF Permute, Vectors
<1>8. QED
  BY <1>4, <1>7

\* One stage of it
LEMMA TimeReachedNext ==
  ASSUME ctx \in Contexts, NaiveFits, NEW root, Usable(root), NEW c \in Vectors,
         NEW v, NEW size, TimeReached(v, size, root, c), size <= n
  PROVE  /\ TimeReached(DecimateInTime(v, size, root), 2 * size, root, c)
         /\ DecimateInTime(v, size, root) \in Vectors
<1> DEFINE d == DecimateInTime(v, size, root)
<1>1. PICK s, M : Sizes(s, M) /\ size = 2 * s /\ Blocks(v, ctx, s, root, c, 1)
  BY DEF TimeReached
<1>2. PICK j \in Nat, k \in Nat, L \in Nat : Staged(j, k, n, s, L) /\ Sizes(2 * s, L)
  BY <1>1, SizesUp
<1>3. Summable(c, n)
  BY VectorIs
<1>4. root \in Nat /\ ModPow(root, n \div 2, q) = q - 1
  BY <1>2, HalfTurns DEF Usable
<1>5. Blocks(d, ctx, 2 * s, root, c, 1)
  BY <1>1, <1>2, <1>3, <1>4, TimeStage
<1>6. d = [i \in Indices |-> d[i]]
  BY DEF DecimateInTime
<1> HIDE DEF d
<1>7. \A i \in Indices : d[i] \in 0 .. q - 1
  <2> SUFFICES ASSUME NEW i \in Indices
               PROVE  d[i] \in 0 .. q - 1
    OBVIOUS
  <2> DEFINE e == Entry(c, n, 2 * s, root, i, q)
  <2>1. e \in Nat
    BY <1>2, <1>3, <1>4, EntryNat
  <2>2. i \in 0 .. ctx.n - 1
    BY DEF Indices, n
  <2>3. d[i] = Enc(1 * e)
    BY <1>5, <2>2 DEF Blocks, Enc, n, q
  <2> HIDE DEF e
  <2>4. 1 * e \in Nat
    BY <2>1
  <2>5. QED
    BY <2>3, <2>4, EncType
<1>8. d \in Vectors
  BY <1>6, <1>7 DEF Vectors
<1>9. TimeReached(d, 2 * size, root, c)
  <2>1. 2 * size = 2 * (2 * s)
    BY <1>1
  <2>2. QED
    BY <1>2, <1>5, <2>1 DEF TimeReached
<1>10. QED
  BY <1>8, <1>9 DEF d

\* The loop is over.
LEMMA TimeReachedLast ==
  ASSUME ctx \in Contexts, NEW root, NEW c, NEW v, NEW size,
         TimeReached(v, size, root, c), size > n
  PROVE  Blocks(v, ctx, n, root, c, 1)
<1>1. PICK s, M : Sizes(s, M) /\ size = 2 * s /\ Blocks(v, ctx, s, root, c, 1)
  BY DEF TimeReached
<1>2. s = n
  BY <1>1, SizesLast
<1>3. QED
  BY <1>1, <1>2

\* The bounds of its counter
LEMMA TimeReachedRange ==
  ASSUME ctx \in Contexts, NEW root, NEW c, NEW v, NEW size, TimeReached(v, size, root, c)
  PROVE  size \in 0 .. 2 * n /\ 2 * size \in Nat
<1>1. PICK s, M : Sizes(s, M) /\ size = 2 * s
  BY DEF TimeReached
<1>2. s \in Nat \ {0} /\ s <= n /\ n \in Nat
  BY <1>1, SizesRange, ContextIs
<1>3. QED
  BY <1>1, <1>2

\* The loop of decimation in frequency starts.
LEMMA FrequencyReachedFirst ==
  ASSUME ctx \in Contexts, NEW root \in Nat, NEW c \in Vectors,
         NEW v, \A i \in Indices : v[i] = Enc(Dft(c, n, root)[i])
  PROVE  FrequencyReached(v, n, root, c)
<1>1. Summable(c, n)
  BY VectorIs
<1>2. Blocks(v, ctx, n, root, c, 1)
  BY <1>1, FrequencyStart
<1>3. Sizes(n, 1)
  BY SizesEnds
<1>4. QED
  BY <1>2, <1>3 DEF FrequencyReached

\* One stage of it
LEMMA FrequencyReachedNext ==
  ASSUME ctx \in Contexts, NaiveFits, NEW c \in Vectors,
         NEW v, NEW size, FrequencyReached(v, size, Omega, c), size >= 2
  PROVE  /\ FrequencyReached(DecimateInFrequency(v, size, Inverted(Omega)), size \div 2, Omega, c)
         /\ DecimateInFrequency(v, size, Inverted(Omega)) \in Vectors
<1> DEFINE y == Inverted(Omega)
           d == DecimateInFrequency(v, size, y)
<1>1. PICK M : Sizes(size, M) /\ Blocks(v, ctx, size, Omega, c, M)
  BY DEF FrequencyReached
<1>2. PICK j \in Nat, k \in Nat, s \in Nat :
           Staged(j, k, n, s, M) /\ size = 2 * s /\ size \div 2 = s /\ Sizes(s, 2 * M)
  BY <1>1, SizesDown
<1>3. Summable(c, n)
  BY VectorIs
<1>4. Omega \in Nat /\ y \in Nat /\ MulMod(Omega, y, q) = 1
  BY OmegaIs
<1>5. ModPow(Omega, n \div 2, q) = q - 1
  BY <1>2, HalfTurns
<1>6. M \in Nat /\ 2 * M \in Nat
  <2>1. M \in Nat \ {0}
    BY <1>1, SizesRange
  <2>2. QED
    BY <2>1
<1>7. d = [i \in Indices |-> d[i]]
  BY DEF DecimateInFrequency
<1> HIDE DEF y
<1>8. Blocks(d, ctx, s, Omega, c, 2 * M)
  BY <1>1, <1>2, <1>3, <1>4, <1>5, <1>6, FrequencyStage
<1> HIDE DEF d
<1>9. \A i \in Indices : d[i] \in 0 .. q - 1
  <2> SUFFICES ASSUME NEW i \in Indices
               PROVE  d[i] \in 0 .. q - 1
    OBVIOUS
  <2> DEFINE e == Entry(c, n, s, Omega, i, q)
             l == 2 * M
  <2>1. e \in Nat
    BY <1>2, <1>3, <1>4, <1>5, EntryNat
  <2>2. i \in 0 .. ctx.n - 1
    BY DEF Indices, n
  <2>3. d[i] = Enc(l * e)
    BY <1>8, <2>2 DEF Blocks, Enc, n, q
  <2>4. l \in Nat
    BY <1>6
  <2> HIDE DEF e, l
  <2>5. l * e \in Nat
    BY <2>1, <2>4
  <2>6. QED
    BY <2>3, <2>5, EncType
<1>10. d \in Vectors
  BY <1>7, <1>9 DEF Vectors
<1>11. FrequencyReached(d, size \div 2, Omega, c)
  BY <1>2, <1>8 DEF FrequencyReached
<1>12. QED
  BY <1>10, <1>11 DEF d, y

\* The loop is over.
LEMMA FrequencyReachedLast ==
  ASSUME ctx \in Contexts, NEW root, NEW c, NEW v, NEW size,
         FrequencyReached(v, size, root, c), size < 2
  PROVE  Blocks(v, ctx, 1, root, c, n)
<1>1. PICK M : Sizes(size, M) /\ Blocks(v, ctx, size, root, c, M)
  BY DEF FrequencyReached
<1>2. size = 1 /\ M = n
  BY <1>1, SizesFirst
<1>3. QED
  BY <1>1, <1>2

\* The bounds of its counter
LEMMA FrequencyReachedRange ==
  ASSUME ctx \in Contexts, NEW root, NEW c, NEW v, NEW size, FrequencyReached(v, size, root, c)
  PROVE  size \in 0 .. 2 * n
<1>1. PICK M : Sizes(size, M)
  BY DEF FrequencyReached
<1>2. size \in Nat \ {0} /\ size <= n /\ n \in Nat
  BY <1>1, SizesRange, ContextIs
<1>3. QED
  BY <1>2

-----------------------------------------------------------------------------
(***************************************************************************)
(* The arrays that calls start from and return                             *)
(***************************************************************************)

\* Equal at every index
LEMMA SameVector ==
  ASSUME NEW v \in Vectors, NEW w, w = [i \in Indices |-> w[i]], \A i \in Indices : w[i] = v[i]
  PROVE  w = v
BY DEF Vectors

\* The toy and naive adapters encode nothing.
LEMMA PlainIs ==
  ASSUME ctx \in Contexts, ctx.adapter # "scalar", NEW a \in Nat, a % q = a
  PROVE  Enc(a) = a
<1>1. ctx.radix = 1
  BY ContextIs
<1>2. a * 1 = a
  OBVIOUS
<1>3. QED
  BY <1>1, <1>2 DEF Enc, MulMod

\* Encoding an array
LEMMA EncodedIs ==
  ASSUME ctx \in Contexts, NEW v \in Vectors
  PROVE  /\ Encoded(v) \in Vectors
         /\ \A i \in Indices : Encoded(v)[i] = Enc(v[i])
         /\ ctx.adapter # "scalar" => \A i \in Indices : v[i] = Enc(v[i])
<1>1. \A i \in Indices : v[i] \in Nat /\ v[i] % q = v[i]
  BY VectorIs
<1>2. \A i \in Indices : Enc(v[i]) \in 0 .. q - 1
  BY <1>1, EncType
<1>3. Encoded(v) \in Vectors /\ \A i \in Indices : Encoded(v)[i] = Enc(v[i])
  BY <1>2 DEF Encoded, Vectors
<1>4. ctx.adapter # "scalar" => \A i \in Indices : v[i] = Enc(v[i])
  BY <1>1, PlainIs
<1>5. QED
  BY <1>3, <1>4

\* Twisting as the multiplication does it
LEMMA TwistedIs ==
  ASSUME ctx \in Contexts, NEW v \in Vectors
  PROVE  /\ Twisted(v) \in Vectors
         /\ Twisted(v) = Encoded(TwistedBy(v, Psi))
<1> DEFINE w == TwistedBy(v, Psi)
<1>1. Psi \in Nat /\ q \in Nat \ {0, 1} /\ q \in Nat \ {0}
  BY PsiIs, ContextIs
<1>2. w \in Vectors /\ \A i \in Indices : w[i] = MulMod(v[i], ModPow(Psi, i, q), q)
  BY <1>1, TwistedByIs
<1> HIDE DEF w
<1>3. ASSUME NEW i \in Indices
      PROVE  Mul(Enc(v[i]), Powers(Enc(1), Enc(Psi))[i]) = Enc(w[i])
  <2> DEFINE a == v[i]
             b == ModPow(Psi, i, q)
  <2>1. a \in Nat /\ i \in Nat
    BY VectorIs
  <2>2. b \in Nat
    BY <1>1, <2>1, ModPowNat
  <2>3. Powers(Enc(1), Enc(Psi))[i] = Enc(1 * b)
    BY <1>1, <2>1, EncPowers
  <2>4. w[i] = MulMod(a, b, q)
    BY <1>2
  <2> HIDE DEF a, b
  <2>5. 1 * b = b /\ a * b \in Nat
    BY <2>1, <2>2
  <2>6. Mul(Enc(a), Enc(b)) = Enc(a * b)
    BY <2>1, <2>2, EncMul
  <2>7. MulMod(a, b, q) \in Nat /\ Congruent(MulMod(a, b, q), a * b, q)
    BY <1>1, <2>1, <2>2, MulModCongruent
  <2>8. Enc(MulMod(a, b, q)) = Enc(a * b)
    BY <2>5, <2>7, EncCongruent
  <2>9. QED
    BY <2>3, <2>4, <2>5, <2>6, <2>8 DEF a
<1>4. Twisted(v) = Encoded(w)
  BY <1>3 DEF Twisted, Encoded
<1>5. QED
  BY <1>2, <1>4, EncodedIs DEF w

\* What a forward transform returns
LEMMA DecodedIs ==
  ASSUME ctx \in Contexts, NEW root \in Nat, NEW c \in Vectors,
         NEW v, Blocks(v, ctx, n, root, c, 1)
  PROVE  Decoded(v) = Dft(c, n, root) /\ Dft(c, n, root) \in Vectors
<1> DEFINE d == Dft(c, n, root)
<1>1. Summable(c, n)
  BY VectorIs
<1>2. d \in Vectors
  BY <1>1, DftVector
<1>3. \A i \in Indices : Dec(v[i]) = d[i]
  BY <1>1, TimeEnd
<1> HIDE DEF d
<1>4. Decoded(v) = d
  BY <1>2, <1>3, SameVector DEF Decoded
<1>5. QED
  BY <1>2, <1>4 DEF d

\* The product of two transforms, as the multiplication makes it
LEMMA PointwiseIs ==
  ASSUME ctx \in Contexts, NaiveFits, NEW a \in Vectors, NEW b \in Vectors,
         NEW v, Blocks(v, ctx, n, Omega, TwistedBy(a, Psi), 1),
         NEW w, Blocks(w, ctx, n, Omega, TwistedBy(b, Psi), 1)
  PROVE  LET p == [i \in Indices |-> Mul(v[i], w[i])]
             d == Dft(TwistedBy(Product(a, b), Psi), n, Omega)
         IN  d \in Vectors /\ p \in Vectors /\ \A i \in Indices : p[i] = Enc(d[i])
<1> DEFINE p == [i \in Indices |-> Mul(v[i], w[i])]
           d == Dft(TwistedBy(Product(a, b), Psi), n, Omega)
           g == TwistedBy(a, Psi)
           h == TwistedBy(b, Psi)
           A == Dft(g, n, Omega)
           B == Dft(h, n, Omega)
           c == Product(a, b)
           f == TwistedBy(c, Psi)
<1>1. q \in Nat \ {0} /\ Omega \in Nat /\ Psi \in Nat
  BY ContextIs, OmegaIs, PsiIs
<1>2. Product(a, b) \in Vectors
  <2>1. 1 \in Nat /\ q \in Nat \ {0, 1} /\ n \in Nat
    BY ContextIs
  <2>2. ModPow(Omega, n, q) = 1
    BY OmegaIs
  <2>3. QED
    BY <1>1, <2>2, ProductValues
<1>3. g \in Vectors /\ h \in Vectors /\ f \in Vectors
  BY <1>1, <1>2, TwistedByIs
<1>4. \A i \in Indices : d[i] = MulMod(A[i], B[i], q)
  BY ProductTransform
<1>5. Summable(g, n) /\ Summable(h, n) /\ Summable(f, n)
  <2> HIDE DEF g, h, f
  <2>1. QED
    BY <1>3, VectorIs
<1> HIDE DEF g, h, f
<1>6. A \in Vectors /\ B \in Vectors
  BY <1>1, <1>5, DftVector
<1>7. d \in Vectors
  BY <1>1, <1>5, DftVector DEF f
<1>8. \A i \in Indices : v[i] = Enc(A[i]) /\ w[i] = Enc(B[i])
  BY <1>1, <1>5, TimeEnd DEF g, h
<1> HIDE DEF A, B, d
<1>9. ASSUME NEW i \in Indices
      PROVE  Mul(v[i], w[i]) = Enc(d[i]) /\ Enc(d[i]) \in 0 .. q - 1
  <2> DEFINE x == A[i]
             y == B[i]
  <2>1. x \in Nat /\ y \in Nat
    BY <1>6, VectorIs
  <2>2. d[i] = MulMod(x, y, q) /\ v[i] = Enc(x) /\ w[i] = Enc(y)
    BY <1>4, <1>8 DEF A, B, d
  <2> HIDE DEF x, y
  <2>3. Mul(Enc(x), Enc(y)) = Enc(x * y) /\ x * y \in Nat
    BY <2>1, EncMul
  <2>4. MulMod(x, y, q) \in Nat /\ Congruent(MulMod(x, y, q), x * y, q)
    BY <1>1, <2>1, MulModCongruent
  <2>5. Enc(MulMod(x, y, q)) = Enc(x * y)
    BY <2>3, <2>4, EncCongruent
  <2>6. QED
    BY <2>2, <2>3, <2>4, <2>5, EncType
<1>10. p \in Vectors /\ \A i \in Indices : p[i] = Enc(d[i])
  BY <1>9 DEF Vectors
<1>11. QED
  BY <1>7, <1>10 DEF d

\* The product of two transforms, step by step
LEMMA StepwiseIs ==
  ASSUME ctx \in Contexts, NaiveFits, NEW a \in Vectors, NEW b \in Vectors
  PROVE  LET A == Dft(TwistedBy(a, Psi), n, Omega)
             B == Dft(TwistedBy(b, Psi), n, Omega)
             d == Dft(TwistedBy(Product(a, b), Psi), n, Omega)
         IN  d \in Vectors /\ [i \in Indices |-> MulMod(A[i], B[i], q)] = d
<1> DEFINE A == Dft(TwistedBy(a, Psi), n, Omega)
           B == Dft(TwistedBy(b, Psi), n, Omega)
           f == TwistedBy(Product(a, b), Psi)
           d == Dft(f, n, Omega)
<1>1. Omega \in Nat /\ Psi \in Nat /\ ModPow(Omega, n, q) = 1
  BY OmegaIs, PsiIs
<1>2. Product(a, b) \in Vectors
  BY <1>1, ProductValues
<1>3. f \in Vectors
  BY <1>1, <1>2, TwistedByIs
<1>4. \A i \in Indices : d[i] = MulMod(A[i], B[i], q)
  BY ProductTransform
<1> HIDE DEF f
<1>5. Summable(f, n)
  BY <1>3, VectorIs
<1>6. d \in Vectors
  BY <1>1, <1>5, DftVector
<1> HIDE DEF A, B, d
<1> DEFINE w == [i \in Indices |-> MulMod(A[i], B[i], q)]
<1>7. w = [i \in Indices |-> w[i]] /\ \A i \in Indices : w[i] = d[i]
  BY <1>4
<1> HIDE DEF w
<1>8. w = d
  BY <1>6, <1>7, SameVector
<1>9. QED
  BY <1>6, <1>8 DEF A, B, d, w, f

\* What an inverse transform returns
LEMMA UnscaledIs ==
  ASSUME ctx \in Contexts, NaiveFits, NEW c \in Vectors,
         NEW o, \A i \in Indices : o[i] = Enc(n * c[i])
  PROVE  [i \in Indices |-> Dec(Mul(o[i], Enc(NInv)))] = c
<1> DEFINE w == [i \in Indices |-> Dec(Mul(o[i], Enc(NInv)))]
<1>1. q \in Nat \ {0} /\ NInv \in Nat
  BY ContextIs, SizeIs
<1>2. NInv * 1 = NInv /\ 1 \in Nat
  BY <1>1
<1>3. ASSUME NEW i \in Indices
      PROVE  w[i] = c[i]
  <2>1. c[i] \in Nat /\ c[i] % q = c[i]
    BY VectorIs
  <2>2. Dec(Mul(Enc(n * c[i]), Enc(NInv * 1))) = MulMod(c[i], 1, q)
    BY <1>2, <2>1, UnscaleIs
  <2>3. MulMod(c[i], 1, q) = c[i]
    BY <2>1 DEF MulMod
  <2>4. QED
    BY <1>2, <2>2, <2>3
<1>4. w = [i \in Indices |-> w[i]]
  OBVIOUS
<1> HIDE DEF w
<1>5. QED
  BY <1>3, <1>4, SameVector DEF w

\* What a multiplication returns
LEMMA UntwistedIs ==
  ASSUME ctx \in Contexts, NaiveFits, NEW c \in Vectors,
         ctx.type = "negacyclic" \/ \A i \in Indices : i # 0 => c[i] = 0,
         NEW o, \A i \in Indices : o[i] = Enc(n * TwistedBy(c, Psi)[i])
  PROVE  LET untw == Powers(Enc(NInv), Enc(Inverted(Psi)))
         IN  [i \in Indices |-> Dec(Mul(o[i], untw[i]))] = c
<1> DEFINE untw == Powers(Enc(NInv), Enc(Inverted(Psi)))
           w == [i \in Indices |-> Dec(Mul(o[i], untw[i]))]
           y == Inverted(Psi)
           g == TwistedBy(c, Psi)
<1>1. q \in Nat \ {0} /\ q \in Nat \ {0, 1} /\ NInv \in Nat /\ Psi \in Nat /\ y \in Nat
  BY ContextIs, SizeIs, PsiIs
<1>2. g \in Vectors /\ \A i \in Indices : g[i] = MulMod(c[i], ModPow(Psi, i, q), q)
  BY <1>1, TwistedByIs
<1> HIDE DEF g, y
<1>3. ASSUME NEW i \in Indices
      PROVE  w[i] = c[i]
  <2> DEFINE z == ModPow(y, i, q)
  <2>1. c[i] \in Nat /\ c[i] % q = c[i] /\ i \in Nat /\ g[i] \in Nat
    BY <1>2, VectorIs
  <2>2. z \in Nat
    BY <1>1, <2>1, ModPowNat
  <2>3. untw[i] = Enc(NInv * z)
    BY <1>1, <2>1, EncPowers DEF y
  <2>4. o[i] = Enc(n * g[i])
    BY DEF g
  <2>5. i = 0 \/ c[i] = 0 \/ MulMod(Psi, y, q) = 1
    BY PsiIs DEF y
  <2>6. MulMod(MulMod(c[i], ModPow(Psi, i, q), q), z, q) = c[i]
    BY <1>1, <2>1, <2>5, TwistBack
  <2> HIDE DEF z
  <2>7. Dec(Mul(Enc(n * g[i]), Enc(NInv * z))) = MulMod(g[i], z, q)
    BY <2>1, <2>2, UnscaleIs
  <2>8. MulMod(g[i], z, q) = c[i]
    BY <1>2, <2>6
  <2>9. w[i] = Dec(Mul(Enc(n * g[i]), Enc(NInv * z)))
    BY <2>3, <2>4
  <2>10. QED
    BY <2>7, <2>8, <2>9
<1>4. w = [i \in Indices |-> w[i]]
  OBVIOUS
<1> HIDE DEF w
<1>5. QED
  BY <1>3, <1>4, SameVector DEF w, y

\* Untwisting step by step
LEMMA UntwistIs ==
  ASSUME ctx \in Contexts, ctx.type = "negacyclic", NEW c \in Vectors
  PROVE  TwistedBy(TwistedBy(c, Psi), Inverted(Psi)) = c
<1> DEFINE y == Inverted(Psi)
           g == TwistedBy(c, Psi)
           w == TwistedBy(g, y)
<1>1. Psi \in Nat /\ y \in Nat /\ MulMod(Psi, y, q) = 1
  BY PsiIs
<1>2. g \in Vectors /\ \A i \in Indices : g[i] = MulMod(c[i], ModPow(Psi, i, q), q)
  BY <1>1, TwistedByIs
<1> HIDE DEF y, g
<1>3. w \in Vectors /\ \A i \in Indices : w[i] = MulMod(g[i], ModPow(y, i, q), q)
  BY <1>1, <1>2, TwistedByIs
<1>4. w = [i \in Indices |-> w[i]]
  BY DEF TwistedBy
<1> HIDE DEF w
<1>5. ASSUME NEW i \in Indices
      PROVE  w[i] = c[i]
  <2>1. c[i] \in Nat /\ c[i] % q = c[i] /\ i \in Nat
    BY VectorIs
  <2>2. MulMod(MulMod(c[i], ModPow(Psi, i, q), q), ModPow(y, i, q), q) = c[i]
    BY <1>1, <2>1, TwistBack
  <2>3. QED
    BY <1>2, <1>3, <2>2
<1>6. w = c
  BY <1>4, <1>5, SameVector
<1>7. QED
  BY <1>6 DEF w, g, y

-----------------------------------------------------------------------------
(***************************************************************************)
(* The inductive invariant                                                 *)
(***************************************************************************)

\* The coefficients that the running inverse transform brings back for d
Sought(d) == IF call = "product" THEN TwistedBy(d, Psi) ELSE d

\* What the call that runs returns: what is expected of it, but for the product
\* of a cyclic context, where it is a constant
Returned(d) ==
  IF call = "product" /\ ctx.type # "negacyclic" THEN \A i \in Indices : i # 0 => d[i] = 0
                                                 ELSE d = Expected

\* What a multiplication was asked for
Asked(a, b) == ctx.type = "negacyclic" => coeffs = Product(a, b)

\* Types, and which function runs in which kind of stages
Shape ==
  /\ ctx \in Contexts /\ coeffs \in Vectors /\ poly \in Vectors
  /\ work \in [a : Vectors, b : Vectors] /\ which \in {"a", "b"}
  /\ form \in {"coefficients", "values"} /\ twisted \in BOOLEAN
  /\ twisted => ctx.type = "negacyclic"
  /\ \/ pc = "idle" /\ call = "none"
     \/ pc = "dit" /\ call \in {"forward", "multiply", "inverse", "product"}
     \/ pc = "dif" /\ call \in {"inverse", "product"}

\* Between calls
Resting ==
  pc = "idle" => m = 0 /\ poly = IF form = "coefficients" THEN Expected
                                                          ELSE Dft(Expected, n, Omega)

\* In the stages of a forward transform
Transforming ==
  pc = "dit" /\ call = "forward" =>
    which = "a" /\ form = "coefficients" /\ TimeReached(work.a, m, Omega, Expected)

\* The arrays of a multiplication while their transforms run, one after the other
OperandsReached(v, w, name, size, a, b) ==
  IF name = "a"
    THEN TimeReached(v, size, Omega, TwistedBy(a, Psi))
         /\ TimeReached(w, 2, Omega, TwistedBy(b, Psi))
    ELSE Blocks(v, ctx, n, Omega, TwistedBy(a, Psi), 1)
         /\ TimeReached(w, size, Omega, TwistedBy(b, Psi))

\* In those of the two transforms of a multiplication
Multiplying ==
  pc = "dit" /\ call = "multiply" =>
    /\ form = "coefficients" /\ ~twisted
    /\ \E a, b \in Vectors :
         Asked(a, b) /\ OperandsReached(work.a, work.b, which, m, a, b)

\* In those of an inverse transform, or of the last part of a multiplication
Inverting ==
  pc # "idle" /\ call \in {"inverse", "product"} =>
    /\ which = "a"
    /\ call = "inverse" => form = "values"
    /\ call = "product" => form = "coefficients" /\ ~twisted
    /\ \E d \in Vectors :
         /\ Returned(d)
         /\ IF pc = "dit" THEN TimeReached(work.a, m, Inverted(Omega), Dft(Sought(d), n, Omega))
                          ELSE FrequencyReached(work.a, m, Omega, Sought(d))

Inv == Shape /\ Resting /\ Transforming /\ Multiplying /\ Inverting

-----------------------------------------------------------------------------

\* What depends on the context only stays as it is.
LEMMA ContextFrame ==
  ASSUME ctx' = ctx
  PROVE  /\ Vectors' = Vectors /\ Omega' = Omega /\ Psi' = Psi /\ n' = n /\ q' = q
         /\ Indices' = Indices /\ Inverted(Omega)' = Inverted(Omega)
         /\ \A v, w : Product(v, w)' = Product(v, w)
         /\ \A v : TwistedBy(v, Psi)' = TwistedBy(v, Psi)
         /\ \A v, size, root, c : TimeReached(v, size, root, c)' <=> TimeReached(v, size, root, c)
         /\ \A v, size, root, c :
              FrequencyReached(v, size, root, c)' <=> FrequencyReached(v, size, root, c)
<1>1. Vectors' = Vectors /\ n' = n /\ q' = q /\ Indices' = Indices
  BY DEF Vectors, Indices, n, q
<1>2. Omega' = Omega /\ Psi' = Psi /\ Inverted(Omega)' = Inverted(Omega)
  BY DEF Omega, Psi, Reduced, Inverted, q
<1>3. \A v, w : Product(v, w)' = Product(v, w)
  BY DEF Product, NegacyclicProduct, ConstantProduct, Indices, n, q
<1>4. \A v : TwistedBy(v, Psi)' = TwistedBy(v, Psi)
  BY DEF TwistedBy, Psi, Reduced, Indices, n, q
<1>5. \A v, size, root, c : TimeReached(v, size, root, c)' <=> TimeReached(v, size, root, c)
  BY DEF TimeReached, Sizes, n
<1>6. \A v, size, root, c :
        FrequencyReached(v, size, root, c)' <=> FrequencyReached(v, size, root, c)
  BY DEF FrequencyReached, Sizes, n
<1>7. QED
  BY <1>1, <1>2, <1>3, <1>4, <1>5, <1>6

\* The operands of a multiplication too
LEMMA OperandsFrame ==
  ASSUME ctx' = ctx, NEW v, NEW w, NEW name, NEW size, NEW a, NEW b
  PROVE  OperandsReached(v, w, name, size, a, b)' <=> OperandsReached(v, w, name, size, a, b)
BY ContextFrame DEF OperandsReached

\* What a step of a multiplication has to keep
LEMMA MultiplyingNext ==
  ASSUME ctx' = ctx, form' = "coefficients", ~twisted', NEW a \in Vectors, NEW b \in Vectors,
         ctx.type = "negacyclic" => coeffs' = Product(a, b),
         OperandsReached(work'.a, work'.b, which', m', a, b)
  PROVE  Multiplying'
<1>1. OperandsReached(work.a, work.b, which, m, a, b)'
  BY OperandsFrame
<1>2. a \in Vectors' /\ b \in Vectors' /\ Asked(a, b)'
  BY ContextFrame DEF Asked
<1>3. QED
  BY <1>1, <1>2 DEF Multiplying

\* What is expected and sought after a step
LEMMA ExpectedFrame ==
  ASSUME ctx' = ctx
  PROVE  /\ Expected' = IF twisted' THEN TwistedBy(coeffs', Psi) ELSE coeffs'
         /\ \A d : Sought(d)' = IF call' = "product" THEN TwistedBy(d, Psi) ELSE d
         /\ Dft(Expected, n, Omega)' = Dft(Expected', n, Omega)
         /\ \A d : Dft(Sought(d), n, Omega)' = Dft(Sought(d)', n, Omega)
<1>1. Expected' = IF twisted' THEN TwistedBy(coeffs', Psi) ELSE coeffs'
  BY DEF Expected, TwistedBy, Psi, Reduced, Indices, n, q
<1>2. \A d : Sought(d)' = IF call' = "product" THEN TwistedBy(d, Psi) ELSE d
  BY DEF Sought, TwistedBy, Psi, Reduced, Indices, n, q
<1>3. Dft(Expected, n, Omega)' = Dft(Expected', n, Omega)
  BY DEF Dft, Omega, Psi, Reduced, n, q
<1>4. \A d : Dft(Sought(d), n, Omega)' = Dft(Sought(d)', n, Omega)
  BY DEF Dft, Omega, Psi, Reduced, n, q
<1>5. QED
  BY <1>1, <1>2, <1>3, <1>4

\* What is returned does not change while the call runs.
LEMMA ReturnedFrame ==
  ASSUME UNCHANGED <<ctx, call, coeffs, twisted>>, NEW d
  PROVE  /\ Returned(d)' <=> Returned(d)
         /\ Sought(d) = IF call' = "product" THEN TwistedBy(d, Psi) ELSE d
<1>1. Expected' = Expected /\ Indices' = Indices
  BY ContextFrame, ExpectedFrame DEF Expected
<1>2. QED
  BY <1>1 DEF Returned, Sought

\* What a step of an inverse transform has to keep, or to bring about
LEMMA InvertingNext ==
  ASSUME ctx' = ctx, which' = "a", NEW d \in Vectors, Returned(d)',
         call' = "inverse" => form' = "values",
         call' = "product" => form' = "coefficients" /\ ~twisted',
         LET c == IF call' = "product" THEN TwistedBy(d, Psi) ELSE d
         IN  IF pc' = "dit" THEN TimeReached(work'.a, m', Inverted(Omega), Dft(c, n, Omega))
                            ELSE FrequencyReached(work'.a, m', Omega, c)
  PROVE  Inverting'
<1> DEFINE c == IF call' = "product" THEN TwistedBy(d, Psi) ELSE d
<1>1. d \in Vectors' /\ Sought(d)' = c
  BY ContextFrame, ExpectedFrame
<1>2. Dft(Sought(d), n, Omega)' = Dft(c, n, Omega)
  BY <1>1, ExpectedFrame
<1>3. CASE pc' = "dit"
  <2>1. TimeReached(work'.a, m', Inverted(Omega)', Dft(Sought(d), n, Omega)')
    BY <1>2, <1>3, ContextFrame
  <2>2. TimeReached(work.a, m, Inverted(Omega), Dft(Sought(d), n, Omega))'
    BY <2>1, ContextFrame
  <2>3. QED
    BY <1>1, <1>3, <2>2 DEF Inverting
<1>4. CASE pc' # "dit"
  <2>1. FrequencyReached(work'.a, m', Omega', Sought(d)')
    BY <1>1, <1>4, ContextFrame
  <2>2. FrequencyReached(work.a, m, Omega, Sought(d))'
    BY <2>1, ContextFrame
  <2>3. QED
    BY <1>1, <1>4, <2>2 DEF Inverting
<1>5. QED
  BY <1>3, <1>4

\* Facts of every state
LEMMA ExpectedIs ==
  ASSUME Shape
  PROVE  /\ ctx \in Contexts /\ Psi \in Nat
         /\ Expected \in Vectors
         /\ \A v \in Vectors : TwistedBy(v, Psi) \in Vectors /\ Sought(v) \in Vectors
<1>1. ctx \in Contexts /\ coeffs \in Vectors
  BY DEF Shape
<1>2. Psi \in Nat
  BY <1>1, PsiIs
<1>3. \A v \in Vectors : TwistedBy(v, Psi) \in Vectors
  BY <1>1, <1>2, TwistedByIs
<1>4. QED
  BY <1>1, <1>2, <1>3 DEF Expected, Sought

\* The roots of the two directions
LEMMA RootsUsable ==
  ASSUME ctx \in Contexts, NaiveFits
  PROVE  Usable(Omega) /\ Usable(Inverted(Omega)) /\ Omega \in Nat /\ Inverted(Omega) \in Nat
BY OmegaIs DEF Usable

\* Dft in Vectors
LEMMA DftIn ==
  ASSUME ctx \in Contexts, NEW root \in Nat, NEW c \in Vectors
  PROVE  Dft(c, n, root) \in Vectors
BY VectorIs, DftVector

-----------------------------------------------------------------------------
\* The initial states satisfy it.
LEMMA InitInv == Init => Inv
<1> SUFFICES ASSUME Init
             PROVE  Inv
  OBVIOUS
<1>1. ctx \in Contexts /\ coeffs \in Inputs(ctx)
  BY DEF Init
<1>2. coeffs \in Vectors
  BY <1>1, TransformAssumption DEF Vectors, Indices, n, q
<1>3. poly = coeffs /\ work = [a |-> poly, b |-> poly]
  BY DEF Init
<1>4. Shape
  <2>1. poly \in Vectors /\ work \in [a : Vectors, b : Vectors]
    BY <1>2, <1>3
  <2>2. /\ which = "a" /\ pc = "idle" /\ call = "none" /\ form = "coefficients" /\ twisted = FALSE
    BY DEF Init
  <2>3. QED
    BY <1>1, <1>2, <2>1, <2>2 DEF Shape
<1>5. Resting
  BY <1>3 DEF Init, Resting, Expected
<1>6. Transforming /\ Multiplying /\ Inverting
  BY DEF Init, Transforming, Multiplying, Inverting
<1>7. QED
  BY <1>4, <1>5, <1>6 DEF Inv

-----------------------------------------------------------------------------
\* Calls start.

\* A forward transform
LEMMA ForwardStarts ==
  ASSUME Inv, NaiveFits, NttForward
  PROVE  Inv'
<1>1. Shape /\ Resting /\ ctx' = ctx
  BY DEF Inv, NttForward
<1>2. ctx \in Contexts /\ poly \in Vectors /\ Expected \in Vectors /\ Omega \in Nat
  BY <1>1, ExpectedIs, RootsUsable DEF Shape
<1> DEFINE v == Permute(Encoded(poly))
<1>3. poly = Expected
  BY <1>1 DEF NttForward, Resting
<1>4. Encoded(poly) \in Vectors /\ \A i \in Indices : Encoded(poly)[i] = Enc(Expected[i])
  BY <1>2, <1>3, EncodedIs
<1>5. TimeReached(v, 2, Omega, Expected) /\ v \in Vectors
  BY <1>2, <1>4, TimeReachedFirst
<1> HIDE DEF v
<1>6. /\ work' = [work EXCEPT !.a = v] /\ which' = "a" /\ m' = 2 /\ pc' = "dit"
      /\ call' = "forward" /\ UNCHANGED <<ctx, poly, coeffs, form, twisted>>
      /\ form = "coefficients"
  BY DEF NttForward, StartTime, v
<1>7. work' \in [a : Vectors, b : Vectors] /\ work'.a = v
  BY <1>1, <1>5, <1>6 DEF Shape
<1>8. Expected' = Expected
  BY <1>6, ExpectedFrame DEF Expected
<1>9. Shape'
  BY <1>1, <1>6, <1>7, ContextFrame DEF Shape
<1>10. Resting' /\ Multiplying' /\ Inverting'
  BY <1>6 DEF Resting, Multiplying, Inverting
<1>11. Transforming'
  BY <1>5, <1>6, <1>7, <1>8, ContextFrame DEF Transforming
<1>12. QED
  BY <1>9, <1>10, <1>11 DEF Inv

\* An inverse transform
LEMMA InverseStarts ==
  ASSUME Inv, NaiveFits, NttInverse
  PROVE  Inv'
<1>1. Shape /\ Resting /\ ctx' = ctx
  BY DEF Inv, NttInverse
<1>2. /\ ctx \in Contexts /\ poly \in Vectors /\ Expected \in Vectors
      /\ Omega \in Nat /\ Inverted(Omega) \in Nat
  BY <1>1, ExpectedIs, RootsUsable DEF Shape
<1> DEFINE d == Dft(Expected, n, Omega)
           v == Encoded(poly)
           w == Permute(poly)
<1>3. poly = d
  BY <1>1 DEF NttInverse, Resting
<1>4. /\ v \in Vectors /\ \A i \in Indices : v[i] = Enc(d[i])
      /\ ctx.adapter # "scalar" => \A i \in Indices : poly[i] = Enc(d[i])
  BY <1>2, <1>3, EncodedIs
<1>5. d \in Vectors
  BY <1>2, <1>3
<1>6. FrequencyReached(v, n, Omega, Expected)
  BY <1>2, <1>4, FrequencyReachedFirst
<1> HIDE DEF d
<1>7. ASSUME ctx.adapter # "scalar"
      PROVE  TimeReached(w, 2, Inverted(Omega), d) /\ w \in Vectors
  BY <1>2, <1>4, <1>5, <1>7, TimeReachedFirst
<1> HIDE DEF v, w
<1>8. /\ which' = "a" /\ call' = "inverse" /\ UNCHANGED <<ctx, poly, coeffs, form, twisted>>
      /\ form = "values"
      /\ IF ctx.adapter = "scalar"
           THEN work' = [work EXCEPT !.a = v] /\ m' = n /\ pc' = "dif"
           ELSE work' = [work EXCEPT !.a = w] /\ m' = 2 /\ pc' = "dit"
  BY DEF NttInverse, StartTime, StartFrequency, v, w
<1>9. /\ work' \in [a : Vectors, b : Vectors]
      /\ IF ctx.adapter = "scalar" THEN work'.a = v ELSE work'.a = w
  <2>1. CASE ctx.adapter = "scalar"
    BY <1>1, <1>4, <1>8, <2>1 DEF Shape
  <2>2. CASE ctx.adapter # "scalar"
    BY <1>1, <1>7, <1>8, <2>2 DEF Shape
  <2>3. QED
    BY <2>1, <2>2
<1>10. PICK c \in Vectors : c = Expected
  BY <1>2
<1>11. Shape'
  BY <1>1, <1>8, <1>9, ContextFrame DEF Shape
<1>12. Resting' /\ Transforming' /\ Multiplying'
  BY <1>8 DEF Resting, Transforming, Multiplying
<1>13. Inverting'
  <2>1. Returned(c)'
    BY <1>8, <1>10, ExpectedFrame DEF Returned, Expected
  <2>2. CASE ctx.adapter = "scalar"
    <3>1. pc' = "dif" /\ FrequencyReached(work'.a, m', Omega, c)
      BY <1>6, <1>8, <1>9, <1>10, <2>2
    <3>2. QED
      BY <1>8, <2>1, <3>1, InvertingNext
  <2>3. CASE ctx.adapter # "scalar"
    <3>1. pc' = "dit" /\ TimeReached(work'.a, m', Inverted(Omega), Dft(c, n, Omega))
      BY <1>7, <1>8, <1>9, <1>10, <2>3 DEF d
    <3>2. QED
      BY <1>8, <2>1, <3>1, InvertingNext
  <2>4. QED
    BY <2>2, <2>3
<1>14. QED
  BY <1>11, <1>12, <1>13 DEF Inv

\* A multiplication in one call
LEMMA MultiplicationStarts ==
  ASSUME Inv, NaiveFits, NEW b \in Inputs(ctx), NttNegacyclicMul(b)
  PROVE  Inv'
<1>1. Shape /\ Resting /\ ctx' = ctx
  BY DEF Inv, NttNegacyclicMul
<1>2. /\ ctx \in Contexts /\ poly \in Vectors /\ coeffs \in Vectors /\ Psi \in Nat
      /\ Omega \in Nat
  BY <1>1, ExpectedIs, RootsUsable DEF Shape
<1>3. b \in Vectors
  BY <1>2, TransformAssumption DEF Vectors, Indices, n, q
<1>4. poly = coeffs
  BY <1>1 DEF NttNegacyclicMul, Resting, Expected
<1> DEFINE P == Permute(Twisted(coeffs))
           R == Permute(Twisted(b))
<1>5. ASSUME NEW v \in Vectors
      PROVE  TimeReached(Permute(Twisted(v)), 2, Omega, TwistedBy(v, Psi))
             /\ Permute(Twisted(v)) \in Vectors
  <2>1. TwistedBy(v, Psi) \in Vectors
    BY <1>1, ExpectedIs
  <2>2. Twisted(v) \in Vectors /\ Twisted(v) = Encoded(TwistedBy(v, Psi))
    BY <1>2, TwistedIs
  <2>3. \A i \in Indices : Twisted(v)[i] = Enc(TwistedBy(v, Psi)[i])
    BY <1>2, <2>1, <2>2, EncodedIs
  <2>4. QED
    BY <1>2, <2>1, <2>2, <2>3, TimeReachedFirst
<1>6. /\ TimeReached(P, 2, Omega, TwistedBy(coeffs, Psi)) /\ P \in Vectors
      /\ TimeReached(R, 2, Omega, TwistedBy(b, Psi)) /\ R \in Vectors
  BY <1>2, <1>3, <1>5
<1> HIDE DEF P, R
<1>7. /\ work' = [a |-> P, b |-> R] /\ which' = "a" /\ m' = 2 /\ pc' = "dit"
      /\ call' = "multiply" /\ UNCHANGED <<ctx, poly, form, twisted>>
      /\ form = "coefficients" /\ ~twisted
  BY <1>4 DEF NttNegacyclicMul, P, R
<1>8. coeffs' = NegacyclicProduct(coeffs, b)
      /\ (ctx.type = "negacyclic" => coeffs' = Product(coeffs, b))
  BY DEF NttNegacyclicMul, Product
<1>9. work' \in [a : Vectors, b : Vectors] /\ work'.a = P /\ work'.b = R
  BY <1>6, <1>7
<1>10. coeffs' \in Vectors
  BY <1>2, <1>3, <1>8, NegacyclicProductType
<1>11. Shape'
  BY <1>1, <1>7, <1>9, <1>10, ContextFrame DEF Shape
<1>12. Resting' /\ Transforming' /\ Inverting'
  BY <1>7 DEF Resting, Transforming, Inverting
<1>13. Multiplying'
  <2>1. OperandsReached(work'.a, work'.b, which', m', coeffs, b)
    BY <1>6, <1>7, <1>9 DEF OperandsReached
  <2>2. PICK c \in Vectors : c = coeffs
    BY <1>2
  <2>3. PICK d \in Vectors : d = b
    BY <1>3
  <2>4. /\ OperandsReached(work'.a, work'.b, which', m', c, d)
        /\ ctx.type = "negacyclic" => coeffs' = Product(c, d)
    BY <1>8, <2>1, <2>2, <2>3
  <2>5. ~twisted' /\ form' = "coefficients" /\ ctx' = ctx
    BY <1>7
  <2>6. QED
    BY <2>4, <2>5, MultiplyingNext
<1>14. QED
  BY <1>11, <1>12, <1>13 DEF Inv

-----------------------------------------------------------------------------
\* Stages

\* The array a stage works on, and nothing else, is replaced.
LEMMA StageReplaces ==
  ASSUME Shape, NEW d \in Vectors, work' = [work EXCEPT ![which] = d],
         UNCHANGED <<ctx, poly, which, pc, call, client>>
  PROVE  /\ Shape'
         /\ IF which = "a" THEN work'.a = d /\ work'.b = work.b
                           ELSE work'.a = work.a /\ work'.b = d
<1>1. work \in [a : Vectors, b : Vectors] /\ which \in {"a", "b"}
  BY DEF Shape
<1>2. work' \in [a : Vectors, b : Vectors]
  BY <1>1
<1>3. IF which = "a" THEN work'.a = d /\ work'.b = work.b
                     ELSE work'.a = work.a /\ work'.b = d
  BY <1>1
<1>4. Shape'
  BY <1>2, ContextFrame DEF Shape, client
<1>5. QED
  BY <1>3, <1>4

\* A stage of a forward transform
LEMMA ForwardStage ==
  ASSUME Inv, NaiveFits, StageInTime, call = "forward"
  PROVE  Inv'
<1> DEFINE d == DecimateInTime(work.a, m, Omega)
<1>1. /\ Shape /\ pc = "dit" /\ m <= n /\ which = "a" /\ form = "coefficients"
      /\ TimeReached(work.a, m, Omega, Expected)
  BY DEF Inv, StageInTime, Transforming
<1>2. ctx \in Contexts /\ Expected \in Vectors /\ Usable(Omega)
  BY <1>1, ExpectedIs, RootsUsable
<1>3. TimeReached(d, 2 * m, Omega, Expected) /\ d \in Vectors
  BY <1>1, <1>2, TimeReachedNext
<1>4. Root = Omega
  BY DEF Root
<1>5. work' = [work EXCEPT ![which] = d]
  BY <1>1, <1>4 DEF StageInTime, Shape
<1> HIDE DEF d
<1>6. m' = 2 * m /\ UNCHANGED <<ctx, poly, which, pc, call, client>>
  BY DEF StageInTime
<1>7. Shape' /\ work'.a = d
  BY <1>1, <1>3, <1>5, <1>6, StageReplaces
<1>8. Expected' = Expected
  BY <1>6, ExpectedFrame DEF Expected, client
<1>9. TimeReached(work'.a, m', Omega', Expected')
  BY <1>3, <1>6, <1>7, <1>8, ContextFrame
<1>10. TimeReached(work.a, m, Omega, Expected)'
  BY <1>6, <1>9, ContextFrame
<1>11. Transforming'
  BY <1>1, <1>6, <1>10 DEF Transforming, client
<1>12. Resting' /\ Multiplying' /\ Inverting'
  BY <1>1, <1>6 DEF Resting, Multiplying, Inverting
<1>13. QED
  BY <1>7, <1>11, <1>12 DEF Inv

\* A stage of a multiplication
LEMMA MultiplicationStage ==
  ASSUME Inv, NaiveFits, StageInTime, call = "multiply"
  PROVE  Inv'
<1> DEFINE u == IF which = "a" THEN work.a ELSE work.b
           d == DecimateInTime(u, m, Omega)
<1>1. Shape /\ pc = "dit" /\ m <= n /\ Multiplying
  BY DEF Inv, StageInTime
<1>2. form = "coefficients" /\ ~twisted
  BY <1>1 DEF Multiplying
<1>3. PICK a \in Vectors, b \in Vectors :
             Asked(a, b) /\ OperandsReached(work.a, work.b, which, m, a, b)
  BY <1>1 DEF Multiplying
<1> DEFINE c == IF which = "a" THEN TwistedBy(a, Psi) ELSE TwistedBy(b, Psi)
<1>4. ctx \in Contexts /\ Usable(Omega) /\ c \in Vectors
  BY <1>1, ExpectedIs, RootsUsable
<1>5. TimeReached(u, m, Omega, c)
  BY <1>3 DEF OperandsReached
<1> HIDE DEF u, c
<1>6. TimeReached(d, 2 * m, Omega, c) /\ d \in Vectors
  BY <1>1, <1>4, <1>5, TimeReachedNext
<1>7. work' = [work EXCEPT ![which] = d]
  BY <1>1 DEF StageInTime, Shape, Root, u
<1> HIDE DEF d
<1>8. m' = 2 * m /\ UNCHANGED <<ctx, poly, which, pc, call, client>>
  BY DEF StageInTime
<1>9. /\ Shape'
      /\ IF which = "a" THEN work'.a = d /\ work'.b = work.b
                        ELSE work'.a = work.a /\ work'.b = d
  BY <1>1, <1>6, <1>7, <1>8, StageReplaces
<1>10. OperandsReached(work'.a, work'.b, which', m', a, b)
  BY <1>3, <1>6, <1>8, <1>9 DEF OperandsReached, c
<1>11. Multiplying'
  <2>1. form' = "coefficients" /\ ~twisted' /\ coeffs' = coeffs /\ ctx' = ctx
    BY <1>2, <1>8 DEF client
  <2>2. ctx.type = "negacyclic" => coeffs' = Product(a, b)
    BY <1>3, <2>1 DEF Asked
  <2>3. QED
    BY <1>10, <2>1, <2>2, MultiplyingNext
<1>12. Resting' /\ Transforming' /\ Inverting'
  BY <1>1, <1>8 DEF Resting, Transforming, Inverting
<1>13. QED
  BY <1>9, <1>11, <1>12 DEF Inv

\* A stage of an inverse transform by decimation in time
LEMMA InverseStageInTime ==
  ASSUME Inv, NaiveFits, StageInTime, call \in {"inverse", "product"}
  PROVE  Inv'
<1> DEFINE y == Inverted(Omega)
           v == DecimateInTime(work.a, m, y)
<1>1. Shape /\ pc = "dit" /\ m <= n /\ Inverting
  BY DEF Inv, StageInTime
<1>2. PICK d \in Vectors : Returned(d) /\ TimeReached(work.a, m, y, Dft(Sought(d), n, Omega))
  BY <1>1 DEF Inverting
<1> DEFINE c == Dft(Sought(d), n, Omega)
<1>3. which = "a" /\ TimeReached(work.a, m, y, c)
  BY <1>1, <1>2 DEF Inverting
<1>4. ctx \in Contexts /\ Sought(d) \in Vectors /\ Usable(y) /\ Omega \in Nat
  BY <1>1, ExpectedIs, RootsUsable
<1>5. c \in Vectors
  BY <1>4, DftIn
<1> HIDE DEF y, c
<1>6. TimeReached(v, 2 * m, y, c) /\ v \in Vectors
  BY <1>1, <1>3, <1>4, <1>5, TimeReachedNext
<1>7. Root = y
  BY DEF Root, y
<1>8. work' = [work EXCEPT ![which] = v]
  BY <1>1, <1>3, <1>7 DEF StageInTime, Shape
<1> HIDE DEF v
<1>9. m' = 2 * m /\ UNCHANGED <<ctx, poly, which, pc, call, client>>
  BY DEF StageInTime
<1>10. Shape' /\ work'.a = v
  BY <1>1, <1>3, <1>6, <1>8, <1>9, StageReplaces
<1>11. UNCHANGED <<ctx, call, coeffs, form, twisted>>
  BY <1>9 DEF client
<1>12. Returned(d)' /\ Sought(d) = IF call' = "product" THEN TwistedBy(d, Psi) ELSE d
  BY <1>2, <1>11, ReturnedFrame
<1>13. pc' = "dit" /\ TimeReached(work'.a, m', Inverted(Omega), Dft(Sought(d), n, Omega))
  BY <1>1, <1>6, <1>9, <1>10 DEF c, y
<1>14. Inverting'
  <2>1. /\ call = "inverse" => form = "values"
        /\ call = "product" => form = "coefficients" /\ ~twisted
    BY <1>1 DEF Inverting
  <2>2. QED
    BY <1>3, <1>9, <1>11, <1>12, <1>13, <2>1, InvertingNext
<1>15. Resting' /\ Transforming' /\ Multiplying'
  BY <1>1, <1>9 DEF Resting, Transforming, Multiplying
<1>16. QED
  BY <1>10, <1>14, <1>15 DEF Inv

\* A stage of decimation in frequency
LEMMA InverseStageInFrequency ==
  ASSUME Inv, NaiveFits, StageInFrequency
  PROVE  Inv'
<1> DEFINE v == DecimateInFrequency(work.a, m, Inverted(Omega))
<1>1. Shape /\ pc = "dif" /\ m >= 2 /\ Inverting
  BY DEF Inv, StageInFrequency
<1>2. call \in {"inverse", "product"}
  BY <1>1 DEF Shape
<1>3. PICK d \in Vectors : Returned(d) /\ FrequencyReached(work.a, m, Omega, Sought(d))
  BY <1>1, <1>2 DEF Inverting
<1>4. ctx \in Contexts /\ Sought(d) \in Vectors /\ which = "a"
  BY <1>1, <1>2, ExpectedIs DEF Inverting
<1>5. FrequencyReached(v, m \div 2, Omega, Sought(d)) /\ v \in Vectors
  BY <1>1, <1>3, <1>4, FrequencyReachedNext
<1>6. work' = [work EXCEPT ![which] = v]
  BY <1>1, <1>4 DEF StageInFrequency, Shape
<1> HIDE DEF v
<1>7. m' = m \div 2 /\ UNCHANGED <<ctx, poly, which, pc, call, client>>
  BY DEF StageInFrequency
<1>8. Shape' /\ work'.a = v
  BY <1>1, <1>4, <1>5, <1>6, <1>7, StageReplaces
<1>9. UNCHANGED <<ctx, call, coeffs, form, twisted>>
  BY <1>7 DEF client
<1>10. Returned(d)' /\ Sought(d) = IF call' = "product" THEN TwistedBy(d, Psi) ELSE d
  BY <1>3, <1>9, ReturnedFrame
<1>11. pc' = "dif" /\ FrequencyReached(work'.a, m', Omega, Sought(d))
  BY <1>1, <1>5, <1>7, <1>8
<1>12. Inverting'
  <2>1. /\ call = "inverse" => form = "values"
        /\ call = "product" => form = "coefficients" /\ ~twisted
    BY <1>1, <1>2 DEF Inverting
  <2>2. QED
    BY <1>4, <1>7, <1>9, <1>10, <1>11, <2>1, InvertingNext
<1>13. Resting' /\ Transforming' /\ Multiplying'
  BY <1>1, <1>7 DEF Resting, Transforming, Multiplying
<1>14. QED
  BY <1>8, <1>12, <1>13 DEF Inv

\* The second operand of a multiplication
LEMMA SecondOperandNext ==
  ASSUME Inv, NaiveFits, SecondOperand
  PROVE  Inv'
<1>1. Shape /\ pc = "dit" /\ m > n /\ call = "multiply" /\ which = "a" /\ Multiplying
  BY DEF Inv, SecondOperand
<1>2. form = "coefficients" /\ ~twisted /\ ctx \in Contexts
  BY <1>1 DEF Multiplying, Shape
<1>3. PICK a \in Vectors, b \in Vectors :
             Asked(a, b) /\ OperandsReached(work.a, work.b, which, m, a, b)
  BY <1>1 DEF Multiplying
<1>4. Blocks(work.a, ctx, n, Omega, TwistedBy(a, Psi), 1)
  <2>1. TimeReached(work.a, m, Omega, TwistedBy(a, Psi))
    BY <1>1, <1>3 DEF OperandsReached
  <2>2. QED
    BY <1>1, <1>2, <2>1, TimeReachedLast
<1>5. which' = "b" /\ m' = 2 /\ UNCHANGED <<ctx, poly, work, pc, call, client>>
  BY DEF SecondOperand
<1>6. OperandsReached(work'.a, work'.b, which', m', a, b)
  BY <1>1, <1>3, <1>4, <1>5 DEF OperandsReached
<1>7. Multiplying'
  <2>1. form' = "coefficients" /\ ~twisted' /\ coeffs' = coeffs /\ ctx' = ctx
    BY <1>2, <1>5 DEF client
  <2>2. ctx.type = "negacyclic" => coeffs' = Product(a, b)
    BY <1>3, <2>1 DEF Asked
  <2>3. QED
    BY <1>6, <2>1, <2>2, MultiplyingNext
<1>8. Shape'
  BY <1>1, <1>5, ContextFrame DEF Shape, client
<1>9. Resting' /\ Transforming' /\ Inverting'
  BY <1>1, <1>5 DEF Resting, Transforming, Inverting
<1>10. QED
  BY <1>7, <1>8, <1>9 DEF Inv

\* The values are multiplied, and the inverse transform starts.
LEMMA MultiplyValuesNext ==
  ASSUME Inv, NaiveFits, MultiplyValues
  PROVE  Inv'
<1>1. Shape /\ pc = "dit" /\ m > n /\ call = "multiply" /\ which = "b" /\ Multiplying
  BY DEF Inv, MultiplyValues
<1>2. form = "coefficients" /\ ~twisted /\ ctx \in Contexts
  BY <1>1 DEF Multiplying, Shape
<1>3. PICK a \in Vectors, b \in Vectors :
             Asked(a, b) /\ OperandsReached(work.a, work.b, which, m, a, b)
  BY <1>1 DEF Multiplying
<1>4. /\ Blocks(work.a, ctx, n, Omega, TwistedBy(a, Psi), 1)
      /\ TimeReached(work.b, m, Omega, TwistedBy(b, Psi))
  BY <1>1, <1>3 DEF OperandsReached
<1>5. Blocks(work.b, ctx, n, Omega, TwistedBy(b, Psi), 1)
  BY <1>1, <1>2, <1>4, TimeReachedLast
<1>6. Product(a, b) \in Vectors
  <2>1. ModPow(Omega, n, q) = 1
    BY <1>2, OmegaIs
  <2>2. QED
    BY <1>2, <2>1, OmegaIs, ProductValues
<1>7. PICK e \in Vectors : e = Product(a, b)
  BY <1>6
<1> DEFINE p == [i \in Indices |-> Mul(work.a[i], work.b[i])]
           c == TwistedBy(e, Psi)
           d == Dft(c, n, Omega)
           w == Permute(p)
           y == Inverted(Omega)
<1>8. d \in Vectors /\ p \in Vectors /\ \A i \in Indices : p[i] = Enc(d[i])
  BY <1>2, <1>3, <1>4, <1>5, <1>7, PointwiseIs
<1>9. c \in Vectors /\ Omega \in Nat /\ y \in Nat
  BY <1>1, <1>2, ExpectedIs, RootsUsable DEF Shape
<1> HIDE DEF p, c, y
<1>10. FrequencyReached(p, n, Omega, c)
  BY <1>2, <1>8, <1>9, FrequencyReachedFirst
<1> HIDE DEF d
<1>11. TimeReached(w, 2, y, d) /\ w \in Vectors
  BY <1>2, <1>8, <1>9, TimeReachedFirst
<1> HIDE DEF w
<1>12. /\ which' = "a" /\ call' = "product" /\ UNCHANGED <<ctx, poly, client>>
       /\ IF ctx.adapter = "scalar"
            THEN work' = [work EXCEPT !.a = p] /\ m' = n /\ pc' = "dif"
            ELSE work' = [work EXCEPT !.a = w] /\ m' = 2 /\ pc' = "dit"
  BY DEF MultiplyValues, StartTime, StartFrequency, p, w
<1>13. /\ work' \in [a : Vectors, b : Vectors]
       /\ IF ctx.adapter = "scalar" THEN work'.a = p ELSE work'.a = w
  <2>1. CASE ctx.adapter = "scalar"
    BY <1>1, <1>8, <1>12, <2>1 DEF Shape
  <2>2. CASE ctx.adapter # "scalar"
    BY <1>1, <1>11, <1>12, <2>2 DEF Shape
  <2>3. QED
    BY <2>1, <2>2
<1>14. Shape'
  BY <1>1, <1>12, <1>13, ContextFrame DEF Shape, client
<1>15. Resting' /\ Transforming' /\ Multiplying'
  BY <1>12 DEF Resting, Transforming, Multiplying
<1>16. ctx' = ctx /\ coeffs' = coeffs /\ form' = "coefficients" /\ ~twisted'
  BY <1>2, <1>12 DEF client
<1>17. Returned(e)'
  <2>1. Expected' = coeffs
    BY <1>16, ExpectedFrame
  <2>2. CASE ctx.type = "negacyclic"
    BY <1>3, <1>7, <1>16, <2>1, <2>2 DEF Returned, Asked
  <2>3. CASE ctx.type # "negacyclic"
    <3>1. e = ConstantProduct(a, b)
      BY <1>7, <2>3 DEF Product
    <3>2. \A i \in Indices : i # 0 => e[i] = 0
      BY <1>2, <3>1, ConstantProductIs
    <3>3. QED
      BY <1>12, <1>16, <2>3, <3>2, ContextFrame DEF Returned
  <2>4. QED
    BY <2>2, <2>3
<1>18. Inverting'
  <2>1. CASE ctx.adapter = "scalar"
    <3>1. pc' = "dif" /\ FrequencyReached(work'.a, m', Omega, TwistedBy(e, Psi))
      BY <1>10, <1>12, <1>13, <2>1 DEF c
    <3>2. QED
      BY <1>12, <1>16, <1>17, <3>1, InvertingNext
  <2>2. CASE ctx.adapter # "scalar"
    <3>1. pc' = "dit"
          /\ TimeReached(work'.a, m', Inverted(Omega), Dft(TwistedBy(e, Psi), n, Omega))
      BY <1>11, <1>12, <1>13, <2>2 DEF d, c, y
    <3>2. QED
      BY <1>12, <1>16, <1>17, <3>1, InvertingNext
  <2>3. QED
    BY <2>1, <2>2
<1>19. QED
  BY <1>14, <1>15, <1>18 DEF Inv

-----------------------------------------------------------------------------
\* Calls return.

\* The array that a call returns, and the client's own steps, rest.
LEMMA RestingNext ==
  ASSUME Shape, ctx' = ctx, NEW v \in Vectors, poly' = v, work' = [a |-> v, b |-> v],
         which' \in {"a", "b"}, m' = 0, pc' = "idle", call' = "none", coeffs' \in Vectors,
         form' \in {"coefficients", "values"}, twisted' \in BOOLEAN,
         twisted' => ctx.type = "negacyclic",
         v = IF form' = "coefficients" THEN Expected' ELSE Dft(Expected', n, Omega)
  PROVE  Inv'
<1>1. work' \in [a : Vectors, b : Vectors]
  OBVIOUS
<1>2. Shape'
  BY <1>1, ContextFrame DEF Shape
<1>3. Resting'
  BY ExpectedFrame DEF Resting
<1>4. Transforming' /\ Multiplying' /\ Inverting'
  BY DEF Transforming, Multiplying, Inverting
<1>5. QED
  BY <1>2, <1>3, <1>4 DEF Inv

\* A forward transform
LEMMA ForwardReturns ==
  ASSUME Inv, NaiveFits, ReturnForward
  PROVE  Inv'
<1>1. /\ Shape /\ pc = "dit" /\ m > n /\ TimeReached(work.a, m, Omega, Expected)
  BY DEF Inv, ReturnForward, Transforming
<1>2. ctx \in Contexts /\ Expected \in Vectors /\ Omega \in Nat
  BY <1>1, ExpectedIs, RootsUsable
<1> DEFINE v == Decoded(work.a)
<1>3. Blocks(work.a, ctx, n, Omega, Expected, 1)
  BY <1>1, <1>2, TimeReachedLast
<1>4. v = Dft(Expected, n, Omega) /\ v \in Vectors
  BY <1>2, <1>3, DecodedIs
<1>5. /\ poly' = v /\ work' = [a |-> v, b |-> v] /\ which' = "a" /\ m' = 0 /\ pc' = "idle"
      /\ call' = "none"
      /\ UNCHANGED <<ctx, coeffs, twisted>> /\ form' = "values"
  BY DEF ReturnForward, Return
<1> HIDE DEF v
<1>6. Expected' = Expected
  BY <1>5, ExpectedFrame DEF Expected
<1>7. coeffs' \in Vectors /\ twisted' \in BOOLEAN /\ (twisted' => ctx.type = "negacyclic")
  BY <1>1, <1>5 DEF Shape
<1>8. QED
  BY <1>1, <1>4, <1>5, <1>6, <1>7, RestingNext

\* What the stages of an inverse transform leave, in order
LEMMA OrderedIs ==
  ASSUME Inv, NaiveFits, StagesDone, call \in {"inverse", "product"}
  PROVE  \E d \in Vectors : Returned(d) /\ \A i \in Indices : Ordered[i] = Enc(n * Sought(d)[i])
<1>1. Shape /\ Inverting /\ pc # "idle"
  BY DEF Inv, StagesDone
<1>2. PICK d \in Vectors :
        /\ Returned(d)
        /\ IF pc = "dit" THEN TimeReached(work.a, m, Inverted(Omega), Dft(Sought(d), n, Omega))
                         ELSE FrequencyReached(work.a, m, Omega, Sought(d))
  BY <1>1 DEF Inverting
<1> DEFINE c == Sought(d)
<1>3. ctx \in Contexts /\ c \in Vectors /\ Omega \in Nat /\ Inverted(Omega) \in Nat
  BY <1>1, ExpectedIs, RootsUsable
<1> HIDE DEF c
<1>4. Summable(c, n)
  BY <1>3, VectorIs
<1>5. CASE pc = "dit"
  <2>1. m > n /\ TimeReached(work.a, m, Inverted(Omega), Dft(c, n, Omega))
    BY <1>2, <1>5 DEF StagesDone, c
  <2>2. Blocks(work.a, ctx, n, Inverted(Omega), Dft(c, n, Omega), 1)
    BY <1>3, <2>1, TimeReachedLast
  <2>3. MulMod(Omega, Inverted(Omega), q) = 1 /\ HasOrder(Omega, n, q)
    BY <1>3, OmegaIs
  <2>4. \A i \in Indices : work.a[i] = Enc(n * c[i])
    BY <1>3, <1>4, <2>2, <2>3, InverseTimeEnd
  <2>5. QED
    BY <1>2, <1>5, <2>4 DEF Ordered, c
<1>6. CASE pc = "dif"
  <2>1. m < 2 /\ FrequencyReached(work.a, m, Omega, c)
    BY <1>2, <1>6 DEF StagesDone, c
  <2>2. Blocks(work.a, ctx, 1, Omega, c, n)
    BY <1>3, <2>1, FrequencyReachedLast
  <2>3. \A i \in Indices : Permute(work.a)[i] = Enc(n * c[i])
    BY <1>3, <1>4, <2>2, FrequencyEnd
  <2>4. QED
    BY <1>2, <1>6, <2>3 DEF Ordered, c
<1>7. QED
  BY <1>2, <1>5, <1>6 DEF StagesDone, c

\* An inverse transform
LEMMA InverseReturns ==
  ASSUME Inv, NaiveFits, ReturnInverse
  PROVE  Inv'
<1>1. Shape /\ StagesDone /\ call = "inverse"
  BY DEF Inv, ReturnInverse
<1>2. ctx \in Contexts /\ Expected \in Vectors
  BY <1>1, ExpectedIs
<1>3. \A i \in Indices : Ordered[i] = Enc(n * Expected[i])
  BY <1>1, OrderedIs DEF Returned, Sought
<1> DEFINE v == [i \in Indices |-> Dec(Mul(Ordered[i], Enc(NInv)))]
<1>4. v = Expected
  BY <1>2, <1>3, UnscaledIs
<1>5. /\ poly' = v /\ work' = [a |-> v, b |-> v] /\ which' = "a" /\ m' = 0 /\ pc' = "idle"
      /\ call' = "none"
      /\ UNCHANGED <<ctx, coeffs, twisted>> /\ form' = "coefficients"
  BY DEF ReturnInverse, Return
<1> HIDE DEF v
<1>6. Expected' = Expected
  BY <1>5, ExpectedFrame DEF Expected
<1>7. coeffs' \in Vectors /\ twisted' \in BOOLEAN /\ (twisted' => ctx.type = "negacyclic")
  BY <1>1, <1>5 DEF Shape
<1>8. QED
  BY <1>1, <1>2, <1>4, <1>5, <1>6, <1>7, RestingNext

\* What a multiplication returns, and what its client goes on with
LEMMA ProductReturned ==
  ASSUME Inv, NaiveFits, ReturnProduct
  PROVE  /\ poly' \in Vectors /\ coeffs' = poly'
         /\ ctx.type = "negacyclic" => poly' = coeffs
<1>1. Shape /\ Inverting /\ StagesDone /\ call = "product" /\ pc # "idle"
  BY DEF Inv, ReturnProduct, StagesDone
<1>2. ctx \in Contexts /\ ~twisted
  BY <1>1 DEF Inverting, Shape
<1>3. PICK d \in Vectors :
             Returned(d) /\ \A i \in Indices : Ordered[i] = Enc(n * TwistedBy(d, Psi)[i])
  BY <1>1, OrderedIs DEF Sought
<1>4. IF ctx.type = "negacyclic" THEN d = coeffs ELSE \A i \in Indices : i # 0 => d[i] = 0
  BY <1>1, <1>2, <1>3 DEF Returned, Expected
<1> DEFINE untw == Powers(Enc(NInv), Enc(Inverted(Psi)))
           v == [i \in Indices |-> Dec(Mul(Ordered[i], untw[i]))]
<1>5. v = d
  BY <1>2, <1>3, <1>4, UntwistedIs
<1>6. poly' = v /\ coeffs' = IF ctx.type = "negacyclic" THEN coeffs ELSE v
  BY DEF ReturnProduct, ReturnToClient, Return
<1> HIDE DEF v
<1>7. QED
  BY <1>4, <1>5, <1>6

\* A multiplication
LEMMA ProductReturns ==
  ASSUME Inv, NaiveFits, ReturnProduct
  PROVE  Inv'
<1>1. Shape /\ Inverting /\ call = "product" /\ pc # "idle"
  BY DEF Inv, ReturnProduct, StagesDone
<1>2. form = "coefficients" /\ ~twisted
  BY <1>1 DEF Inverting
<1>3. PICK v \in Vectors : v = poly'
  BY ProductReturned
<1>4. /\ poly' = v /\ work' = [a |-> v, b |-> v] /\ which' = "a" /\ m' = 0 /\ pc' = "idle"
      /\ call' = "none"
      /\ UNCHANGED <<ctx, twisted>> /\ form' = form
  BY <1>3 DEF ReturnProduct, ReturnToClient, Return
<1>5. coeffs' = v
  BY <1>3, ProductReturned
<1>6. Expected' = v
  BY <1>2, <1>4, <1>5, ExpectedFrame
<1>7. coeffs' \in Vectors /\ twisted' \in BOOLEAN /\ (twisted' => ctx.type = "negacyclic")
  BY <1>1, <1>2, <1>4, <1>5 DEF Shape
<1>8. QED
  BY <1>1, <1>2, <1>4, <1>6, <1>7, RestingNext

-----------------------------------------------------------------------------
\* The client's own steps

\* Twisting
LEMMA TwistNext ==
  ASSUME Inv, NaiveFits, TwistInPlace
  PROVE  Inv'
<1>1. /\ Shape /\ Resting /\ pc = "idle" /\ form = "coefficients" /\ ~twisted
      /\ ctx.type = "negacyclic"
  BY DEF Inv, TwistInPlace, ClientArray
<1> DEFINE v == TwistedBy(poly, Psi)
<1>2. v \in Vectors /\ coeffs \in Vectors
  BY <1>1, ExpectedIs DEF Shape
<1>3. poly = coeffs
  BY <1>1 DEF Resting, Expected
<1>4. /\ poly' = v /\ work' = [a |-> v, b |-> v] /\ which' = which /\ m' = m /\ pc' = pc
      /\ call' = call
      /\ UNCHANGED <<ctx, coeffs, form>> /\ twisted' = TRUE
  BY DEF TwistInPlace, ClientArray
<1>5. Expected' = v
  BY <1>3, <1>4, ExpectedFrame
<1> HIDE DEF v
<1>6. which' \in {"a", "b"} /\ m' = 0 /\ pc' = "idle" /\ call' = "none" /\ form' = "coefficients"
  BY <1>1, <1>4 DEF Shape, Resting
<1>7. QED
  BY <1>1, <1>2, <1>4, <1>5, <1>6, RestingNext

\* Untwisting
LEMMA UntwistNext ==
  ASSUME Inv, NaiveFits, Untwist
  PROVE  Inv'
<1>1. Shape /\ Resting /\ pc = "idle" /\ form = "coefficients" /\ twisted
  BY DEF Inv, Untwist, ClientArray
<1>2. ctx \in Contexts /\ coeffs \in Vectors /\ ctx.type = "negacyclic"
  BY <1>1 DEF Shape
<1>3. poly = TwistedBy(coeffs, Psi)
  BY <1>1 DEF Resting, Expected
<1> DEFINE v == TwistedBy(poly, Inverted(Psi))
<1>4. v = coeffs
  BY <1>2, <1>3, UntwistIs
<1>5. /\ poly' = v /\ work' = [a |-> v, b |-> v] /\ which' = which /\ m' = m /\ pc' = pc
      /\ call' = call
      /\ UNCHANGED <<ctx, coeffs, form>> /\ twisted' = FALSE
  BY DEF Untwist, ClientArray
<1> HIDE DEF v
<1>6. Expected' = coeffs
  BY <1>5, ExpectedFrame
<1>7. which' \in {"a", "b"} /\ m' = 0 /\ pc' = "idle" /\ call' = "none" /\ form' = "coefficients"
  BY <1>1, <1>5 DEF Shape, Resting
<1>8. QED
  BY <1>1, <1>2, <1>4, <1>5, <1>6, <1>7, RestingNext

\* Multiplying values
LEMMA PointwiseNext ==
  ASSUME Inv, NaiveFits, NEW b \in Inputs(ctx), MultiplyPointwise(b)
  PROVE  Inv'
<1>1. Shape /\ Resting /\ pc = "idle" /\ form = "values" /\ twisted
  BY DEF Inv, MultiplyPointwise, ClientArray
<1>2. /\ ctx \in Contexts /\ coeffs \in Vectors /\ ctx.type = "negacyclic"
      /\ Omega \in Nat /\ Psi \in Nat
  BY <1>1, RootsUsable, ExpectedIs DEF Shape
<1>3. b \in Vectors
  BY <1>2, TransformAssumption DEF Vectors, Indices, n, q
<1> DEFINE A == Dft(TwistedBy(coeffs, Psi), n, Omega)
           B == Dft(TwistedBy(b, Psi), n, Omega)
           c == Product(coeffs, b)
           d == Dft(TwistedBy(c, Psi), n, Omega)
           v == [i \in Indices |-> MulMod(A[i], B[i], q)]
<1>4. poly = A
  BY <1>1 DEF Resting, Expected
<1>5. d \in Vectors /\ v = d
  BY <1>2, <1>3, StepwiseIs
<1>6. c \in Vectors
  <2>1. ModPow(Omega, n, q) = 1
    BY <1>2, OmegaIs
  <2>2. QED
    BY <1>2, <1>3, <2>1, ProductValues
<1>7. /\ poly' = v /\ work' = [a |-> v, b |-> v] /\ which' = which /\ m' = m /\ pc' = pc
      /\ call' = call
      /\ UNCHANGED <<ctx, form, twisted>> /\ coeffs' = c
  BY <1>2, <1>4 DEF MultiplyPointwise, ClientArray, Product
<1> HIDE DEF v, c
<1>8. Expected' = TwistedBy(c, Psi)
  BY <1>1, <1>7, ExpectedFrame
<1>9. v = Dft(Expected', n, Omega)
  BY <1>5, <1>8
<1> HIDE DEF d
<1>10. /\ which' \in {"a", "b"} /\ m' = 0 /\ pc' = "idle" /\ call' = "none" /\ form' = "values"
       /\ twisted' \in BOOLEAN
  BY <1>1, <1>7 DEF Shape, Resting
<1>11. QED
  BY <1>1, <1>2, <1>5, <1>6, <1>7, <1>9, <1>10, RestingNext

-----------------------------------------------------------------------------
\* The blocks of BlocksAreTransforms

\* A block holds some of the coefficients.
LEMMA PartSummable ==
  ASSUME ctx \in Contexts, NEW s, NEW M, Sizes(s, M), NEW u \in 0 .. M - 1, NEW c \in Vectors
  PROVE  Summable(Part(c, n, u * s, s), s) /\ n \div s = M
<1>1. PICK j \in Nat, k \in Nat : n = 2^(j + k) /\ s = 2^j /\ M = 2^k
  BY DEF Sizes
<1>2. s \in Nat \ {0} /\ M \in Nat \ {0} /\ n = s * M
  BY SizesRange
<1>3. n \div s = M
  <2>1. (M * s) \div s = M /\ s * M = M * s
    BY <1>2, WholeQuotient
  <2>2. QED
    BY <1>2, <2>1
<1> DEFINE g == ReverseBits(u, k)
           F == Part(c, n, u * s, s)
<1>4. Rev(n)[u * s] = g /\ g \in 0 .. M - 1
  BY <1>1, RevBlock
<1> HIDE DEF g
<1>5. \A t \in 0 .. s - 1 : F[t] = c[g + t * M]
  BY <1>3, <1>4 DEF Part
<1>6. \A i \in 0 .. n - 1 : c[i] \in Nat
  BY VectorIs DEF Summable
<1> HIDE DEF F
<1>7. ASSUME NEW t \in 0 .. s - 1
      PROVE  F[t] \in Nat
  <2> DEFINE r == s - (t + 1)
             a == t * M
             e == r * M
  <2>1. r \in Nat /\ s = (t + 1) + r /\ t \in Nat
    BY <1>2
  <2> HIDE DEF r
  <2>2. ((t + 1) + r) * M = (a + M) + e /\ a \in Nat /\ e \in Nat
    BY <1>2, <2>1
  <2> HIDE DEF a, e
  <2>3. n = (a + M) + e
    BY <1>2, <2>1, <2>2
  <2>4. g + a \in 0 .. n - 1
    BY <1>2, <1>4, <2>2, <2>3
  <2>5. QED
    BY <1>5, <1>6, <2>4 DEF a
<1>8. QED
  BY <1>3, <1>7 DEF Summable, F

\* A block decodes to the transform of its coefficients.
LEMMA BlockIs ==
  ASSUME ctx \in Contexts, NEW s, NEW M, Sizes(s, M), NEW u \in 0 .. M - 1, NEW i \in 0 .. s - 1,
         NEW root \in Nat, NEW c \in Vectors, NEW v, Blocks(v, ctx, s, root, c, 1)
  PROVE  Dec(v[u * s + i]) = Dft(Part(c, n, u * s, s), s, ModPow(root, M, q))[i]
<1> DEFINE e == u * s + i
           f == Part(c, n, u * s, s)
           x == ModPow(root, M, q)
           y == ModPow(root, M * i, q)
           a == Value(f, s, y, q)
           g == [t \in 0 .. s - 1 |-> f[t] * ModPow(x, t * i, q)]
<1>1. s \in Nat \ {0} /\ M \in Nat \ {0} /\ n = s * M /\ q \in Nat \ {0, 1} /\ q \in Nat \ {0}
  BY SizesRange, ContextIs
<1>2. Summable(f, s) /\ n \div s = M
  BY PartSummable
<1>3. u \in Nat /\ i \in Nat /\ M * i \in Nat /\ s \in Nat /\ M \in Nat
  BY <1>1
<1>4. e % s = i
  BY <1>1, <1>3, SumMods
<1>5. e \in 0 .. n - 1 /\ e - i = u * s
  <2> DEFINE b == u * s
             r == M - (u + 1)
             d == r * s
  <2>1. r \in Nat /\ M = (u + 1) + r
    BY <1>1
  <2> HIDE DEF r
  <2>2. ((u + 1) + r) * s = (b + s) + d /\ b \in Nat /\ d \in Nat
    BY <1>1, <1>3, <2>1
  <2>3. n = (b + s) + d
    <3>1. s * M = M * s
      BY <1>1
    <3>2. n = ((u + 1) + r) * s
      BY <1>1, <2>1, <3>1
    <3>3. QED
      BY <2>2, <3>2
  <2> HIDE DEF b, d
  <2>4. b + i \in 0 .. n - 1 /\ (b + i) - i = b
    BY <1>3, <2>2, <2>3
  <2>5. QED
    BY <2>4 DEF b
<1> HIDE DEF e, f
<1>6. Entry(c, n, s, root, e, q) = Value(f, s, ModPow(root, M * i, q), q)
  <2>1. e - (e % s) = u * s
    BY <1>4, <1>5
  <2>2. QED
    BY <1>2, <1>4, <2>1 DEF Entry, f
<1>7. y \in Nat
  BY <1>1, <1>3, ModPowNat
<1>8. \A t \in 0 .. s - 1 : g[t] = f[t] * ModPow(y, t, q)
  <2> SUFFICES ASSUME NEW t \in 0 .. s - 1
               PROVE  ModPow(x, t * i, q) = ModPow(y, t, q)
    OBVIOUS
  <2>1. t \in Nat /\ t * i \in Nat
    BY <1>3
  <2>2. ModPow(x, t * i, q) = ModPow(root, M * (t * i), q)
    BY <1>1, <1>3, <2>1, ModPowOfPow
  <2>3. ModPow(y, t, q) = ModPow(root, (M * i) * t, q)
    BY <1>1, <1>3, <2>1, ModPowOfPow
  <2>4. M * (t * i) = (M * i) * t
    BY <1>3, <2>1
  <2>5. QED
    BY <2>2, <2>3, <2>4
<1>9. Dft(f, s, x)[i] = Total(g, s) % q
  BY DEF Dft
<1> HIDE DEF x, y, g
<1>10. Total(g, s) = a
  BY <1>1, <1>2, <1>3, <1>7, <1>8, ValueTerms
<1>11. a \in Nat
  BY <1>1, <1>2, <1>3, <1>7, ValueNat
<1>12. v[e] = Enc(1 * a)
  <2>1. e \in 0 .. ctx.n - 1
    BY <1>5 DEF n
  <2>2. v[e] = Enc(1 * Entry(c, n, s, root, e, q))
    BY <2>1 DEF Blocks, Enc, n, q
  <2>3. QED
    BY <1>6, <2>2 DEF y
<1> HIDE DEF a
<1>13. Dec(Enc(1 * a)) = a % q
  <2>1. 1 * a = a
    BY <1>11
  <2>2. QED
    BY <1>11, <2>1, EncDec
<1>14. QED
  BY <1>9, <1>10, <1>12, <1>13 DEF e, f, x

-----------------------------------------------------------------------------
\* What the invariant says

\* TypeOK
LEMMA InvTypes == Inv => TypeOK
<1> SUFFICES ASSUME Inv
             PROVE  TypeOK
  OBVIOUS
<1>1. Shape /\ Resting /\ Transforming /\ Multiplying /\ Inverting
  BY DEF Inv
<1>2. ctx \in Contexts /\ poly \in Vectors /\ work.a \in Vectors /\ work.b \in Vectors
  BY <1>1 DEF Shape
<1>3. \A v \in Vectors : \A i \in Indices : v[i] \in 0 .. q - 1
  BY DEF Vectors
<1>4. \A v \in {poly, work.a, work.b} : \A i \in Indices : v[i] \in 0 .. q - 1
  BY <1>2, <1>3
<1>5. n \in Nat \ {0}
  BY <1>2, ContextIs
<1>6. m \in 0 .. 2 * n
  <2>1. CASE pc = "idle"
    BY <1>1, <1>5, <2>1 DEF Resting
  <2>2. CASE pc = "dit" /\ call = "forward"
    BY <1>1, <1>2, <2>2, TimeReachedRange DEF Transforming
  <2>3. CASE pc = "dit" /\ call = "multiply"
    <3>1. PICK a \in Vectors, b \in Vectors : OperandsReached(work.a, work.b, which, m, a, b)
      BY <1>1, <2>3 DEF Multiplying
    <3>2. QED
      BY <1>2, <3>1, TimeReachedRange DEF OperandsReached
  <2>4. CASE pc = "dit" /\ call \in {"inverse", "product"}
    <3>1. PICK d \in Vectors : TimeReached(work.a, m, Inverted(Omega), Dft(Sought(d), n, Omega))
      BY <1>1, <2>4 DEF Inverting
    <3>2. QED
      BY <1>2, <3>1, TimeReachedRange
  <2>5. CASE pc = "dif" /\ call \in {"inverse", "product"}
    <3>1. PICK d \in Vectors : FrequencyReached(work.a, m, Omega, Sought(d))
      BY <1>1, <2>5 DEF Inverting
    <3>2. QED
      BY <1>2, <3>1, FrequencyReachedRange
  <2>6. QED
    BY <1>1, <2>1, <2>2, <2>3, <2>4, <2>5 DEF Shape
<1>7. pc \in {"idle", "dit", "dif"} /\ form \in {"coefficients", "values"} /\ twisted \in BOOLEAN
  BY <1>1 DEF Shape
<1>8. QED
  BY <1>4, <1>6, <1>7 DEF TypeOK

\* BlocksAreTransforms
LEMMA InvBlocks == Inv => BlocksAreTransforms
<1> SUFFICES ASSUME Inv, pc = "dit", call = "forward"
             PROVE  LET s == m \div 2
                    IN  \A k \in 0 .. n \div s - 1 :
                          LET part == [i \in 0 .. s - 1 |->
                                         Expected[Bitrev[k * s] + i * (n \div s)]]
                              want == Dft(part, s, ModPow(Omega, n \div s, q))
                          IN  \A i \in 0 .. s - 1 : Dec(work.a[k * s + i]) = want[i]
  BY DEF BlocksAreTransforms
<1>1. Shape /\ TimeReached(work.a, m, Omega, Expected)
  BY DEF Inv, Transforming
<1>2. ctx \in Contexts /\ Expected \in Vectors
  BY <1>1, ExpectedIs
<1>3. PICK s, M : Sizes(s, M) /\ m = 2 * s /\ Blocks(work.a, ctx, s, Omega, Expected, 1)
  BY <1>1 DEF TimeReached
<1>4. s \in Nat \ {0} /\ M \in Nat \ {0} /\ n = s * M
  BY <1>3, SizesRange
<1>5. m \div 2 = s
  BY <1>3, <1>4
<1>6. n \div s = M
  <2>1. (M * s) \div s = M /\ s * M = M * s
    BY <1>4, WholeQuotient
  <2>2. QED
    BY <1>4, <2>1
<1>7. Bitrev = Rev(n)
  BY <1>2, BitrevIs
<1>8. Omega \in Nat
  <2>1. q \in Nat \ {0, 1} /\ q \in Nat \ {0} /\ ctx.omega \in Nat /\ ctx.psi \in Nat
    BY <1>2, ContextIs
  <2>2. Psi \in Nat
    BY <1>2, PsiIs
  <2>3. MulMod(Psi, Psi, q) \in Nat
    BY <2>1, <2>2, MulModCongruent
  <2>4. ctx.omega % q \in Nat
    BY <2>1, ReducedIs
  <2>5. QED
    BY <2>3, <2>4 DEF Omega, Reduced
<1>9. ASSUME NEW k \in 0 .. M - 1, NEW i \in 0 .. s - 1
      PROVE  Dec(work.a[k * s + i])
               = Dft([t \in 0 .. s - 1 |-> Expected[Rev(n)[k * s] + t * M]], s,
                     ModPow(Omega, M, q))[i]
  <2>1. Dec(work.a[k * s + i]) = Dft(Part(Expected, n, k * s, s), s, ModPow(Omega, M, q))[i]
    BY <1>2, <1>3, <1>8, BlockIs
  <2>2. Part(Expected, n, k * s, s) = [t \in 0 .. s - 1 |-> Expected[Rev(n)[k * s] + t * M]]
    BY <1>6 DEF Part
  <2>3. QED
    BY <2>1, <2>2
<1>10. QED
  BY <1>5, <1>6, <1>7, <1>9

\* ValuesAreTransform and CoefficientsKept
LEMMA InvResults == Inv => ValuesAreTransform /\ CoefficientsKept
BY DEF Inv, Resting, ValuesAreTransform, CoefficientsKept

-----------------------------------------------------------------------------

\* Every step keeps the invariant.
LEMMA NextInv ==
  ASSUME NaiveFits, Inv, [Next]_vars
  PROVE  Inv'
<1>1. CASE NttForward
  BY <1>1, ForwardStarts
<1>2. CASE NttInverse
  BY <1>2, InverseStarts
<1>3. ASSUME NEW b \in Inputs(ctx), NttNegacyclicMul(b)
      PROVE  Inv'
  BY <1>3, MultiplicationStarts
<1>4. ASSUME NEW b \in Inputs(ctx), MultiplyPointwise(b)
      PROVE  Inv'
  BY <1>4, PointwiseNext
<1>5. CASE TwistInPlace
  BY <1>5, TwistNext
<1>6. CASE Untwist
  BY <1>6, UntwistNext
<1>7. CASE StageInTime
  <2>1. call \in {"forward", "multiply", "inverse", "product"}
    BY <1>7 DEF Inv, Shape, StageInTime
  <2>2. QED
    BY <1>7, <2>1, ForwardStage, MultiplicationStage, InverseStageInTime
<1>8. CASE StageInFrequency
  BY <1>8, InverseStageInFrequency
<1>9. CASE SecondOperand
  BY <1>9, SecondOperandNext
<1>10. CASE MultiplyValues
  BY <1>10, MultiplyValuesNext
<1>11. CASE ReturnForward
  BY <1>11, ForwardReturns
<1>12. CASE ReturnInverse
  BY <1>12, InverseReturns
<1>13. CASE ReturnProduct
  BY <1>13, ProductReturns
<1>14. CASE UNCHANGED vars
  <2>1. UNCHANGED <<ctx, poly, work, which, m, pc, call, coeffs, form, twisted>>
    BY <1>14 DEF vars, client
  <2>2. Expected' = Expected
    BY <2>1, ExpectedFrame DEF Expected
  <2>3. Dft(Expected, n, Omega)' = Dft(Expected, n, Omega)
    BY <2>1, <2>2, ExpectedFrame
  <2>4. Shape'
    BY <2>1, ContextFrame DEF Inv, Shape
  <2>5. Resting'
    BY <2>1, <2>2, <2>3 DEF Inv, Resting
  <2>6. Transforming'
    BY <2>1, <2>2, ContextFrame DEF Inv, Transforming
  <2>7. Multiplying'
    <3>1. SUFFICES ASSUME pc = "dit", call = "multiply"
                   PROVE  Multiplying'
      BY <2>1 DEF Multiplying
    <3>2. form = "coefficients" /\ ~twisted
      BY <3>1 DEF Inv, Multiplying
    <3>3. PICK a \in Vectors, b \in Vectors :
                 Asked(a, b) /\ OperandsReached(work.a, work.b, which, m, a, b)
      BY <3>1 DEF Inv, Multiplying
    <3>4. /\ form' = "coefficients" /\ ~twisted'
          /\ ctx.type = "negacyclic" => coeffs' = Product(a, b)
      BY <2>1, <3>2, <3>3 DEF Asked
    <3>5. OperandsReached(work'.a, work'.b, which', m', a, b)
      BY <2>1, <3>3
    <3>6. QED
      BY <2>1, <3>4, <3>5, MultiplyingNext
  <2>8. Inverting'
    <3>1. SUFFICES ASSUME pc # "idle", call \in {"inverse", "product"}
                   PROVE  Inverting'
      BY <2>1 DEF Inverting
    <3>2. PICK d \in Vectors :
            /\ Returned(d)
            /\ IF pc = "dit"
                 THEN TimeReached(work.a, m, Inverted(Omega), Dft(Sought(d), n, Omega))
                 ELSE FrequencyReached(work.a, m, Omega, Sought(d))
      BY <3>1 DEF Inv, Inverting
    <3>3. /\ which = "a" /\ (call = "inverse" => form = "values")
          /\ call = "product" => form = "coefficients" /\ ~twisted
      BY <3>1 DEF Inv, Inverting
    <3>4. Returned(d)' /\ Sought(d) = IF call' = "product" THEN TwistedBy(d, Psi) ELSE d
      BY <2>1, <3>2, ReturnedFrame
    <3>5. QED
      BY <2>1, <3>2, <3>3, <3>4, InvertingNext
  <2>9. QED
    BY <2>4, <2>5, <2>6, <2>7, <2>8 DEF Inv
<1>15. QED
  BY <1>1, <1>2, <1>3, <1>4, <1>5, <1>6, <1>7, <1>8, <1>9, <1>10, <1>11, <1>12, <1>13, <1>14
     DEF Next

\* Inv holds in every state.
LEMMA InvAlways ==
  ASSUME NaiveFits
  PROVE  Spec => []Inv
<1>1. Init => Inv
  BY InitInv
<1>2. Inv /\ [Next]_vars => Inv'
  BY NextInv
<1>3. QED
  BY <1>1, <1>2, PTL DEF Spec

(***************************************************************************)
(* The arrays hold canonical residues and the size of the blocks is one a  *)
(* stage can have, whatever the calls.  The naive adapter takes the square *)
(* of psi for its root: as for all that follows, its contexts have to be   *)
(* negacyclic.                                                             *)
(***************************************************************************)
THEOREM TransformTypes ==
  ASSUME NaiveFits
  PROVE  Spec => []TypeOK
<1>1. Inv => TypeOK
  BY InvTypes
<1>2. Spec => []Inv
  BY InvAlways
<1>3. QED
  BY <1>1, <1>2, PTL

(***************************************************************************)
(* What ntt_forward returns are the values of the polynomial at the powers *)
(* of omega in their order, with each of the three adapters, for every     *)
(* size, modulus and radix, and after any calls before.                    *)
(***************************************************************************)
THEOREM ForwardIsRight ==
  ASSUME NaiveFits
  PROVE  Spec => []ValuesAreTransform
<1>1. Inv => ValuesAreTransform
  BY InvResults
<1>2. Spec => []Inv
  BY InvAlways
<1>3. QED
  BY <1>1, <1>2, PTL

(***************************************************************************)
(* ntt_inverse gives back the coefficients the array stood for; on         *)
(* negacyclic contexts these are, after any calls of ntt_negacyclic_mul    *)
(* and products assembled step by step (twist, forward, multiply, inverse, *)
(* untwist), those of the product modulo x^n + 1.                          *)
(***************************************************************************)
THEOREM CoefficientsAreRight ==
  ASSUME NaiveFits
  PROVE  Spec => []CoefficientsKept
<1>1. Inv => CoefficientsKept
  BY InvResults
<1>2. Spec => []Inv
  BY InvAlways
<1>3. QED
  BY <1>1, <1>2, PTL

(***************************************************************************)
(* Where every context has a psi, each ntt_negacyclic_mul returns the      *)
(* product of its operands modulo x^n + 1, as ntt.h promises, with each of *)
(* the three adapters and after any calls before.                          *)
(***************************************************************************)
THEOREM ProductsAreRight ==
  ASSUME \A x \in Contexts : x.type = "negacyclic"
  PROVE  Spec => ProductsKept
<1>1. NaiveFits
  BY DEF NaiveFits
<1>2. Inv /\ [Next]_vars => [call = "product" /\ pc' = "idle" => poly' = coeffs]_vars
  <2> SUFFICES ASSUME Inv, Next, call = "product", pc' = "idle"
               PROVE  poly' = coeffs
    OBVIOUS
  <2>1. ctx.type = "negacyclic"
    BY DEF Inv, Shape
  <2>2. ReturnProduct \/ pc = "idle"
    BY DEF Next, NttForward, NttInverse, StartTime, StartFrequency, NttNegacyclicMul,
           StageInTime, StageInFrequency, SecondOperand, MultiplyValues, ReturnForward,
           ReturnInverse, MultiplyPointwise, TwistInPlace, Untwist, ClientArray
  <2>3. CASE ReturnProduct
    BY <1>1, <2>1, <2>3, ProductReturned
  <2>4. pc # "idle"
    BY DEF Inv, Shape
  <2>5. QED
    BY <2>2, <2>3, <2>4
<1>3. Spec => []Inv
  BY <1>1, InvAlways
<1>4. QED
  BY <1>2, <1>3, PTL DEF Spec, ProductsKept

(***************************************************************************)
(* Between the stages of a forward transform every block decodes to the    *)
(* transform of the coefficients whose indices its place reversed gives.   *)
(***************************************************************************)
THEOREM StagesAreRight ==
  ASSUME NaiveFits
  PROVE  Spec => []BlocksAreTransforms
<1>1. Inv => BlocksAreTransforms
  BY InvBlocks
<1>2. Spec => []Inv
  BY InvAlways
<1>3. QED
  BY <1>1, <1>2, PTL

=============================================================================
