-------------------------- MODULE ArithmeticProofs --------------------------
(***************************************************************************)
(* What the arithmetic of library and adapters computes, proved for words  *)
(* of every size and for every modulus that an adapter accepts.            *)
(*                                                                         *)
(* The operators come first: sums and differences, products of words and   *)
(* their carries, the reciprocals and Barrett's reductions, Newton's       *)
(* inverse and Montgomery's reductions, the multiplication by doubling,    *)
(* the operations of the scalar adapter.  A factor R that the values of    *)
(* Montgomery's arithmetic carry (ScaleOf) is 1 in the others, so that one *)
(* statement serves all.  The session follows: its invariant Sound, and    *)
(* that each of its steps is the step of the ring of residues.             *)
(***************************************************************************)
EXTENDS Arithmetic, NumberTheoryProofs

\* Below twice the modulus, one subtraction reduces.
LEMMA ModOnce ==
  ASSUME NEW n \in Nat \ {0}, NEW k \in 0 .. 2 * n - 1
  PROVE  k % n = IF k < n THEN k ELSE k - n
<1>1. CASE k < n
  BY <1>1, ModUnique
<1>2. CASE k >= n
  BY <1>2, ModUnique
<1>3. QED
  BY <1>1, <1>2

\* A sum of two words wraps at most once.
LEMMA WrapOnce ==
  ASSUME Base \in Nat, NEW k \in 0 .. 2 * Base - 1
  PROVE  Wrap(k) = IF k < Base THEN k ELSE k - Base
<1>1. Base \in Nat \ {0}
  OBVIOUS
<1>2. QED
  BY <1>1, ModOnce DEF Wrap

-----------------------------------------------------------------------------

\* addmod_u64 of the library: for every modulus of a word, also one above half
\* of it, where the sum of two residues may wrap.
THEOREM AddModU64Correct ==
  ASSUME Base \in Nat, NEW n \in 1 .. Base,
         NEW v \in 0 .. n - 1, NEW y \in 0 .. n - 1
  PROVE  AddModU64(v, y, n) = (v + y) % n
<1>1. (v + y) % n = IF v + y < n THEN v + y ELSE v + y - n
  BY ModOnce
<1>2. Wrap(v + y) = IF v + y < Base THEN v + y ELSE v + y - Base
  BY WrapOnce
<1>3. CASE v + y < Base
  BY <1>1, <1>2, <1>3 DEF AddModU64
<1>4. CASE v + y >= Base
  <2>1. Wrap((v + y - Base) + (Base - n)) = v + y - n
    BY <1>4, WrapOnce
  <2>2. QED
    BY <1>1, <1>2, <1>4, <2>1 DEF AddModU64
<1>5. QED
  BY <1>3, <1>4

\* Addition of residues in every arithmetic; the adapters take moduli up to
\* half a word (ntt__validate_modulus), where no sum wraps.
THEOREM SumsCorrect ==
  ASSUME Base \in Nat, NEW n \in Nat \ {0}, 2 * n <= Base,
         NEW v \in 0 .. n - 1, NEW y \in 0 .. n - 1
  PROVE  /\ \A version \in {"utils", "toy", "naive"} :
              DoublingAdd(version, v, y, n) = (v + y) % n
         /\ \A s : s.q = n => ScalarAdd(s, v, y) = (v + y) % n
<1>1. Wrap(v + y) = v + y
  BY WrapOnce
<1>2. (v + y) % n = IF v + y < n THEN v + y ELSE v + y - n
  <2> DEFINE sum == v + y
  <2>1. sum \in 0 .. 2 * n - 1
    OBVIOUS
  <2> HIDE DEF sum
  <2>2. sum % n = IF sum < n THEN sum ELSE sum - n
    BY <2>1, ModOnce
  <2>3. QED
    BY <2>2 DEF sum
<1>3. AddModU64(v, y, n) = (v + y) % n
  BY AddModU64Correct
<1>4. \A s : s.q = n => ScalarAdd(s, v, y) = (v + y) % n
  BY <1>1, <1>2 DEF ScalarAdd, Once
<1>5. QED
  BY <1>1, <1>2, <1>3, <1>4 DEF DoublingAdd

\* Subtraction of residues in every arithmetic that has it: the modulus is
\* added first, and no intermediate value wraps below zero.
THEOREM DifferencesCorrect ==
  ASSUME Base \in Nat, NEW n \in Nat \ {0}, 2 * n <= Base,
         NEW v \in 0 .. n - 1, NEW y \in 0 .. n - 1
  PROVE  /\ \A version \in {"toy", "naive"} :
              DoublingSub(version, v, y, n) = (v + n - y) % n
         /\ \A s : s.q = n => ScalarSub(s, v, y) = (v + n - y) % n
<1>1. Wrap(v + n) = v + n
  BY WrapOnce
<1>2. (v + n - y) % n = IF v < y THEN v + n - y ELSE v - y
  <2> DEFINE sum == v + n - y
  <2>1. sum \in 0 .. 2 * n - 1
    OBVIOUS
  <2> HIDE DEF sum
  <2>2. sum % n = IF sum < n THEN sum ELSE sum - n
    BY <2>1, ModOnce
  <2>3. QED
    BY <2>2 DEF sum
<1>3. WrapMinus(v + n, y) = v + n - y
  <2>1. WrapMinus(v + n, y) = Wrap(v + n + Base - y)
    BY DEF WrapMinus, Wrap
  <2>2. QED
    BY <2>1, WrapOnce
<1>4. \A s : s.q = n => ScalarSub(s, v, y) = (v + n - y) % n
  BY <1>1, <1>2 DEF ScalarSub
<1>5. QED
  BY <1>1, <1>2, <1>3, <1>4 DEF DoublingSub

-----------------------------------------------------------------------------

\* The reciprocal of ntt_scalar_barrett_mu_u64 is that of a word's range, which
\* is itself no word.
THEOREM BarrettMuCorrect ==
  ASSUME Base \in Nat \ {0}, NEW n \in Nat \ {0}
  PROVE  BarrettMu(n) = Base \div n
<1> DEFINE d == (Base - 1) \div n
           e == (Base - 1) % n
<1>1. d \in Nat /\ e \in 0 .. n - 1 /\ Base - 1 = d * n + e
  <2>1. Base - 1 \in Nat
    OBVIOUS
  <2>2. QED
    BY <2>1, DivMod
<1> DEFINE d1 == Base \div n
           e1 == Base % n
<1>2. d1 \in Nat /\ e1 \in 0 .. n - 1 /\ Base = d1 * n + e1
  BY DivMod
<1>3. BarrettMu(n) = IF e = n - 1 THEN d + 1 ELSE d
  BY <1>1 DEF BarrettMu, Bit
<1> HIDE DEF d, e, d1, e1
<1>4. d1 = IF e = n - 1 THEN d + 1 ELSE d
  <2> DEFINE k == IF e = n - 1 THEN d + 1 ELSE d
             r == IF e = n - 1 THEN 0 ELSE e + 1
  <2>1. k \in Nat /\ r \in 0 .. n - 1 /\ Base = k * n + r
    BY <1>1
  <2> HIDE DEF k, r
  <2>2. e1 = r
    BY <2>1, ModUnique DEF e1
  <2>3. d1 * n = k * n
    BY <1>2, <2>1, <2>2
  <2>4. d1 = k
    BY <1>2, <2>1, <2>3
  <2>5. QED
    BY <2>4 DEF k
<1>5. QED
  BY <1>3, <1>4 DEF d1

\* Barrett's quotient is too small by at most one, with the reciprocal of any
\* range: the word's, or that of two words.
LEMMA BarrettBound ==
  ASSUME NEW N \in Nat \ {0}, NEW n \in Nat \ {0}, NEW v \in 0 .. N - 1
  PROVE  /\ (v * (N \div n)) \div N \in Nat
         /\ v - ((v * (N \div n)) \div N) * n \in 0 .. 2 * n - 1
<1> DEFINE mu == N \div n
           rho == N % n
           k == (v * mu) \div N
           sigma == (v * mu) % N
<1>1. mu \in Nat /\ rho \in 0 .. n - 1 /\ N = mu * n + rho
  BY DivMod
<1>2. v \in Nat /\ v < N
  OBVIOUS
<1>3. v * mu \in Nat
  BY <1>1, <1>2
<1>4. k \in Nat /\ sigma \in 0 .. N - 1 /\ v * mu = k * N + sigma
  BY <1>3, DivMod
<1> HIDE DEF mu, rho, k, sigma
\* k * n <= v < (k + 2) * n, both multiplied by N
<1>5. N * v = N * (k * n) + (n * sigma + rho * v)
  <2>1. N * v = (mu * n) * v + rho * v
    BY <1>1, <1>2
  <2>2. (mu * n) * v = (v * mu) * n
    BY <1>1, <1>2
  <2>3. (v * mu) * n = (k * N) * n + sigma * n
    BY <1>4
  <2>4. (k * N) * n = N * (k * n) /\ sigma * n = n * sigma
    BY <1>4
  <2>5. QED
    BY <2>1, <2>2, <2>3, <2>4, <1>1, <1>2, <1>4
<1>6. 0 <= n * sigma + rho * v /\ n * sigma + rho * v < N * (2 * n)
  <2>1. 0 <= n * sigma /\ n * sigma <= n * (N - 1)
    BY <1>4
  <2>2. 0 <= rho * v /\ rho * v <= n * v /\ n * v <= n * (N - 1)
    BY <1>1, <1>2
  <2>3. n * (N - 1) + n * (N - 1) < N * (2 * n)
    OBVIOUS
  <2>4. QED
    BY <2>1, <2>2, <2>3, <1>1, <1>2, <1>4
<1>7. v - k * n \in 0 .. 2 * n - 1
  <2> DEFINE p == k * n
             rest == n * sigma + rho * v
  <2>1. p \in Nat /\ rest \in Nat
    BY <1>1, <1>2, <1>4
  <2>2. N * v = N * p + rest /\ rest < N * (2 * n)
    BY <1>5, <1>6
  <2> HIDE DEF p, rest
  <2>3. N * (v - p) = rest
    BY <1>2, <2>1, <2>2
  <2>4. v - p \in Int /\ 0 <= N * (v - p) /\ N * (v - p) < N * (2 * n)
    BY <1>2, <2>1, <2>2, <2>3
  <2>5. ASSUME NEW y \in Int, NEW z \in Int, N * y < N * z
        PROVE  y < z
    BY <2>5
  <2>6. v - p < 2 * n
    BY <2>4, <2>5
  <2>7. 0 <= v - p
    <3>1. ASSUME NEW y \in Int, 0 <= N * y
          PROVE  0 <= y
      BY <3>1
    <3>2. QED
      BY <2>4, <3>1
  <2>8. QED
    BY <2>4, <2>6, <2>7 DEF p
<1>8. QED
  BY <1>4, <1>7 DEF k, mu

\* One subtraction ends a reduction whose quotient is too small by at most one.
LEMMA OnceReduces ==
  ASSUME NEW n \in Nat \ {0}, NEW v \in Nat, NEW k \in Nat, v - k * n \in 0 .. 2 * n - 1
  PROVE  Once(v - k * n, n) = v % n
<1> DEFINE y == v - k * n
<1>1. y \in 0 .. 2 * n - 1 /\ v = k * n + y
  OBVIOUS
<1> HIDE DEF y
<1>2. CASE y >= n
  <2> DEFINE k1 == k + 1
             y1 == y - n
  <2>1. v = k1 * n + y1 /\ y1 \in 0 .. n - 1 /\ k1 \in Nat
    BY <1>1, <1>2
  <2> HIDE DEF k1, y1
  <2>2. v % n = y1
    BY <2>1, ModUnique
  <2>3. QED
    BY <1>2, <2>2 DEF y, y1, Once
<1>3. CASE y < n
  <2>1. y \in 0 .. n - 1
    BY <1>1, <1>3
  <2>2. v % n = y
    BY <1>1, <2>1, ModUnique
  <2>3. ~(y >= n)
    BY <1>1, <1>3
  <2>4. QED
    BY <2>2, <2>3 DEF y, Once
<1>4. QED
  BY <1>1, <1>2, <1>3

-----------------------------------------------------------------------------

\* Montgomery's reduction with any radix R: t plus the multiple m of the modulus
\* is a multiple e * R of the radix, and e, with at most one subtraction, is the
\* residue that t stands for.
LEMMA MontgomeryExact ==
  ASSUME NEW R \in Nat \ {0}, NEW n \in 1 .. R - 1, NEW qinv \in 0 .. R - 1,
         (qinv * n) % R = R - 1, NEW t \in 0 .. n * R - 1
  PROVE  \E e \in 0 .. 2 * n - 1 :
           /\ t + (((t % R) * qinv) % R) * n = e * R
           /\ Once(e, n) \in 0 .. n - 1
           /\ (Once(e, n) * R) % n = t % n
<1> DEFINE t0 == t % R
           t1 == t \div R
           m  == (t0 * qinv) % R
           j  == (t0 * qinv) \div R
           c  == (qinv * n) \div R
<1>1. t \in Nat /\ qinv \in Nat /\ n \in Nat \ {0} /\ n < R /\ t < n * R
  <2>1. n * R \in Nat
    OBVIOUS
  <2>2. QED
    BY <2>1
<1>2. t1 \in Nat /\ t0 \in 0 .. R - 1 /\ t = t1 * R + t0
  BY <1>1, DivMod
<1>3. m \in 0 .. R - 1 /\ j \in Nat /\ t0 * qinv = j * R + m
  <2>1. t0 * qinv \in Nat
    BY <1>1, <1>2
  <2>2. QED
    BY <1>1, <2>1, DivMod
<1>4. c \in Nat /\ qinv * n + 1 = (c + 1) * R
  <2>1. qinv * n \in Nat
    BY <1>1
  <2>2. c \in Nat /\ qinv * n = c * R + (R - 1)
    BY <1>1, <2>1, DivMod
  <2>3. QED
    BY <1>1, <2>2
<1> DEFINE e == (t1 + t0 * (c + 1)) - j * n
<1>5. e \in Int
  BY <1>1, <1>2, <1>3, <1>4
<1> HIDE DEF t0, t1, m, j, c
<1>6. t + m * n = e * R
  <2>1. m * n = (t0 * qinv) * n - (j * R) * n
    BY <1>1, <1>2, <1>3
  <2>2. (t0 * qinv) * n = t0 * (qinv * n)
    BY <1>1, <1>2
  <2>3. t0 * (qinv * n) + t0 = t0 * ((c + 1) * R)
    BY <1>1, <1>2, <1>4
  <2>4. t0 * ((c + 1) * R) = (t0 * (c + 1)) * R /\ (j * R) * n = (j * n) * R
    BY <1>1, <1>2, <1>3, <1>4
  <2> DEFINE A == t0 * (c + 1)
             B == j * n
             C == (t0 * qinv) * n
  <2>5. A \in Nat /\ B \in Nat /\ C \in Nat
    BY <1>1, <1>2, <1>3, <1>4
  <2>6. m * n = C - B * R /\ C + t0 = A * R
    BY <2>1, <2>2, <2>3, <2>4
  <2>7. e = (t1 + A) - B
    OBVIOUS
  <2> HIDE DEF A, B, C, e
  <2>8. t + m * n = (t1 * R + A * R) - B * R
    BY <2>5, <2>6, <1>1, <1>2, <1>3
  <2>9. ASSUME NEW w \in Nat, NEW y \in Nat, NEW z \in Nat
        PROVE  ((w + y) - z) * R = (w * R + y * R) - z * R
    OBVIOUS
  <2>10. e * R = (t1 * R + A * R) - B * R
    BY <2>5, <2>7, <2>9, <1>2
  <2>11. QED
    BY <2>8, <2>10
<1> HIDE DEF e
<1>7. m * n \in Nat /\ m * n < n * R
  <2>1. m * n \in Nat /\ m * n <= (R - 1) * n
    BY <1>1, <1>3
  <2>2. (R - 1) * n < n * R
    BY <1>1
  <2>3. QED
    BY <2>1, <2>2, <1>1
<1>8. e \in 0 .. 2 * n - 1
  <2>1. 0 <= e * R /\ e * R < (2 * n) * R
    BY <1>6, <1>7, <1>1
  <2>2. ASSUME NEW y \in Int, 0 <= y * R
        PROVE  0 <= y
    BY <2>2
  <2>3. ASSUME NEW y \in Int, NEW z \in Int, y * R < z * R
        PROVE  y < z
    BY <2>3
  <2>4. QED
    BY <2>1, <2>2, <2>3, <1>1, <1>5
<1>9. (e * R) % n = t % n
  <2>1. m \in Nat /\ e * R = m * n + t
    BY <1>1, <1>3, <1>6, <1>7
  <2>2. (m * n + t) % n = t % n
    BY <1>1, <2>1, ModAdd
  <2>3. QED
    BY <2>1, <2>2
<1>10. CASE e >= n
  <2> DEFINE b == (e - n) * R
  <2>1. b \in Nat /\ e * R = R * n + b
    BY <1>1, <1>8, <1>10
  <2> HIDE DEF b
  <2>2. (R * n + b) % n = b % n
    BY <1>1, <2>1, ModAdd
  <2>3. b % n = t % n
    BY <1>9, <2>1, <2>2
  <2>4. Once(e, n) = e - n /\ Once(e, n) \in 0 .. n - 1
    BY <1>1, <1>8, <1>10 DEF Once
  <2>5. QED
    BY <1>6, <1>8, <2>3, <2>4 DEF b, m, t0
<1>11. CASE ~(e >= n)
  <2>1. Once(e, n) = e /\ Once(e, n) \in 0 .. n - 1
    BY <1>1, <1>8, <1>11 DEF Once
  <2>2. QED
    BY <1>6, <1>8, <1>9, <2>1 DEF m, t0
<1>12. QED
  BY <1>10, <1>11

-----------------------------------------------------------------------------

\* A word is two halves.
LEMMA WordFacts ==
  /\ Half \in Nat /\ Half >= 2 /\ Base = Half * Half
  /\ Base \in Nat /\ Base >= 4 /\ Half < Base /\ Base = 2^WordBits
  /\ Word = 0 .. Base - 1
<1> DEFINE h == WordBits \div 2
           g == h - 1
<1>1. h \in Nat /\ g \in Nat /\ h = g + 1 /\ WordBits = h + h
  BY WordAssumption
<1>2. 2^h = 2 * 2^g /\ 2^g \in Nat \ {0}
  BY <1>1, PowersOfTwo
<1>3. 2^(h + h) = 2^h * 2^h
  BY <1>1, TwoPowSum
<1>4. Half = 2^h /\ Base = 2^(h + h)
  BY <1>1 DEF Half, Base
<1> HIDE DEF h, g
<1> DEFINE w == 2^g
<1> HIDE DEF w
<1>5. Half = 2 * w /\ w \in Nat \ {0} /\ Base = Half * Half
  BY <1>2, <1>3, <1>4 DEF w
<1>6. Half \in Nat /\ Half >= 2
  BY <1>5
<1>7. Base \in Nat /\ Base >= 4 /\ Half < Base
  <2>1. Half * Half >= 2 * Half /\ Half * Half \in Nat
    BY <1>6
  <2>2. QED
    BY <1>5, <1>6, <2>1
<1>8. QED
  BY <1>5, <1>6, <1>7 DEF Base, Word

\* The quotient of a number below N * M by N
LEMMA DivBound ==
  ASSUME NEW N \in Nat \ {0}, NEW M \in Nat \ {0}, NEW v \in Nat, v < N * M
  PROVE  v \div N \in 0 .. M - 1
<1> DEFINE d == v \div N
           r == v % N
<1>1. d \in Nat /\ r \in 0 .. N - 1 /\ v = d * N + r
  BY DivMod
<1> HIDE DEF d, r
<1>2. ASSUME d >= M
      PROVE  FALSE
  <2>1. d * N >= N * M
    BY <1>1, <1>2
  <2>2. QED
    BY <1>1, <2>1
<1>3. QED
  BY <1>1, <1>2 DEF d

\* The product of two words has two words.
LEMMA ProductOfWords ==
  ASSUME NEW a \in Word, NEW b \in Word
  PROVE  /\ a \in Nat /\ b \in Nat /\ a * b \in Nat
         /\ a * b < Base * Base
         /\ (a * b) \div Base \in Word
<1>1. a \in Nat /\ b \in Nat /\ a <= Base - 1 /\ b <= Base - 1 /\ Base \in Nat \ {0}
  BY WordFacts
<1>2. a * b \in Nat /\ a * b <= (Base - 1) * b /\ (Base - 1) * b <= (Base - 1) * (Base - 1)
  BY <1>1
<1>3. (Base - 1) * (Base - 1) < Base * Base
  BY <1>1
<1> DEFINE v == a * b
<1>4. v \in Nat /\ v < Base * Base
  BY <1>1, <1>2, <1>3
<1> HIDE DEF v
<1>5. v \div Base \in 0 .. Base - 1
  BY <1>1, <1>4, DivBound
<1>6. QED
  BY <1>1, <1>4, <1>5 DEF v, Word

\* A word is made of its halves.
LEMMA HalvesOf ==
  ASSUME NEW v \in Word
  PROVE  v % Half \in Nat /\ v \div Half \in Nat /\ v = (v \div Half) * Half + (v % Half)
<1>1. v \in Nat /\ Half \in Nat \ {0}
  BY WordFacts
<1>2. v % Half \in 0 .. Half - 1 /\ v \div Half \in Nat
      /\ v = (v \div Half) * Half + (v % Half)
  BY <1>1, DivMod
<1>3. QED
  BY <1>1, <1>2

\* scalar_mulhi_u64 is the high word of the product, on either kind of build.
THEOREM MulHiCorrect ==
  ASSUME NEW a \in Word, NEW b \in Word, NEW portable
  PROVE  MulHi(a, b, portable) = (a * b) \div Base /\ MulHi(a, b, portable) \in Word
<1> DEFINE a0 == a % Half
           a1 == a \div Half
           b0 == b % Half
           b1 == b \div Half
           p0 == a0 * b0
           p1 == a0 * b1
           p2 == a1 * b0
           p3 == a1 * b1
           middle == p0 \div Half + (p1 % Half) + (p2 % Half)
           high == p3 + p1 \div Half + p2 \div Half + middle \div Half
<1>1. Half \in Nat \ {0} /\ Base = Half * Half /\ Base \in Nat \ {0} /\ a \in Nat /\ b \in Nat
  BY WordFacts
<1>2. a0 \in Nat /\ a1 \in Nat /\ a = a1 * Half + a0
  BY HalvesOf
<1>3. b0 \in Nat /\ b1 \in Nat /\ b = b1 * Half + b0
  BY HalvesOf
<1> HIDE DEF a0, a1, b0, b1
<1>4. p0 \in Nat /\ p1 \in Nat /\ p2 \in Nat /\ p3 \in Nat
  BY <1>2, <1>3
<1>5. a * b = p3 * (Half * Half) + (p1 + p2) * Half + p0
  BY <1>1, <1>2, <1>3
<1> HIDE DEF p0, p1, p2, p3
<1> DEFINE h0 == p0 \div Half
           h1 == p1 \div Half
           h2 == p2 \div Half
           l0 == p0 % Half
           l1 == p1 % Half
           l2 == p2 % Half
<1>6. /\ h0 \in Nat /\ l0 \in 0 .. Half - 1 /\ p0 = h0 * Half + l0
      /\ h1 \in Nat /\ l1 \in 0 .. Half - 1 /\ p1 = h1 * Half + l1
      /\ h2 \in Nat /\ l2 \in 0 .. Half - 1 /\ p2 = h2 * Half + l2
  BY <1>1, <1>4, DivMod
<1>7. middle = h0 + l1 + l2 /\ high = p3 + h1 + h2 + middle \div Half
  OBVIOUS
<1> HIDE DEF h0, h1, h2, l0, l1, l2, middle, high
<1> DEFINE mh == middle \div Half
           ml == middle % Half
<1>8. mh \in Nat /\ ml \in 0 .. Half - 1 /\ middle = mh * Half + ml /\ middle \in Nat
  <2>1. middle \in Nat
    BY <1>6, <1>7
  <2>2. QED
    BY <1>1, <2>1, DivMod
<1> HIDE DEF mh, ml
<1>9. high = p3 + h1 + h2 + mh
  BY <1>7 DEF mh
<1>10. a * b = high * Base + (ml * Half + l0)
  <2>1. (p1 + p2) * Half = (h1 + h2) * (Half * Half) + (l1 + l2) * Half
    BY <1>1, <1>6
  <2>2. h0 + l1 + l2 = mh * Half + ml
    BY <1>7, <1>8
  <2>3. (h0 + l1 + l2) * Half = mh * (Half * Half) + ml * Half
    BY <2>2, <1>1, <1>6, <1>8
  <2>4. (h0 + l1 + l2) * Half = h0 * Half + (l1 + l2) * Half
    BY <1>1, <1>6
  <2>5. high * (Half * Half) = p3 * (Half * Half) + (h1 + h2) * (Half * Half) + mh * (Half * Half)
    BY <1>1, <1>4, <1>6, <1>8, <1>9
  <2> DEFINE s3 == p3 * (Half * Half)
             s2 == (h1 + h2) * (Half * Half)
             s1 == (l1 + l2) * Half
             s0 == h0 * Half
             sm == mh * (Half * Half)
             sl == ml * Half
  <2>6. /\ s3 \in Nat /\ s2 \in Nat /\ s1 \in Nat /\ s0 \in Nat /\ sm \in Nat /\ sl \in Nat
    BY <1>1, <1>4, <1>6, <1>8
  <2>7. a * b = s3 + (s2 + s1) + (s0 + l0) /\ s0 + s1 = sm + sl /\ high * Base = s3 + s2 + sm
    BY <1>1, <1>5, <1>6, <2>1, <2>3, <2>4, <2>5
  <2> HIDE DEF s3, s2, s1, s0, sm, sl
  <2>8. a * b = (s3 + s2 + sm) + (sl + l0)
    BY <1>6, <2>6, <2>7
  <2>9. QED
    BY <2>7, <2>8 DEF sl
<1>11. ml * Half + l0 \in 0 .. Base - 1
  <2>1. ml * Half <= (Half - 1) * Half /\ ml * Half \in Nat
    BY <1>1, <1>8
  <2>2. (Half - 1) * Half = Half * Half - Half
    BY <1>1
  <2>3. QED
    BY <1>1, <1>6, <2>1, <2>2
<1>12. high = (a * b) \div Base
  <2> DEFINE v == a * b
             r == ml * Half + l0
  <2>1. v \in Nat /\ r \in 0 .. Base - 1 /\ v = high * Base + r /\ high \in Nat
    BY <1>1, <1>4, <1>6, <1>8, <1>9, <1>10, <1>11
  <2> HIDE DEF v, r
  <2>2. v \div Base = high
    BY <1>1, <2>1, ModUnique
  <2>3. QED
    BY <2>2 DEF v
<1>13. (a * b) \div Base \in Word
  BY ProductOfWords
<1>14. Wrap(high) = high
  <2>1. high \in 0 .. 2 * Base - 1 /\ high < Base
    BY <1>1, <1>12, <1>13, WordFacts
  <2>2. QED
    BY <1>1, <2>1, WrapOnce
<1>15. MulHi(a, b, portable) = IF ~portable THEN (a * b) \div Base ELSE Wrap(high)
  BY DEF MulHi, high, mh, middle, h0, h1, h2, l1, l2, p0, p1, p2, p3, a0, a1, b0, b1
<1>16. QED
  BY <1>12, <1>13, <1>14, <1>15

\* What scalar_mulwide_u64 returns are the two words of the product.
LEMMA MulWideCorrect ==
  ASSUME NEW a \in Word, NEW b \in Word, NEW portable
  PROVE  \E hi \in Word, lo \in Word :
           /\ MulWide(a, b, portable) = <<hi, lo>>
           /\ a * b = hi * Base + lo
           /\ lo = (a * b) % Base
<1> DEFINE v == a * b
<1>1. v \in Nat /\ v \div Base \in Word
  BY ProductOfWords
<1>2. MulWide(a, b, portable) = <<v \div Base, v % Base>>
  BY MulHiCorrect DEF MulWide, Wrap
<1> HIDE DEF v
<1>3. v % Base \in 0 .. Base - 1 /\ v = (v \div Base) * Base + (v % Base)
  <2>1. Base \in Nat \ {0}
    BY WordFacts
  <2>2. QED
    BY <1>1, <2>1, DivMod
<1>4. QED
  BY <1>1, <1>2, <1>3, WordFacts DEF v

\* A sum of two words, with the carry that a comparison finds
LEMMA CarryIs ==
  ASSUME NEW u \in Word, NEW v \in Word
  PROVE  /\ Wrap(u + v) \in Word
         /\ u + v = Wrap(u + v) + Bit(Wrap(u + v) < u) * Base
         /\ u + v = Wrap(u + v) + Bit(Wrap(u + v) < v) * Base
<1>1. u \in Nat /\ v \in Nat /\ u < Base /\ v < Base /\ Base \in Nat
  BY WordFacts
<1>2. Wrap(u + v) = IF u + v < Base THEN u + v ELSE u + v - Base
  <2>1. u + v \in 0 .. 2 * Base - 1
    BY <1>1
  <2>2. QED
    BY <1>1, <2>1, WrapOnce
<1>3. CASE u + v < Base
  BY <1>1, <1>2, <1>3 DEF Bit, Word
<1>4. CASE ~(u + v < Base)
  BY <1>1, <1>2, <1>4 DEF Bit, Word
<1>5. QED
  BY <1>3, <1>4

\* A double word as a number
Number(w) == w[1] * Base + w[2]

\* scalar_mulhi128_u64: the upper two words of a product of double words
THEOREM MulHi128Correct ==
  ASSUME NEW a \in Word \X Word, NEW b \in Word \X Word, NEW portable
  PROVE  /\ MulHi128(a, b, portable) \in Word \X Word
         /\ Number(MulHi128(a, b, portable)) = (Number(a) * Number(b)) \div (Base * Base)
<1>1. a[1] \in Word /\ a[2] \in Word /\ b[1] \in Word /\ b[2] \in Word
  OBVIOUS
<1>2. PICK c0 \in Word, l0 \in Word :
        MulHi(a[2], b[2], portable) = c0 /\ a[2] * b[2] = c0 * Base + l0
  <2>1. PICK hi \in Word, lo \in Word :
          MulWide(a[2], b[2], portable) = <<hi, lo>> /\ a[2] * b[2] = hi * Base + lo
    BY <1>1, MulWideCorrect
  <2>2. MulWide(a[2], b[2], portable)[1] = MulHi(a[2], b[2], portable)
    BY DEF MulWide
  <2>3. QED
    BY <2>1, <2>2
<1>3. PICK h2 \in Word, l2 \in Word :
        MulWide(a[2], b[1], portable) = <<h2, l2>> /\ a[2] * b[1] = h2 * Base + l2
  BY <1>1, MulWideCorrect
<1>4. PICK h4 \in Word, l4 \in Word :
        MulWide(a[1], b[2], portable) = <<h4, l4>> /\ a[1] * b[2] = h4 * Base + l4
  BY <1>1, MulWideCorrect
<1>5. PICK h6 \in Word, l6 \in Word :
        MulWide(a[1], b[1], portable) = <<h6, l6>> /\ a[1] * b[1] = h6 * Base + l6
  BY <1>1, MulWideCorrect
<1> DEFINE s1 == Wrap(c0 + l2)
           s2 == Wrap(s1 + l4)
           k1 == Bit(s1 < c0)
           k2 == Bit(s2 < s1)
           m1 == Wrap(h2 + h4)
           m2 == Wrap(m1 + l6)
           m3 == Wrap(m2 + (k1 + k2))
           k3 == Bit(m1 < h2)
           k4 == Bit(m2 < m1)
           k5 == Bit(m3 < m2)
<1>6. MulHi128(a, b, portable) = <<Wrap(h6 + (k3 + k4 + k5)), m3>>
  BY <1>2, <1>3, <1>4, <1>5 DEF MulHi128
<1>7. Base \in Nat /\ Base >= 4 /\ Word = 0 .. Base - 1
  BY WordFacts
<1>8. s1 \in Word /\ c0 + l2 = s1 + k1 * Base
  BY CarryIs
<1>9. s2 \in Word /\ s1 + l4 = s2 + k2 * Base
  BY <1>8, CarryIs
<1>10. m1 \in Word /\ h2 + h4 = m1 + k3 * Base
  BY CarryIs
<1>11. m2 \in Word /\ m1 + l6 = m2 + k4 * Base
  BY <1>10, CarryIs
<1>12. k1 \in {0, 1} /\ k2 \in {0, 1} /\ k3 \in {0, 1} /\ k4 \in {0, 1} /\ k5 \in {0, 1}
  BY DEF Bit
<1>13. m3 \in Word /\ m2 + (k1 + k2) = m3 + k5 * Base
  <2>1. k1 + k2 \in Word
    BY <1>7, <1>12
  <2>2. QED
    BY <1>11, <2>1, CarryIs
<1> HIDE DEF s1, s2, m1, m2, m3, k1, k2, k3, k4, k5
<1> DEFINE top == h6 + (k3 + k4 + k5)
           v == Number(a) * Number(b)
           BB == Base * Base
<1>14. v = a[1] * b[1] * BB + (a[2] * b[1] + a[1] * b[2]) * Base + a[2] * b[2]
  BY <1>1, <1>7 DEF Number
<1>15. v = (top * Base + m3) * BB + (s2 * Base + l0)
  <2>1. c0 + l2 + l4 = s2 + (k1 + k2) * Base
    BY <1>7, <1>8, <1>9, <1>12
  <2>2. h2 + h4 + l6 + (k1 + k2) = m3 + (k3 + k4 + k5) * Base
    BY <1>7, <1>10, <1>11, <1>12, <1>13
  <2> DEFINE kk == k1 + k2
             kt == k3 + k4 + k5
  <2>3. kk \in Nat /\ kt \in Nat
    BY <1>12
  <2>4. v = (h6 * Base + l6) * BB + ((h2 * Base + l2) + (h4 * Base + l4)) * Base + (c0 * Base + l0)
    BY <1>2, <1>3, <1>4, <1>5, <1>14
  <2>5. c0 + l2 + l4 = s2 + kk * Base /\ h2 + h4 + l6 + kk = m3 + kt * Base /\ top = h6 + kt
    BY <2>1, <2>2
  <2> HIDE DEF kk, kt, top, v
  <2> USE <1>7
  <2>6. v = (h6 * Base) * BB + (l6 + h2 + h4) * BB + (c0 + l2 + l4) * Base + l0
    BY <2>4
  <2>7. (c0 + l2 + l4) * Base = s2 * Base + kk * BB
    BY <2>3, <2>5, <1>9
  <2>8. (h2 + h4 + l6 + kk) * BB = (m3 + kt * Base) * BB
    BY <2>5
  <2>9. (h2 + h4 + l6 + kk) * BB = (l6 + h2 + h4) * BB + kk * BB
    BY <2>3
  <2>10. (m3 + kt * Base) * BB = m3 * BB + (kt * Base) * BB
    BY <2>3, <1>13
  <2>11. (top * Base + m3) * BB = (h6 * Base) * BB + (kt * Base) * BB + m3 * BB
    BY <2>3, <2>5, <1>13
  <2> DEFINE t1 == (h6 * Base) * BB
             t2 == (l6 + h2 + h4) * BB
             t3 == (c0 + l2 + l4) * Base
             t4 == s2 * Base
             t5 == kk * BB
             t6 == m3 * BB
             t7 == (kt * Base) * BB
  <2>12. /\ t1 \in Nat /\ t2 \in Nat /\ t3 \in Nat /\ t4 \in Nat
         /\ t5 \in Nat /\ t6 \in Nat /\ t7 \in Nat
    BY <2>3, <1>9, <1>13
  <2>13. v = t1 + t2 + t3 + l0 /\ t3 = t4 + t5 /\ t2 + t5 = t6 + t7
         /\ (top * Base + m3) * BB = t1 + t7 + t6
    BY <2>6, <2>7, <2>8, <2>9, <2>10, <2>11
  <2> HIDE DEF t1, t2, t3, t4, t5, t6, t7
  <2>14. v = (t1 + t7 + t6) + (t4 + l0)
    BY <2>12, <2>13
  <2>15. QED
    BY <2>13, <2>14 DEF t4
<1>16. top \in Nat
  BY <1>7, <1>12
<1>17. v \in Nat /\ v < BB * BB /\ BB \in Nat \ {0}
  <2>1. Number(a) \in Nat /\ Number(b) \in Nat /\ Number(a) <= BB - 1 /\ Number(b) <= BB - 1
        /\ BB \in Nat \ {0}
    <3>1. ASSUME NEW w \in Word \X Word
          PROVE  Number(w) \in Nat /\ Number(w) <= BB - 1
      <4>1. w[1] \in Nat /\ w[2] \in Nat /\ w[1] <= Base - 1 /\ w[2] <= Base - 1
        BY <1>7
      <4>2. w[1] * Base \in Nat /\ w[1] * Base <= (Base - 1) * Base
        BY <1>7, <4>1
      <4>3. (Base - 1) * Base = BB - Base
        BY <1>7
      <4>4. QED
        BY <1>7, <4>1, <4>2, <4>3 DEF Number
    <3>2. QED
      BY <1>7, <3>1
  <2> DEFINE p == Number(a)
             r == Number(b)
  <2> HIDE DEF p, r, BB
  <2>2. p \in Nat /\ r \in Nat /\ p <= BB - 1 /\ r <= BB - 1 /\ BB \in Nat \ {0}
    BY <2>1 DEF p, r
  <2>3. p * r \in Nat /\ p * r <= (BB - 1) * r /\ (BB - 1) * r <= (BB - 1) * (BB - 1)
    BY <2>2
  <2>4. (BB - 1) * (BB - 1) < BB * BB
    BY <2>2
  <2>5. p * r < BB * BB
    BY <2>2, <2>3, <2>4
  <2>6. QED
    BY <2>2, <2>3, <2>5 DEF p, r
<1>18. s2 * Base + l0 \in 0 .. BB - 1
  <2>1. s2 * Base \in Nat /\ s2 * Base <= (Base - 1) * Base
    BY <1>7, <1>9
  <2>2. (Base - 1) * Base = BB - Base
    BY <1>7
  <2>3. QED
    BY <1>7, <2>1, <2>2
<1> DEFINE hi == top * Base + m3
           lo == s2 * Base + l0
<1>19. hi \in Nat
  BY <1>7, <1>13, <1>16
<1>20. v = hi * BB + lo /\ lo \in 0 .. BB - 1
  BY <1>15, <1>18
<1> HIDE DEF v, hi, lo, BB, top
<1>21. hi = v \div BB
  BY <1>17, <1>19, <1>20, ModUnique
<1>22. hi \in 0 .. BB - 1
  BY <1>17, <1>21, DivBound
<1>23. top < Base
  <2>1. ASSUME top >= Base
        PROVE  FALSE
    <3>1. top * Base >= Base * Base
      BY <1>7, <1>16, <2>1
    <3>2. QED
      BY <1>7, <1>13, <1>16, <1>22, <3>1 DEF hi, BB
  <2>2. QED
    BY <1>7, <1>16, <2>1
<1>24. Wrap(top) = top
  <2>1. top \in 0 .. 2 * Base - 1
    BY <1>7, <1>16, <1>23
  <2>2. QED
    BY <1>7, <1>23, <2>1, WrapOnce
<1>25. MulHi128(a, b, portable) = <<top, m3>> /\ top \in Word
  BY <1>6, <1>7, <1>16, <1>23, <1>24 DEF top
<1>26. QED
  BY <1>13, <1>21, <1>25 DEF Number, v, hi, BB

-----------------------------------------------------------------------------

\* barrett_reduce, for any word and on builds of either kind: Barrett's quotient
\* is right or too small by one, and one subtraction ends the reduction.
THEOREM BarrettReduceCorrect ==
  ASSUME NEW n \in Nat \ {0, 1}, 2 * n <= Base, NEW v \in Word, NEW portable
  PROVE  BarrettReduce(v, n, BarrettMu(n), portable) = v % n
<1> DEFINE mu == Base \div n
           k == (v * mu) \div Base
<1>1. v \in Nat /\ v < Base /\ Base \in Nat \ {0} /\ n \in Nat \ {0}
  BY WordFacts
<1>2. mu \in Word
  <2>1. Base < Base * n
    <3>1. Base * 2 <= Base * n
      BY <1>1
    <3>2. QED
      BY <1>1, <3>1
  <2>2. Base < n * Base
    BY <1>1, <2>1
  <2>3. Base \div n \in 0 .. Base - 1
    BY <1>1, <2>2, DivBound
  <2>4. QED
    BY <2>3, WordFacts
<1>3. BarrettMu(n) = mu
  BY <1>1, BarrettMuCorrect
<1>4. k \in Nat /\ v - k * n \in 0 .. 2 * n - 1
  <2>1. v \in 0 .. Base - 1
    BY WordFacts
  <2>2. QED
    BY <1>1, <2>1, BarrettBound, Zenon
<1>5. MulHi(v, mu, portable) = k
  BY <1>2, MulHiCorrect
<1> HIDE DEF mu, k
<1>6. k * n \in Nat /\ k * n < Base
  BY <1>1, <1>4
<1>7. Wrap(k * n) = k * n
  BY <1>1, <1>6, WrapOnce
<1>8. WrapMinus(v, k * n) = v - k * n
  <2>1. WrapMinus(v, k * n) = Wrap(v + Base - k * n)
    BY DEF WrapMinus, Wrap
  <2>2. QED
    BY <2>1, <1>1, <1>4, <1>6, WrapOnce
<1>9. Once(v - k * n, n) = v % n
  BY <1>1, <1>4, OnceReduces
<1>10. QED
  BY <1>3, <1>5, <1>7, <1>8, <1>9 DEF BarrettReduce

-----------------------------------------------------------------------------

\* A number that is doubled and reduced, again and again
IsDoubled(f, r, n) ==
  f = [k \in Nat |-> IF k = 0 THEN r ELSE Once(Wrap(2 * f[k - 1]), n)]

\* One doubling
LEMMA DoubleOnce ==
  ASSUME NEW n \in Nat \ {0}, 2 * n <= Base, NEW e \in 0 .. n - 1
  PROVE  /\ Wrap(2 * e) = 2 * e
         /\ Once(Wrap(2 * e), n) = (2 * e) % n
         /\ Once(Wrap(2 * e), n) \in 0 .. n - 1
<1>1. Base \in Nat /\ 2 * e \in 0 .. 2 * Base - 1 /\ 2 * e < Base /\ 2 * e \in 0 .. 2 * n - 1
  BY WordFacts
<1> DEFINE v == 2 * e
<1> HIDE DEF v
<1>2. v \in 0 .. 2 * Base - 1 /\ v < Base /\ v \in 0 .. 2 * n - 1
  BY <1>1 DEF v
<1>3. Wrap(v) = v
  BY <1>1, <1>2, WrapOnce
<1>4. v % n = IF v < n THEN v ELSE v - n
  BY <1>2, ModOnce
<1>5. QED
  BY <1>2, <1>3, <1>4 DEF Once, v

\* Such a sequence exists.
LEMMA DoubledExists ==
  ASSUME NEW n \in Nat \ {0}, 2 * n <= Base, NEW r \in 0 .. n - 1
  PROVE  \E f : IsDoubled(f, r, n)
<1> DEFINE V == 0 .. n - 1
           D == [a \in Nat \X V |-> Once(Wrap(2 * a[2]), n)]
<1>1. D \in [Nat \X V -> V]
  <2> SUFFICES ASSUME NEW a \in Nat \X V
               PROVE  Once(Wrap(2 * a[2]), n) \in V
    OBVIOUS
  <2>1. a[2] \in 0 .. n - 1
    OBVIOUS
  <2>2. QED
    BY <2>1, DoubleOnce
<1>2. PICK f \in [Nat -> V] : SolvesNat(f, r, D)
  <2> HIDE DEF D, V
  <2>1. r \in V
    BY DEF V
  <2>2. QED
    BY <1>1, <2>1, NatRecursion
<1>3. \A k \in Nat : k # 0 => D[<<k, f[k - 1]>>] = Once(Wrap(2 * f[k - 1]), n)
  <2> SUFFICES ASSUME NEW k \in Nat, k # 0
               PROVE  D[<<k, f[k - 1]>>] = Once(Wrap(2 * f[k - 1]), n)
    OBVIOUS
  <2>1. k - 1 \in Nat
    OBVIOUS
  <2>2. f[k - 1] \in V
    BY <2>1
  <2>3. QED
    BY <2>2
<1>4. IsDoubled(f, r, n)
  <2> HIDE DEF D
  <2>1. QED
    BY <1>2, <1>3 DEF SolvesNat, IsDoubled
<1>5. QED
  BY <1>4

\* It runs through the multiples of the first by the powers of two.
LEMMA DoubledIs ==
  ASSUME NEW n \in Nat \ {0}, 2 * n <= Base, NEW r \in 0 .. n - 1,
         NEW f, IsDoubled(f, r, n)
  PROVE  \A k \in Nat : f[k] = (r * 2^k) % n /\ f[k] \in 0 .. n - 1
<1> DEFINE S == {k \in Nat : f[k] = (r * 2^k) % n /\ f[k] \in 0 .. n - 1}
<1>1. 0 \in S
  <2>1. f[0] = r
    BY DEF IsDoubled
  <2>2. 2^0 = 1 /\ r * 1 = r /\ r % n = r
    OBVIOUS
  <2>3. QED
    BY <2>1, <2>2
<1>2. ASSUME NEW k \in Nat, k \in S
      PROVE  k + 1 \in S
  <2> DEFINE w == 2^k
             v == r * w
             e == f[k]
  <2>1. w \in Nat /\ 2^(k + 1) = 2 * w /\ v \in Nat
    BY PowersOfTwo
  <2>2. e = v % n /\ e \in 0 .. n - 1
    BY <1>2
  <2>3. f[k + 1] = Once(Wrap(2 * e), n)
    <3>1. k + 1 # 0 /\ (k + 1) - 1 = k /\ k + 1 \in Nat
      OBVIOUS
    <3>2. QED
      BY <3>1 DEF IsDoubled
  <2>4. r * 2^(k + 1) = 2 * v
    BY <2>1
  <2> HIDE DEF v, e, w
  <2>5. f[k + 1] = (2 * e) % n /\ f[k + 1] \in 0 .. n - 1
    BY <2>2, <2>3, DoubleOnce
  <2>6. (2 * (v % n)) % n = (2 * v) % n
    BY <2>1, ModMul
  <2>7. QED
    BY <2>2, <2>4, <2>5, <2>6
<1> HIDE DEF S
<1>3. Nat \subseteq S
  BY <1>1, <1>2, Induction
<1>4. QED
  BY <1>3 DEF S

\* The division that replaces the 128-bit one on portable builds
THEOREM LongDivisionCorrect ==
  ASSUME NEW n \in Nat \ {0}, 2 * n <= Base, NEW r \in 0 .. n - 1
  PROVE  LongDivision(r, n) = (r * Base) \div n
<1> DEFINE rest == CHOOSE f :
                     f = [k \in Nat |-> IF k = 0 THEN r ELSE Once(Wrap(2 * f[k - 1]), n)]
           quotient == CHOOSE f :
             f = [k \in Nat |->
                    IF k = 0 THEN 0
                    ELSE 2 * f[k - 1] + Bit(Wrap(2 * rest[k - 1]) >= n)]
<1>1. LongDivision(r, n) = quotient[WordBits]
  BY DEF LongDivision
<1>2. IsDoubled(rest, r, n)
  <2>1. \E f : f = [k \in Nat |-> IF k = 0 THEN r ELSE Once(Wrap(2 * f[k - 1]), n)]
    BY DoubledExists DEF IsDoubled
  <2>2. QED
    BY <2>1 DEF IsDoubled
<1>3. \A k \in Nat : rest[k] = (r * 2^k) % n /\ rest[k] \in 0 .. n - 1
  <2> HIDE DEF rest
  <2>1. QED
    BY <1>2, DoubledIs
<1> HIDE DEF rest
<1>4. quotient = [k \in Nat |->
                    IF k = 0 THEN 0
                    ELSE 2 * quotient[k - 1] + Bit(Wrap(2 * rest[k - 1]) >= n)]
  <2> DEFINE D == [a \in Nat \X Nat |-> 2 * a[2] + Bit(Wrap(2 * rest[a[1] - 1]) >= n)]
  <2>1. D \in [Nat \X Nat -> Nat]
    BY DEF Bit
  <2>2. PICK f \in [Nat -> Nat] : SolvesNat(f, 0, D)
    <3> HIDE DEF D
    <3>1. QED
      BY <2>1, NatRecursion
  <2>3. \A k \in Nat : k # 0 => D[<<k, f[k - 1]>>]
                                  = 2 * f[k - 1] + Bit(Wrap(2 * rest[k - 1]) >= n)
    BY <2>2
  <2>4. f = [k \in Nat |->
               IF k = 0 THEN 0 ELSE 2 * f[k - 1] + Bit(Wrap(2 * rest[k - 1]) >= n)]
    <3> HIDE DEF D
    <3>1. QED
      BY <2>2, <2>3 DEF SolvesNat
  <2>5. QED
    BY <2>4
<1> HIDE DEF quotient
<1> DEFINE S == {k \in Nat : quotient[k] = (r * 2^k) \div n}
<1>5. 0 \in S
  <2>1. quotient[0] = 0
    BY <1>4
  <2>2. r * 2^0 = r /\ r \div n = 0
    <3>1. 2^0 = 1 /\ r * 1 = r
      OBVIOUS
    <3>2. r = 0 * n + r /\ r \in Nat /\ 0 \in Nat
      OBVIOUS
    <3>3. r \div n = 0
      BY <3>2, ModUnique
    <3>4. QED
      BY <3>1, <3>3
  <2>3. QED
    BY <2>1, <2>2
<1>6. ASSUME NEW k \in Nat, k \in S
      PROVE  k + 1 \in S
  <2> DEFINE w == 2^k
             v == r * w
             e == rest[k]
             d == quotient[k]
             b == Bit(Wrap(2 * rest[k]) >= n)
  <2>1. w \in Nat /\ 2^(k + 1) = 2 * w /\ v \in Nat
    BY PowersOfTwo
  <2>2. e = v % n /\ e \in 0 .. n - 1
    BY <1>3
  <2>3. d = v \div n
    BY <1>6
  <2>4. quotient[k + 1] = 2 * d + b
    <3>1. k + 1 # 0 /\ (k + 1) - 1 = k /\ k + 1 \in Nat
      OBVIOUS
    <3>2. QED
      BY <1>4, <3>1
  <2>5. r * 2^(k + 1) = 2 * v
    BY <2>1
  <2>6. b = Bit(2 * e >= n)
    BY <2>2, DoubleOnce
  <2> HIDE DEF v, e, w, d, b
  <2>7. d \in Nat /\ v = d * n + e
    BY <2>1, <2>2, <2>3, DivMod
  <2> DEFINE d1 == 2 * d + b
             e1 == 2 * e - b * n
             v1 == 2 * v
  <2>8. e1 \in 0 .. n - 1 /\ b \in {0, 1}
    <3>1. CASE 2 * e >= n
      <4>1. b = 1
        BY <2>6, <3>1 DEF Bit
      <4>2. QED
        BY <2>2, <3>1, <4>1
    <3>2. CASE ~(2 * e >= n)
      <4>1. b = 0
        BY <2>6, <3>2 DEF Bit
      <4>2. QED
        BY <2>2, <3>2, <4>1
    <3>3. QED
      BY <3>1, <3>2
  <2>9. v1 = d1 * n + e1 /\ v1 \in Nat /\ d1 \in Nat
    <3>1. d1 * n = 2 * (d * n) + b * n
      BY <2>7, <2>8
    <3> DEFINE dn == d * n
               bn == b * n
    <3>2. dn \in Nat /\ bn \in Nat /\ d1 * n = 2 * dn + bn /\ v = dn + e /\ e1 = 2 * e - bn
      BY <2>7, <2>8, <3>1
    <3> HIDE DEF dn, bn, e1
    <3>3. v1 = d1 * n + e1
      BY <2>2, <3>2
    <3>4. QED
      BY <2>1, <2>7, <2>8, <3>3
  <2> HIDE DEF d1, e1, v1
  <2>10. v1 \div n = d1
    BY <2>8, <2>9, ModUnique
  <2>11. QED
    BY <2>4, <2>5, <2>10 DEF v1, d1
<1> HIDE DEF S
<1>7. Nat \subseteq S
  BY <1>5, <1>6, Induction
<1>8. WordBits \in S
  BY <1>7, WordAssumption
<1>9. QED
  BY <1>1, <1>8, WordFacts DEF S

\* The reciprocal of ntt_scalar_barrett_mu_u128 is that of the range of two words,
\* on builds of either kind.
THEOREM BarrettMuWideCorrect ==
  ASSUME NEW n \in Nat \ {0, 1}, 2 * n <= Base, NEW portable
  PROVE  /\ BarrettMuWide(n, portable) \in Word \X Word
         /\ Number(BarrettMuWide(n, portable)) = (Base * Base) \div n
<1> DEFINE w == BarrettMu(n)
           r == Base % n
<1>1. Base \in Nat \ {0} /\ n \in Nat \ {0} /\ Base >= 4 /\ Word = 0 .. Base - 1
  BY WordFacts
<1>2. w \in Nat /\ r \in 0 .. n - 1 /\ Base = w * n + r
  <2>1. w = Base \div n
    BY <1>1, BarrettMuCorrect
  <2>2. Base \div n \in Nat /\ Base % n \in 0 .. n - 1
        /\ Base = (Base \div n) * n + (Base % n)
    BY <1>1, DivMod
  <2>3. QED
    BY <2>1, <2>2
<1> HIDE DEF w, r
<1>3. w \in Word
  <2>1. w * 2 <= w * n /\ w * 2 \in Nat
    BY <1>1, <1>2
  <2>2. QED
    BY <1>1, <1>2, <2>1
<1>4. WrapMinus(0, Wrap(w * n)) = r
  <2> DEFINE p == w * n
  <2>1. p \in Nat /\ p = Base - r
    BY <1>1, <1>2
  <2> HIDE DEF p
  <2>2. CASE r = 0
    <3>1. Wrap(p) = 0
      BY <1>1, <2>1, <2>2, WrapOnce
    <3>2. Wrap(0 + Base - 0) = 0
      BY <1>1, WrapOnce
    <3>3. WrapMinus(0, 0) = 0
      BY <3>2 DEF WrapMinus, Wrap
    <3>4. QED
      BY <2>2, <3>1, <3>3 DEF p
  <2>3. CASE r # 0
    <3>1. Wrap(p) = p
      BY <1>1, <1>2, <2>1, <2>3, WrapOnce
    <3>2. 0 + Base - p = r
      BY <1>1, <1>2, <2>1
    <3>3. Wrap(r) = r
      BY <1>1, <1>2, <2>3, WrapOnce
    <3>4. WrapMinus(0, p) = r
      BY <3>2, <3>3 DEF WrapMinus, Wrap
    <3>5. QED
      BY <3>1, <3>4 DEF p
  <2>4. QED
    BY <2>2, <2>3
<1> DEFINE v == r * Base
           d == v \div n
           e == v % n
<1>5. v \in Nat /\ v < n * Base
  <2>1. v <= (n - 1) * Base
    BY <1>1, <1>2
  <2>2. QED
    BY <1>1, <1>2, <2>1
<1>6. d \in 0 .. Base - 1 /\ d \in Nat /\ e \in 0 .. n - 1 /\ v = d * n + e
  <2> HIDE DEF v
  <2>1. d \in 0 .. Base - 1
    BY <1>1, <1>5, DivBound
  <2>2. QED
    BY <1>1, <1>5, <2>1, DivMod
<1>7. LongDivision(r, n) = d
  BY <1>1, <1>2, LongDivisionCorrect
<1>8. Wrap(d) = d
  <2> HIDE DEF d
  <2>1. d \in 0 .. 2 * Base - 1 /\ d < Base
    BY <1>1, <1>6
  <2>2. QED
    BY <1>1, <2>1, WrapOnce
<1>9. BarrettMuWide(n, portable) = <<w, d>>
  <2>1. BarrettMuWide(n, portable)
          = <<w, IF portable THEN LongDivision(WrapMinus(0, Wrap(w * n)), n)
                 ELSE Wrap((WrapMinus(0, Wrap(w * n)) * Base) \div n)>>
    BY DEF BarrettMuWide, BarrettMu, w
  <2>2. QED
    BY <1>4, <1>7, <1>8, <2>1
<1> HIDE DEF v, d, e
<1>10. Base * Base = (w * Base + d) * n + e
  <2>1. Base * Base = (w * n) * Base + r * Base
    BY <1>1, <1>2
  <2>2. (w * n) * Base = (w * Base) * n
    BY <1>1, <1>2
  <2>3. (w * Base + d) * n = (w * Base) * n + d * n
    BY <1>1, <1>2, <1>6
  <2> DEFINE t == (w * Base) * n
             dn == d * n
  <2>4. t \in Nat /\ dn \in Nat
    BY <1>1, <1>2, <1>6
  <2>5. Base * Base = t + v /\ v = dn + e /\ (w * Base + d) * n = t + dn
    BY <2>1, <2>2, <2>3, <1>6 DEF v
  <2> DEFINE b == Base * Base
             c == (w * Base + d) * n
  <2> HIDE DEF t, dn, b, c
  <2>6. b = t + v /\ c = t + dn
    BY <2>5 DEF b, c
  <2>7. b = c + e
    BY <1>6, <2>4, <2>5, <2>6
  <2>8. QED
    BY <2>7 DEF b, c
<1> DEFINE k == w * Base + d
           BB == Base * Base
<1>11. k \in Nat /\ BB \in Nat /\ BB = k * n + e
  BY <1>1, <1>2, <1>6, <1>10
<1> HIDE DEF k, BB
<1>12. BB \div n = k
  BY <1>1, <1>6, <1>11, ModUnique
<1>13. Number(<<w, d>>) = k
  BY DEF Number, k
<1>14. <<w, d>> \in Word \X Word
  BY <1>1, <1>3, <1>6
<1>15. QED
  BY <1>9, <1>12, <1>13, <1>14 DEF BB

\* A difference below a word can be taken in the low words.
LEMMA LowWordDifference ==
  ASSUME NEW h \in Nat, NEW l \in Word, NEW k \in Nat,
         h * Base + l - k \in 0 .. Base - 1
  PROVE  WrapMinus(l, Wrap(k)) = h * Base + l - k
<1>1. Base \in Nat \ {0} /\ l \in Nat /\ l < Base
  BY WordFacts
<1> DEFINE g == k \div Base
           m == k % Base
           y == h * Base + l - k
           v == l + Base - m
           c == (g + 1) - h
<1>2. g \in Nat /\ m \in 0 .. Base - 1 /\ k = g * Base + m
  BY <1>1, DivMod
<1>3. y \in 0 .. Base - 1
  OBVIOUS
<1>4. WrapMinus(l, Wrap(k)) = v % Base
  BY DEF WrapMinus, Wrap
<1> HIDE DEF g, m
<1>5. v \in Nat /\ c \in Int
  BY <1>1, <1>2
<1>6. y = v - c * Base
  <2>1. c * Base = g * Base + Base - h * Base
    BY <1>1, <1>2
  <2> DEFINE hB == h * Base
             gB == g * Base
  <2>2. hB \in Nat /\ gB \in Nat
    BY <1>1, <1>2
  <2>3. k = gB + m /\ y = hB + l - k /\ c * Base = gB + Base - hB
    BY <1>2, <2>1
  <2> HIDE DEF hB, gB, y, c
  <2>4. QED
    BY <1>1, <1>2, <2>2, <2>3
<1> HIDE DEF y, v, c
<1>7. 0 <= c
  <2>1. ASSUME c <= -1
        PROVE  FALSE
    <3>1. c * Base <= (-1) * Base
      BY <1>1, <1>5, <2>1
    <3>2. y >= Base
      BY <1>1, <1>3, <1>5, <1>6, <3>1
    <3>3. QED
      BY <1>1, <1>3, <3>2
  <2>2. QED
    BY <1>5, <2>1
<1>8. v = c * Base + y /\ c \in Nat
  BY <1>1, <1>3, <1>5, <1>6, <1>7
<1>9. v % Base = y
  BY <1>1, <1>3, <1>5, <1>8, ModUnique
<1>10. QED
  BY <1>4, <1>9 DEF y

\* barrett_reduce_u128: although it looks at the low words only, one subtraction
\* ends the reduction of every double word.
THEOREM BarrettReduceWideCorrect ==
  ASSUME NEW n \in Nat \ {0, 1}, 2 * n <= Base, NEW v \in Word \X Word, NEW portable
  PROVE  BarrettReduceWide(v, n, BarrettMuWide(n, portable), portable) = Number(v) % n
<1> DEFINE mu == BarrettMuWide(n, portable)
           q3 == MulHi128(v, mu, portable)
           BB == Base * Base
           V == Number(v)
           k == (V * (BB \div n)) \div BB
<1>1. Base \in Nat \ {0} /\ n \in Nat \ {0} /\ Word = 0 .. Base - 1 /\ BB \in Nat \ {0}
  BY WordFacts
<1>2. mu \in Word \X Word /\ Number(mu) = BB \div n
  BY BarrettMuWideCorrect
<1> HIDE DEF mu
<1>3. q3 \in Word \X Word /\ Number(q3) = k
  <2>1. q3 \in Word \X Word /\ Number(q3) = (V * Number(mu)) \div BB
    BY <1>2, MulHi128Correct
  <2>2. QED
    BY <1>2, <2>1
<1>4. V \in 0 .. BB - 1
  <2>1. v[1] \in Nat /\ v[2] \in Nat /\ v[1] <= Base - 1 /\ v[2] <= Base - 1
    BY <1>1
  <2>2. v[1] * Base \in Nat /\ v[1] * Base <= (Base - 1) * Base
    BY <1>1, <2>1
  <2>3. (Base - 1) * Base = BB - Base
    BY <1>1
  <2>4. QED
    BY <1>1, <2>1, <2>2, <2>3 DEF Number
<1> HIDE DEF V, BB
<1>5. k \in Nat /\ V - k * n \in 0 .. 2 * n - 1
  BY <1>1, <1>4, BarrettBound, Zenon
<1> HIDE DEF q3, k
\* only the low word of the quotient counts
<1> DEFINE q1 == q3[1]
           q2 == q3[2]
           h == v[1]
           l == v[2]
<1>6. q1 \in Nat /\ q2 \in Nat /\ k = q1 * Base + q2
  BY <1>1, <1>3 DEF Number
<1>7. h \in Nat /\ l \in Word /\ V = h * Base + l
  BY <1>1 DEF Number, V
<1> HIDE DEF q1, q2, h, l
<1>8. Wrap(q2 * n) = Wrap(k * n)
  <2>1. k * n = (q1 * n) * Base + q2 * n /\ q1 * n \in Nat /\ q2 * n \in Nat
    BY <1>1, <1>6
  <2> DEFINE s == q1 * n
             t == q2 * n
  <2> HIDE DEF s, t
  <2>2. k * n = s * Base + t /\ s \in Nat /\ t \in Nat
    BY <2>1 DEF s, t
  <2>3. (s * Base + t) % Base = t % Base
    BY <1>1, <2>2, ModAdd
  <2>4. QED
    BY <2>2, <2>3 DEF Wrap, t
<1>9. WrapMinus(l, Wrap(k * n)) = V - k * n
  <2> DEFINE p == k * n
  <2>1. p \in Nat /\ h * Base + l - p \in 0 .. Base - 1
    BY <1>1, <1>5, <1>7
  <2> HIDE DEF p
  <2>2. WrapMinus(l, Wrap(p)) = h * Base + l - p
    BY <1>7, <2>1, LowWordDifference
  <2>3. h * Base + l - p = V - p
    BY <1>1, <1>7, <2>1
  <2>4. QED
    BY <2>2, <2>3 DEF p
<1>10. V \in Nat
  BY <1>1, <1>4
<1>11. Once(V - k * n, n) = V % n
  BY <1>1, <1>5, <1>10, OnceReduces
<1>12. QED
  BY <1>8, <1>9, <1>11 DEF BarrettReduceWide, q2, l, mu, q3, V

-----------------------------------------------------------------------------

\* mont_reduce_32: the sum of t and m * n, which may wrap in a word, is a multiple
\* of the radix; with the carry, one subtraction makes it the residue that t
\* stands for.
THEOREM MontReduceHalfCorrect ==
  ASSUME NEW n \in 1 .. Half - 1, NEW qinv \in 0 .. Half - 1,
         (qinv * n) % Half = Half - 1, NEW t \in 0 .. n * Half - 1
  PROVE  /\ MontReduceHalf(t, n, qinv) \in 0 .. n - 1
         /\ (MontReduceHalf(t, n, qinv) * Half) % n = t % n
<1> DEFINE H == Half
           m == ((t % H) * qinv) % H
           sum == t + m * n
<1>1. H \in Nat \ {0} /\ Base = H * H /\ n \in Nat /\ n < H /\ Base \in Nat /\ qinv \in Nat
  BY WordFacts
<1>2. t \in Nat /\ t < n * H
  <2>1. n * H \in Nat
    BY <1>1
  <2>2. QED
    BY <2>1
<1>3. m \in 0 .. H - 1
  <2> DEFINE v == (t % H) * qinv
  <2>1. t % H \in 0 .. H - 1
    BY <1>1, <1>2, DivMod
  <2>2. v \in Nat
    BY <1>1, <2>1
  <2> HIDE DEF v
  <2>3. v % H \in 0 .. H - 1
    BY <1>1, <2>2, DivMod
  <2>4. QED
    BY <2>3 DEF v
<1>4. PICK e \in 0 .. 2 * n - 1 :
        /\ sum = e * H
        /\ Once(e, n) \in 0 .. n - 1
        /\ (Once(e, n) * H) % n = t % n
  BY <1>1, MontgomeryExact
<1>5. MontReduceHalf(t, n, qinv) = Once(Wrap(sum) \div H + Bit(Wrap(sum) < t) * H, n) % H
  BY DEF MontReduceHalf
<1> HIDE DEF H, m
<1>6. m * n \in Nat /\ m * n <= n * H
  BY <1>1, <1>3
<1>7. n * H <= H * H - H
  <2>1. n * H <= (H - 1) * H
    BY <1>1
  <2>2. QED
    BY <1>1, <2>1
<1>8. sum \in 0 .. 2 * Base - 1 /\ sum >= t /\ sum < t + Base
  BY <1>1, <1>2, <1>6, <1>7
<1> HIDE DEF sum
<1>9. Wrap(sum) = IF sum < Base THEN sum ELSE sum - Base
  BY <1>1, <1>8, WrapOnce
<1>10. ASSUME NEW y \in Nat
       PROVE  (y * H) \div H = y
  BY <1>1
<1>11. Wrap(sum) \div H + Bit(Wrap(sum) < t) * H = e
  <2>1. CASE sum < Base
    <3>1. Wrap(sum) = e * H /\ ~(Wrap(sum) < t)
      BY <1>2, <1>4, <1>8, <1>9, <2>1
    <3>2. Wrap(sum) \div H = e /\ Bit(Wrap(sum) < t) = 0
      BY <1>10, <3>1 DEF Bit
    <3>3. QED
      BY <1>1, <3>2
  <2>2. CASE ~(sum < Base)
    <3> DEFINE y == e - H
    <3>1. Wrap(sum) = y * H /\ Wrap(sum) < t
      BY <1>1, <1>2, <1>4, <1>8, <1>9, <2>2
    <3>2. y \in Nat
      <4>1. H * H <= e * H
        BY <1>1, <1>4, <1>8, <2>2
      <4>2. ASSUME NEW u \in Int, NEW z \in Int, u * H <= z * H
            PROVE  u <= z
        BY <4>2, <1>1
      <4>3. QED
        BY <4>1, <4>2, <1>1
    <3> HIDE DEF y
    <3>3. Wrap(sum) \div H = y /\ Bit(Wrap(sum) < t) = 1
      BY <1>10, <3>1, <3>2 DEF Bit
    <3>4. QED
      BY <1>1, <3>3 DEF y
  <2>3. QED
    BY <2>1, <2>2
<1>12. MontReduceHalf(t, n, qinv) = Once(e, n)
  <2> DEFINE o == Once(e, n)
  <2>1. o \in 0 .. H - 1
    BY <1>1, <1>4
  <2> HIDE DEF o
  <2>2. o % H = o
    BY <1>1, <2>1
  <2>3. QED
    BY <1>5, <1>11, <2>2 DEF o
<1>13. QED
  BY <1>4, <1>12 DEF H

\* High and low word of a number
LEMMA WordsOf ==
  ASSUME NEW h \in Nat, NEW l \in Word, NEW v \in Nat, v = h * Base + l
  PROVE  v % Base = l /\ v \div Base = h
<1>1. Base \in Nat \ {0} /\ l \in 0 .. Base - 1
  BY WordFacts
<1>2. QED
  BY <1>1, ModUnique

\* mont_reduce_64: with the carry out of the low words, which cancel, the same
\* holds of double words.
THEOREM MontReduceWideCorrect ==
  ASSUME NEW n \in Nat \ {0}, 2 * n <= Base, NEW qinv \in Word,
         (qinv * n) % Base = Base - 1,
         NEW t \in Word \X Word, Number(t) < n * Base, NEW portable
  PROVE  /\ MontReduceWide(t, n, qinv, portable) \in 0 .. n - 1
         /\ (MontReduceWide(t, n, qinv, portable) * Base) % n = Number(t) % n
<1> DEFINE T == Number(t)
           m == ((T % Base) * qinv) % Base
           h == t[1]
           l == t[2]
<1>1. Base \in Nat \ {0} /\ Word = 0 .. Base - 1 /\ n \in Word /\ n \in 1 .. Base - 1
  BY WordFacts
<1>2. h \in Word /\ l \in Word /\ T = h * Base + l
  BY DEF Number
<1> HIDE DEF h, l
<1>3. T \in Nat /\ T \in 0 .. n * Base - 1 /\ T % Base = l
  <2>1. T \in Nat
    BY <1>1, <1>2
  <2> HIDE DEF T
  <2>2. T % Base = l
    <3>1. h \in Nat
      BY <1>1, <1>2
    <3>2. QED
      BY <1>2, <2>1, <3>1, WordsOf
  <2>3. n * Base \in Nat /\ T < n * Base
    BY <1>1 DEF T
  <2>4. QED
    BY <2>1, <2>2, <2>3
<1>4. PICK e \in 0 .. 2 * n - 1 :
        /\ T + m * n = e * Base
        /\ Once(e, n) \in 0 .. n - 1
        /\ (Once(e, n) * Base) % n = T % n
  <2>1. qinv \in 0 .. Base - 1
    BY <1>1
  <2> HIDE DEF T
  <2>2. QED
    BY <1>1, <1>3, <2>1, MontgomeryExact
<1>5. m = Wrap(l * qinv) /\ m \in Word
  <2>1. l * qinv \in Nat
    BY <1>1, <1>2
  <2> DEFINE v == l * qinv
  <2> HIDE DEF v
  <2>2. v % Base \in 0 .. Base - 1
    BY <1>1, <2>1, DivMod DEF v
  <2>3. QED
    BY <1>1, <1>3, <2>2 DEF Wrap, v
<1> HIDE DEF T, m
<1>6. PICK h1 \in Word, l1 \in Word :
        MulWide(m, n, portable) = <<h1, l1>> /\ m * n = h1 * Base + l1
  <2>1. m \in Word /\ n \in Word
    BY <1>1, <1>5
  <2>2. QED
    BY <2>1, MulWideCorrect
<1> DEFINE lo == Wrap(l + l1)
           c == Bit(lo < l1)
           s == h + h1 + c
<1>7. lo \in Word /\ l + l1 = lo + c * Base
  BY <1>2, CarryIs
<1>8. c \in {0, 1}
  BY DEF Bit
<1>9. MontReduceWide(t, n, qinv, portable) = Once(Wrap(s), n)
  BY <1>5, <1>6 DEF MontReduceWide, h, l
<1> HIDE DEF lo, c
<1>10. e * Base = s * Base + lo
  <2>1. T + m * n = (h + h1) * Base + (l + l1)
    BY <1>1, <1>2, <1>6
  <2>2. (h + h1) * Base + c * Base = s * Base
    BY <1>1, <1>2, <1>8
  <2> DEFINE u == (h + h1) * Base
             v == c * Base
             w == s * Base
             k == T + m * n
  <2>3. u \in Nat /\ v \in Nat /\ w \in Nat
    BY <1>1, <1>2, <1>8
  <2>4. k = u + (l + l1) /\ u + v = w /\ l + l1 = lo + v /\ k = e * Base
    BY <1>4, <1>7, <2>1, <2>2
  <2> HIDE DEF u, v, w, k, s
  <2>5. k = w + lo
    BY <1>1, <1>2, <1>7, <2>3, <2>4
  <2>6. QED
    BY <2>4, <2>5 DEF w
<1>11. s \in Nat
  BY <1>1, <1>2, <1>8
<1> HIDE DEF s
<1>12. e = s
  <2> DEFINE v == e * Base
  <2>1. v \in Nat /\ e \in Nat
    BY <1>1
  <2>2. v = s * Base + lo
    BY <1>10
  <2>3. v = e * Base + 0
    BY <2>1
  <2> HIDE DEF v
  <2>4. v \div Base = s
    BY <1>7, <1>11, <2>1, <2>2, WordsOf
  <2>5. 0 \in Word
    BY WordFacts
  <2>6. v \div Base = e
    BY <2>1, <2>3, <2>5, WordsOf
  <2>7. QED
    BY <2>4, <2>6
<1>13. Wrap(s) = s
  <2>1. s \in 0 .. 2 * Base - 1 /\ s < Base
    BY <1>1, <1>12
  <2>2. QED
    BY <1>1, <2>1, WrapOnce
<1>14. QED
  BY <1>4, <1>9, <1>12, <1>13 DEF T

-----------------------------------------------------------------------------

\* Newton's iteration for the inverse of n modulo a power of two
IsNewton(f, n, R) ==
  f = [k \in Nat |->
         IF k = 0 THEN n % R
         ELSE (f[k - 1] * ((2 + R - ((n * f[k - 1]) % R)) % R)) % R]

\* What the starting value of Newton's iteration, n itself, inverts: the square
\* of an odd number is one modulo eight.
LEMMA OddSquare ==
  ASSUME NEW n \in Nat, n % 2 = 1
  PROVE  \E k \in Nat : n * n = 1 + 8 * k
<1> DEFINE m == n \div 2
<1>1. m \in Nat /\ n = 2 * m + 1
  OBVIOUS
<1> HIDE DEF m
<1>2. n * n = 4 * (m * (m + 1)) + 1
  BY <1>1
<1>3. \E k \in Nat : m * (m + 1) = 2 * k
  <2> DEFINE g == m \div 2
  <2>1. g \in Nat /\ (m = 2 * g \/ m = 2 * g + 1)
    BY <1>1
  <2> HIDE DEF g
  <2>2. CASE m = 2 * g
    <3>1. m * (m + 1) = 2 * (g * (m + 1)) /\ g * (m + 1) \in Nat
      BY <1>1, <2>1, <2>2
    <3>2. QED
      BY <3>1
  <2>3. CASE m = 2 * g + 1
    <3>1. m * (m + 1) = 2 * (m * (g + 1)) /\ m * (g + 1) \in Nat
      BY <1>1, <2>1, <2>3
    <3>2. QED
      BY <3>1
  <2>4. QED
    BY <2>1, <2>2, <2>3
<1>4. PICK k \in Nat : m * (m + 1) = 2 * k
  BY <1>3
<1>5. n * n = 1 + 8 * k
  BY <1>2, <1>4
<1>6. QED
  BY <1>5

\* v is an inverse of n modulo D.
Inverts(v, n, D) == \E z \in Int : v * n = 1 + z * D

\* One step doubles the number of bits: what divides both the square of D and the
\* radix divides the new error.
LEMMA NewtonStep ==
  ASSUME NEW n \in Nat, NEW R \in Nat \ {0, 1}, NEW v \in Nat,
         NEW D \in Nat, Inverts(v, n, D),
         NEW E \in Nat, NEW g \in Nat, D * D = E * g, NEW r \in Nat, R = E * r
  PROVE  Inverts((v * ((2 + R - ((n * v) % R)) % R)) % R, n, E)
<1> DEFINE y == n * v
           ym == y % R
           yd == y \div R
           s == 2 + R - ym
           t == s % R
           td == s \div R
           w == v * t
           wm == w % R
           wd == w \div R
<1>1. y \in Nat /\ y = v * n
  OBVIOUS
<1> HIDE DEF y
<1>2. ym \in 0 .. R - 1 /\ yd \in Nat /\ y = yd * R + ym
  BY <1>1, DivMod
<1> HIDE DEF ym, yd
<1>3. s \in Nat /\ s = 2 + R - ym
  BY <1>2
<1> HIDE DEF s
<1>4. t \in 0 .. R - 1 /\ td \in Nat /\ s = td * R + t
  BY <1>3, DivMod
<1> HIDE DEF t, td
<1>5. w \in Nat /\ w = v * t
  BY <1>4
<1> HIDE DEF w
<1>6. wm \in 0 .. R - 1 /\ wd \in Nat /\ w = wd * R + wm
  BY <1>5, DivMod
<1> HIDE DEF wm, wd
<1>7. PICK z \in Int : y = 1 + z * D
  BY <1>1 DEF Inverts
\* y + t is 2 up to a multiple h of the radix
<1> DEFINE h == (yd + 1) - td
<1>8. h \in Int /\ t = (2 - y) + h * R
  <2>1. h * R = (yd * R + R) - td * R
    BY <1>2, <1>4
  <2> DEFINE u1 == yd * R
             u2 == td * R
  <2>2. u1 \in Nat /\ u2 \in Nat
    BY <1>2, <1>4
  <2>3. h * R = (u1 + R) - u2 /\ y = u1 + ym /\ s = u2 + t
    BY <1>2, <1>4, <2>1
  <2> HIDE DEF u1, u2
  <2>4. t = (2 - y) + h * R
    <3> HIDE DEF h
    <3>1. QED
      BY <1>1, <1>2, <1>3, <1>4, <2>2, <2>3
  <2>5. QED
    BY <1>2, <1>4, <2>4
<1> HIDE DEF h
<1> DEFINE i == h * y - wd * n
           a == z * z
           f == i * r - a * g
<1>9. wm * n = y * t - (wd * n) * R
  <2>1. wm = v * t - wd * R
    BY <1>4, <1>5, <1>6
  <2>2. wm * n = (v * t) * n - (wd * R) * n
    BY <1>4, <1>6, <2>1
  <2>3. (v * t) * n = y * t /\ (wd * R) * n = (wd * n) * R
    BY <1>1, <1>4, <1>6
  <2>4. QED
    BY <2>2, <2>3
<1>10. y * t = 1 - (z * D) * (z * D) + (h * y) * R
  <2>1. y * t = y * (2 - y) + y * (h * R)
    BY <1>1, <1>8
  <2>2. y * (h * R) = (h * y) * R
    BY <1>1, <1>8
  <2>3. y * (2 - y) = 1 - (z * D) * (z * D)
    <3> DEFINE u == z * D
    <3>1. u \in Int
      OBVIOUS
    <3> HIDE DEF u
    <3>2. (1 + u) * (2 - (1 + u)) = 1 - u * u
      BY <3>1
    <3>3. QED
      BY <1>7, <3>2 DEF u
  <2>4. QED
    BY <2>1, <2>2, <2>3
<1>11. (z * D) * (z * D) = (a * g) * E
  <2>1. (z * D) * (z * D) = a * (D * D)
    OBVIOUS
  <2>2. a * (E * g) = (a * g) * E
    OBVIOUS
  <2>3. QED
    BY <2>1, <2>2
<1>12. i \in Int /\ a \in Int
  BY <1>1, <1>6, <1>8
<1>13. (h * y) * R - (wd * n) * R = (i * r) * E
  <2>1. (h * y) * R - (wd * n) * R = i * R
    BY <1>1, <1>6, <1>8
  <2> HIDE DEF i
  <2>2. i * R = (i * r) * E
    BY <1>12
  <2>3. QED
    BY <2>1, <2>2
<1>14. wm * n = 1 + f * E
  <2> DEFINE p1 == (h * y) * R
             p2 == (wd * n) * R
             p3 == (i * r) * E
             p4 == (a * g) * E
             p5 == y * t
             p6 == wm * n
  <2>1. p1 \in Int /\ p2 \in Int /\ p3 \in Int /\ p4 \in Int /\ p5 \in Int /\ p6 \in Int
    <3> HIDE DEF i, a
    <3>1. QED
      BY <1>1, <1>4, <1>6, <1>8, <1>12
  <2>2. p6 = p5 - p2 /\ p5 = 1 - p4 + p1 /\ p1 - p2 = p3
    BY <1>9, <1>10, <1>11, <1>13
  <2>3. f * E = p3 - p4
    <3> HIDE DEF i, a
    <3>1. QED
      BY <1>12
  <2> HIDE DEF p1, p2, p3, p4, p5, p6, f
  <2>4. p6 = 1 + f * E
    BY <2>1, <2>2, <2>3
  <2>5. QED
    BY <2>4 DEF p6
<1>15. f \in Int
  <2> HIDE DEF i, a
  <2>1. QED
    BY <1>12
<1> HIDE DEF f
<1>16. Inverts(wm, n, E)
  BY <1>14, <1>15 DEF Inverts
<1>17. QED
  BY <1>16 DEF wm, w, t, s, ym, y

-----------------------------------------------------------------------------

\* The iteration is defined.
LEMMA NewtonExists ==
  ASSUME NEW n \in Nat, NEW R \in Nat \ {0}
  PROVE  \E f : IsNewton(f, n, R)
<1> DEFINE V == 0 .. R - 1
           D == [a \in Nat \X V |-> (a[2] * ((2 + R - ((n * a[2]) % R)) % R)) % R]
<1>1. ASSUME NEW v \in V
      PROVE  (v * ((2 + R - ((n * v) % R)) % R)) % R \in V
  <2> DEFINE y == n * v
             m == y % R
             s == 2 + R - m
             t == s % R
             w == v * t
  <2>1. y \in Nat /\ v \in Nat
    OBVIOUS
  <2> HIDE DEF y
  <2>2. m \in 0 .. R - 1
    BY <2>1, DivMod
  <2> HIDE DEF m
  <2>3. s \in Nat
    BY <2>2
  <2> HIDE DEF s
  <2>4. t \in 0 .. R - 1
    BY <2>3, DivMod
  <2> HIDE DEF t
  <2>5. w \in Nat
    BY <2>1, <2>4
  <2> HIDE DEF w
  <2>6. w % R \in 0 .. R - 1
    BY <2>5, DivMod
  <2>7. QED
    BY <2>6 DEF w, t, s, m, y
<1>2. D \in [Nat \X V -> V]
  <2> SUFFICES ASSUME NEW a \in Nat \X V
               PROVE  (a[2] * ((2 + R - ((n * a[2]) % R)) % R)) % R \in V
    OBVIOUS
  <2>1. a[2] \in V
    OBVIOUS
  <2>2. QED
    BY <1>1, <2>1
<1>3. n % R \in V
  BY DivMod
<1>4. PICK f \in [Nat -> V] : SolvesNat(f, n % R, D)
  <2> HIDE DEF D, V
  <2>1. QED
    BY <1>2, <1>3, NatRecursion
<1>5. \A k \in Nat : k # 0 =>
        D[<<k, f[k - 1]>>] = (f[k - 1] * ((2 + R - ((n * f[k - 1]) % R)) % R)) % R
  <2> SUFFICES ASSUME NEW k \in Nat, k # 0
               PROVE  D[<<k, f[k - 1]>>]
                        = (f[k - 1] * ((2 + R - ((n * f[k - 1]) % R)) % R)) % R
    OBVIOUS
  <2>1. k - 1 \in Nat
    OBVIOUS
  <2>2. f[k - 1] \in V
    BY <2>1
  <2> DEFINE v == f[k - 1]
  <2> HIDE DEF v, V
  <2>3. <<k, v>> \in Nat \X V
    BY <2>2 DEF v
  <2>4. D[<<k, v>>] = (v * ((2 + R - ((n * v) % R)) % R)) % R
    BY <2>3
  <2>5. QED
    BY <2>4 DEF v
<1>6. IsNewton(f, n, R)
  <2> HIDE DEF D
  <2>1. QED
    BY <1>4, <1>5 DEF SolvesNat, IsNewton
<1>7. QED
  BY <1>6

\* Each step of Newton's iteration doubles the bits of the inverse, starting
\* from three.
LEMMA NewtonIs ==
  ASSUME NEW n \in Nat, n % 2 = 1, NEW r \in Nat \ {0}, NEW R, R = 2^r,
         NEW f, IsNewton(f, n, R)
  PROVE  \A k \in Nat :
           /\ f[k] \in 0 .. R - 1
           /\ \A d \in 0 .. r : d <= 3 * 2^k => Inverts(f[k], n, 2^d)
<1> DEFINE Good(k) == /\ f[k] \in 0 .. R - 1
                      /\ \A d \in 0 .. r : d <= 3 * 2^k => Inverts(f[k], n, 2^d)
           S == {k \in Nat : Good(k)}
<1>1. R \in Nat \ {0, 1}
  <2>1. r - 1 \in Nat /\ (r - 1) + 1 = r
    OBVIOUS
  <2>2. 2^(r - 1) \in Nat \ {0} /\ 2^((r - 1) + 1) = 2 * 2^(r - 1)
    BY <2>1, PowersOfTwo
  <2>3. QED
    BY <2>1, <2>2
<1>2. ASSUME NEW d \in 0 .. r
      PROVE  2^d \in Nat /\ \E g \in Nat : R = 2^d * g
  <2>1. d \in Nat /\ r - d \in Nat /\ d + (r - d) = r
    OBVIOUS
  <2>2. 2^d \in Nat /\ 2^(r - d) \in Nat
    BY <2>1, PowersOfTwo
  <2>3. 2^(d + (r - d)) = 2^d * 2^(r - d)
    BY <2>1, TwoPowSum
  <2>4. QED
    BY <2>1, <2>2, <2>3
<1>3. 0 \in S
  <2>1. f[0] = n % R
    BY DEF IsNewton
  <2> DEFINE m == n % R
             j == n \div R
  <2>2. m \in 0 .. R - 1 /\ j \in Nat /\ n = j * R + m
    BY <1>1, DivMod
  <2> HIDE DEF m, j
  <2>3. PICK k \in Nat : n * n = 1 + 8 * k
    BY OddSquare
  <2>4. ASSUME NEW d \in 0 .. r, d <= 3 * 2^0
        PROVE  Inverts(m, n, 2^d)
    <3> DEFINE D == 2^d
    <3>1. D \in Nat /\ \E g \in Nat : R = D * g
      BY <1>2
    <3>2. PICK g \in Nat : R = D * g
      BY <3>1
    <3>3. \E h \in Nat : 8 = D * h
      <4>1. 2^0 = 1 /\ d \in Nat /\ d <= 3
        BY <2>4
      <4>2. d \in Nat /\ 3 - d \in Nat /\ d + (3 - d) = 3
        BY <4>1
      <4>3. 2^(3 - d) \in Nat
        BY <4>2, PowersOfTwo
      <4>4. 2^(d + (3 - d)) = 2^d * 2^(3 - d)
        BY <4>2, TwoPowSum
      <4>5. 2^3 = 8
        OBVIOUS
      <4>6. QED
        BY <4>2, <4>3, <4>4, <4>5
    <3>4. PICK h \in Nat : 8 = D * h
      BY <3>3
    <3> HIDE DEF D
    <3> DEFINE z == h * k - (j * n) * g
    <3>5. m * n = n * n - (j * n) * R
      <4>1. m = n - j * R
        BY <1>1, <2>2
      <4>2. m * n = n * n - (j * R) * n
        BY <1>1, <2>2, <4>1
      <4>3. (j * R) * n = (j * n) * R
        BY <1>1, <2>2
      <4>4. QED
        BY <4>2, <4>3
    <3>6. z * D = 8 * k - (j * n) * R
      <4>1. (h * k) * D = 8 * k
        BY <3>1, <3>4
      <4>2. ((j * n) * g) * D = (j * n) * R
        BY <2>2, <3>1, <3>2
      <4>3. z * D = (h * k) * D - ((j * n) * g) * D
        <5> DEFINE a == h * k
                   b == (j * n) * g
        <5>1. a \in Int /\ b \in Int
          BY <2>2
        <5> HIDE DEF a, b
        <5>2. (a - b) * D = a * D - b * D
          BY <3>1, <5>1
        <5>3. QED
          BY <5>2 DEF a, b
      <4>4. QED
        BY <4>1, <4>2, <4>3
    <3>7. m * n = 1 + z * D
      <4> DEFINE a == (j * n) * R
                 b == m * n
                 c == z * D
                 e == n * n
      <4>1. a \in Int /\ e \in Int
        BY <1>1, <2>2
      <4>2. b = e - a /\ c = 8 * k - a /\ e = 1 + 8 * k
        BY <2>3, <3>5, <3>6
      <4> HIDE DEF a, b, c, e, z
      <4>3. b = 1 + c
        BY <4>1, <4>2
      <4>4. QED
        BY <4>3 DEF b, c
    <3>8. z \in Int
      BY <2>2
    <3> HIDE DEF z
    <3>9. QED
      BY <3>7, <3>8 DEF Inverts, D
  <2>5. Good(0)
    BY <2>1, <2>2, <2>4 DEF m
  <2>6. QED
    BY <2>5
<1>4. ASSUME NEW k \in Nat, k \in S
      PROVE  k + 1 \in S
  <2> DEFINE v == f[k]
             v1 == (v * ((2 + R - ((n * v) % R)) % R)) % R
             w == 2^k
  <2>1. f[k + 1] = v1
    <3>1. k + 1 \in Nat /\ k + 1 # 0 /\ (k + 1) - 1 = k
      OBVIOUS
    <3>2. QED
      BY <3>1 DEF IsNewton
  <2>2. v \in 0 .. R - 1 /\ \A d \in 0 .. r : d <= 3 * w => Inverts(v, n, 2^d)
    BY <1>4
  <2>3. w \in Nat \ {0} /\ 2^(k + 1) = 2 * w
    BY PowersOfTwo
  <2>4. v1 \in 0 .. R - 1
    <3> DEFINE t == (2 + R - ((n * v) % R)) % R
    <3>1. t \in Nat
      <4> DEFINE y == n * v
                 s == 2 + R - (y % R)
      <4>1. y \in Nat
        BY <1>1, <2>2
      <4> HIDE DEF y
      <4>2. y % R \in 0 .. R - 1
        BY <1>1, <4>1, DivMod
      <4>3. s \in Nat
        BY <1>1, <4>2
      <4> HIDE DEF s
      <4>4. s % R \in 0 .. R - 1
        BY <1>1, <4>3, DivMod
      <4>5. s % R \in Nat
        BY <1>1, <4>4
      <4>6. QED
        BY <4>5 DEF s, y
    <3> HIDE DEF t
    <3> DEFINE p == v * t
    <3>2. p \in Nat
      BY <1>1, <2>2, <3>1
    <3> HIDE DEF p
    <3>3. p % R \in 0 .. R - 1
      BY <1>1, <3>2, DivMod
    <3>4. QED
      BY <3>3 DEF p, t
  <2>5. ASSUME NEW d \in 0 .. r, d <= 3 * 2^(k + 1)
        PROVE  Inverts(v1, n, 2^d)
    <3> DEFINE e == (d + 1) \div 2
    <3>1. d \in Nat /\ e \in Nat /\ d <= 2 * e /\ 2 * e <= d + 1
      OBVIOUS
    <3> HIDE DEF e
    <3>2. e \in 0 .. r /\ e <= 3 * w
      <4>1. d <= 2 * (3 * w) /\ 3 * w \in Nat
        BY <2>3, <2>5
      <4>2. e <= d
        BY <3>1
      <4> DEFINE u == 3 * w
      <4> HIDE DEF u
      <4>3. d <= 2 * u /\ u \in Nat
        BY <4>1 DEF u
      <4>4. e <= u
        BY <3>1, <4>3
      <4>5. QED
        BY <3>1, <4>2, <4>4 DEF u
    <3>3. Inverts(v, n, 2^e)
      BY <2>2, <3>2
    <3>4. 2^e \in Nat /\ 2^d \in Nat /\ \E g \in Nat : 2^e * 2^e = 2^d * g
      <4>1. 2 * e - d \in Nat /\ d + (2 * e - d) = e + e /\ e \in Nat /\ d \in Nat
        BY <3>1
      <4>2. 2^(2 * e - d) \in Nat /\ 2^e \in Nat /\ 2^d \in Nat
        BY <4>1, PowersOfTwo
      <4>3. 2^(e + e) = 2^e * 2^e /\ 2^(d + (2 * e - d)) = 2^d * 2^(2 * e - d)
        BY <4>1, TwoPowSum
      <4>4. QED
        BY <4>1, <4>2, <4>3
    <3>5. PICK g \in Nat : 2^e * 2^e = 2^d * g
      BY <3>4
    <3>6. PICK g1 \in Nat : R = 2^d * g1
      BY <1>2
    <3> DEFINE D == 2^e
               E == 2^d
    <3>7. D \in Nat /\ E \in Nat /\ D * D = E * g /\ R = E * g1 /\ Inverts(v, n, D)
      BY <3>3, <3>4, <3>5, <3>6
    <3>8. v \in Nat
      BY <1>1, <2>2
    <3> HIDE DEF D, E, v
    <3>9. Inverts(v1, n, E)
      BY <1>1, <3>7, <3>8, NewtonStep
    <3>10. QED
      BY <3>9 DEF E
  <2> HIDE DEF v, v1, w
  <2>6. Good(k + 1)
    BY <2>1, <2>4, <2>5
  <2>7. QED
    BY <2>6
<1> HIDE DEF S
<1>5. Nat \subseteq S
  BY <1>3, <1>4, Induction
<1>6. QED
  BY <1>5 DEF S

\* ntt_scalar_mont_qinv for a radix of r bits and enough steps
LEMMA NewtonCorrect ==
  ASSUME NEW n \in Nat, n % 2 = 1, NEW r \in Nat \ {0}, NEW R, R = 2^r,
         NEW steps \in Nat, r <= 3 * 2^steps
  PROVE  /\ Newton(n, R, steps) \in 0 .. R - 1
         /\ (Newton(n, R, steps) * n) % R = R - 1
<1> DEFINE f == CHOOSE g : g = [k \in Nat |->
                    IF k = 0 THEN n % R
                    ELSE (g[k - 1] * ((2 + R - ((n * g[k - 1]) % R)) % R)) % R]
           v == f[steps]
<1>1. Newton(n, R, steps) = (R - v) % R
  BY DEF Newton
<1>2. R \in Nat \ {0, 1}
  <2>1. r - 1 \in Nat /\ (r - 1) + 1 = r
    OBVIOUS
  <2>2. 2^(r - 1) \in Nat \ {0} /\ 2^((r - 1) + 1) = 2 * 2^(r - 1)
    BY <2>1, PowersOfTwo
  <2>3. QED
    BY <2>1, <2>2
<1>3. IsNewton(f, n, R)
  <2>1. \E g : IsNewton(g, n, R)
    BY <1>2, NewtonExists
  <2>2. QED
    BY <2>1 DEF IsNewton
<1> HIDE DEF f
<1>4. v \in 0 .. R - 1 /\ Inverts(v, n, R)
  <2>1. r \in 0 .. r
    OBVIOUS
  <2>2. QED
    BY <1>3, <2>1, NewtonIs
<1> HIDE DEF v
<1>5. PICK z \in Int : v * n = 1 + z * R
  BY <1>4 DEF Inverts
<1>6. v # 0
  <2>1. ASSUME v = 0
        PROVE  FALSE
    <3>1. 1 + z * R = 0
      BY <1>5, <2>1
    <3>2. (0 - z) * R = 1
      BY <1>2, <3>1
    <3>3. 0 - z >= 1
      <4>1. ASSUME NEW y \in Int, y * R = 1
            PROVE  y >= 1
        BY <1>2, <4>1
      <4>2. 0 - z \in Int
        OBVIOUS
      <4>3. QED
        BY <3>2, <4>1, <4>2
    <3> DEFINE y == 0 - z
    <3> HIDE DEF y
    <3>4. y \in Nat /\ y >= 1 /\ y * R = 1
      BY <3>2, <3>3 DEF y
    <3>5. 1 * R <= y * R
      BY <1>2, <3>4
    <3>6. QED
      BY <1>2, <3>4, <3>5
  <2>2. QED
    BY <2>1
<1> DEFINE w == R - v
           c == (n - z) - 1
           p == w * n
<1>7. w \in 1 .. R - 1 /\ w % R = w
  BY <1>2, <1>4, <1>6
<1>8. p = c * R + (R - 1)
  <2>1. p = R * n - v * n
    BY <1>2, <1>4
  <2>2. c * R = R * n - z * R - R
    <3> DEFINE a == R * n
               b == z * R
    <3>1. a \in Int /\ b \in Int /\ c * R = a - b - R
      BY <1>2
    <3>2. QED
      BY <3>1
  <2> DEFINE a == R * n
             b == z * R
             e == v * n
             g == c * R
  <2>3. a \in Int /\ b \in Int
    BY <1>2
  <2>4. p = a - e /\ e = 1 + b /\ g = a - b - R
    BY <1>5, <2>1, <2>2
  <2> HIDE DEF a, b, e, g, p
  <2>5. p = g + (R - 1)
    BY <1>2, <2>3, <2>4
  <2>6. QED
    BY <2>5 DEF g
<1>9. p \in Nat
  <2>1. w \in Nat
    BY <1>2, <1>7
  <2> HIDE DEF w
  <2>2. QED
    BY <2>1
<1>10. c \in Nat
  <2>1. c \in Int
    OBVIOUS
  <2> HIDE DEF c, p
  <2>2. ASSUME c <= -1
        PROVE  FALSE
    <3>1. c * R <= (-1) * R
      BY <1>2, <2>1, <2>2
    <3>2. p < 0
      BY <1>2, <1>8, <2>1, <3>1
    <3>3. QED
      BY <1>9, <3>2
  <2>3. QED
    BY <2>1, <2>2
<1> HIDE DEF p, c
<1>11. p % R = R - 1
  <2>1. R - 1 \in 0 .. R - 1
    BY <1>2
  <2>2. QED
    BY <1>2, <1>8, <1>9, <1>10, <2>1, ModUnique
<1>12. QED
  BY <1>1, <1>2, <1>7, <1>11 DEF p

\* The radix of Montgomery's representation for a build of either width
RadixOf(q32) == IF q32 THEN Half ELSE Base

\* ntt_scalar_mont_qinv: the numbers of steps suffice for words of up to 192 bits.
THEOREM MontQInvCorrect ==
  ASSUME WordBits <= 192, NEW n \in Nat, n % 2 = 1, NEW q32 \in BOOLEAN
  PROVE  /\ MontQInv(n, q32) \in 0 .. RadixOf(q32) - 1
         /\ (MontQInv(n, q32) * n) % RadixOf(q32) = RadixOf(q32) - 1
<1>1. 3 * 2^5 = 96 /\ 3 * 2^6 = 192
  OBVIOUS
<1>2. WordBits \in Nat \ {0} /\ WordBits \div 2 \in Nat \ {0} /\ WordBits \div 2 <= 96
  BY WordAssumption
<1>3. CASE q32
  <2>1. /\ Newton(n, Half, 5) \in 0 .. Half - 1
        /\ (Newton(n, Half, 5) * n) % Half = Half - 1
    <3> DEFINE r == WordBits \div 2
    <3>1. r \in Nat \ {0} /\ r <= 3 * 2^5 /\ Half = 2^r /\ 5 \in Nat
      BY <1>1, <1>2 DEF Half
    <3> HIDE DEF r
    <3>2. QED
      BY <3>1, NewtonCorrect
  <2>2. QED
    BY <1>3, <2>1 DEF MontQInv, RadixOf
<1>4. CASE ~q32
  <2>1. /\ Newton(n, Base, 6) \in 0 .. Base - 1
        /\ (Newton(n, Base, 6) * n) % Base = Base - 1
    <3> DEFINE r == WordBits
    <3>1. r \in Nat \ {0} /\ r <= 3 * 2^6 /\ Base = 2^r /\ 6 \in Nat
      BY <1>1, <1>2 DEF Base
    <3> HIDE DEF r
    <3>2. QED
      BY <3>1, NewtonCorrect
  <2>2. QED
    BY <1>4, <2>1 DEF MontQInv, RadixOf
<1>5. QED
  BY <1>3, <1>4

\* ntt_scalar_mont_r2 doubles its way up to the square of the radix.
THEOREM MontR2Correct ==
  ASSUME NEW n \in Nat \ {0, 1}, 2 * n <= Base, NEW q32 \in BOOLEAN
  PROVE  /\ MontR2(n, q32) = (RadixOf(q32) * RadixOf(q32)) % n
         /\ MontR2(n, q32) \in 0 .. n - 1
<1> DEFINE f == CHOOSE g :
                  g = [k \in Nat |-> IF k = 0 THEN 1 ELSE Once(Wrap(2 * g[k - 1]), n)]
           b == IF q32 THEN WordBits ELSE 2 * WordBits
<1>1. MontR2(n, q32) = f[b]
  BY DEF MontR2
<1>2. 1 \in 0 .. n - 1 /\ n \in Nat \ {0}
  OBVIOUS
<1>3. IsDoubled(f, 1, n)
  <2>1. \E g : IsDoubled(g, 1, n)
    BY <1>2, DoubledExists
  <2>2. QED
    BY <2>1 DEF IsDoubled
<1> HIDE DEF f
<1>4. \A k \in Nat : f[k] = (1 * 2^k) % n /\ f[k] \in 0 .. n - 1
  BY <1>2, <1>3, DoubledIs
<1>5. b \in Nat
  BY WordAssumption
<1>6. 2^b = RadixOf(q32) * RadixOf(q32)
  <2>1. CASE q32
    BY <2>1, WordFacts DEF RadixOf
  <2>2. CASE ~q32
    <3>1. 2^(WordBits + WordBits) = 2^WordBits * 2^WordBits
      BY WordAssumption, TwoPowSum
    <3>2. b = WordBits + WordBits
      BY <2>2, WordAssumption
    <3>3. QED
      BY <2>2, <3>1, <3>2 DEF RadixOf, Base
  <2>3. QED
    BY <2>1, <2>2
<1> HIDE DEF b
<1>7. 1 * 2^b = 2^b
  BY <1>5, PowersOfTwo
<1>8. QED
  BY <1>1, <1>4, <1>5, <1>6, <1>7

-----------------------------------------------------------------------------

\* One round of a loop over the bits of a number, as the multiplications by
\* doubling and the powers by squaring have it
BinaryLoop(f, op, K) ==
  \A u \in Word : \A v \in Word : \A k \in K :
    f[<<u, v, k>>] =
      IF k = 0 THEN u
      ELSE f[<<IF k % 2 = 1 THEN op[<<u, v>>] ELSE u, op[<<v, v>>], k \div 2>>]

\* Such a loop is defined.
LEMMA BinaryLoopExists ==
  ASSUME NEW op \in [Word \X Word -> Word], NEW K \in {Word, Nat}
  PROVE  \E f \in [Word \X Word \X K -> Word] : BinaryLoop(f, op, K)
<1> DEFINE A == Word \X Word \X K
           B == {s \in A : s[3] = 0}
           C == [s \in A |-> s[1]]
           G == [s \in A |-> <<IF s[3] % 2 = 1 THEN op[<<s[1], s[2]>>] ELSE s[1],
                              op[<<s[2], s[2]>>], s[3] \div 2>>]
           M == [s \in A |-> s[3]]
<1>1. \A k \in K : k \in Nat /\ k \div 2 \in K /\ (k # 0 => k \div 2 < k)
  <2>1. Word = 0 .. Base - 1 /\ Base \in Nat
    BY WordFacts
  <2>2. CASE K = Nat
    BY <2>2
  <2>3. CASE K = Word
    BY <2>1, <2>3
  <2>4. QED
    BY <2>2, <2>3
<1>2. C \in [A -> Word] /\ M \in [A -> Nat]
  BY <1>1
<1>3. \A s \in A \ B : G[s] \in A /\ M[G[s]] < M[s]
  <2> SUFFICES ASSUME NEW s \in A \ B
               PROVE  G[s] \in A /\ M[G[s]] < M[s]
    OBVIOUS
  <2>1. s[1] \in Word /\ s[2] \in Word /\ s[3] \in K /\ s[3] # 0
    OBVIOUS
  <2>2. s[3] \div 2 \in K /\ s[3] \div 2 < s[3]
    BY <1>1, <2>1
  <2>3. op[<<s[1], s[2]>>] \in Word /\ op[<<s[2], s[2]>>] \in Word
    BY <2>1
  <2>4. G[s] \in A /\ G[s][3] = s[3] \div 2
    BY <2>1, <2>2, <2>3
  <2>5. QED
    BY <2>2, <2>4
<1>4. PICK f \in [A -> Word] : Iterates(f, A, B, C, G)
  <2> HIDE DEF A, B, C, G, M
  <2>1. QED
    BY <1>2, <1>3, IterationExists
<1>5. BinaryLoop(f, op, K)
  <2> SUFFICES ASSUME NEW u \in Word, NEW v \in Word, NEW k \in K
               PROVE  f[<<u, v, k>>] =
                        IF k = 0 THEN u
                        ELSE f[<<IF k % 2 = 1 THEN op[<<u, v>>] ELSE u, op[<<v, v>>],
                                 k \div 2>>]
    BY DEF BinaryLoop
  <2> DEFINE s == <<u, v, k>>
  <2>1. s \in A /\ s[1] = u /\ s[2] = v /\ s[3] = k
    OBVIOUS
  <2>2. f[s] = IF s \in B THEN C[s] ELSE f[G[s]]
    <3> HIDE DEF A, B, C, G, s
    <3>1. QED
      BY <1>4, <2>1 DEF Iterates
  <2> HIDE DEF s
  <2>3. s \in B <=> k = 0
    BY <2>1
  <2>4. C[s] = u /\ G[s] = <<IF k % 2 = 1 THEN op[<<u, v>>] ELSE u, op[<<v, v>>], k \div 2>>
    BY <2>1
  <2> HIDE DEF A, B, C, G
  <2>5. f[s] = IF k = 0 THEN u
               ELSE f[<<IF k % 2 = 1 THEN op[<<u, v>>] ELSE u, op[<<v, v>>], k \div 2>>]
    BY <2>2, <2>3, <2>4
  <2>6. QED
    BY <2>5 DEF s
<1>6. QED
  BY <1>4, <1>5

\* The moduli that a version of the multiplication by doubling is given
Suits(version, n) ==
  /\ version \in {"utils", "toy", "naive"}
  /\ n \in 2 .. Base - 1
  /\ version # "utils" => 2 * n <= Base

\* Sums in the loop: a word in any case, and the sum of residues
LEMMA AccumulateIs ==
  ASSUME NEW version, NEW n, Suits(version, n), NEW u \in Word, NEW v \in Word
  PROVE  /\ Accumulate(version, u, v, n) \in Word
         /\ u < n /\ v < n => Accumulate(version, u, v, n) = (u + v) % n
<1>1. Base \in Nat \ {0} /\ Word = 0 .. Base - 1 /\ n \in Nat \ {0} /\ n < Base
  BY WordFacts DEF Suits
<1> DEFINE w == Wrap(u + v)
<1>2. w \in 0 .. Base - 1
  BY CarryIs, <1>1
<1> HIDE DEF w
<1>3. CASE version = "utils"
  <2>1. Accumulate(version, u, v, n) = AddModU64(u, v, n)
    BY <1>3 DEF Accumulate
  <2>2. AddModU64(u, v, n) = IF w >= u THEN IF w >= n THEN w - n ELSE w
                                       ELSE Wrap(w + (Base - n))
    BY DEF AddModU64, w
  <2>3. Wrap(w + (Base - n)) \in Word
    <3>1. Base - n \in Word /\ w \in Word
      BY <1>1, <1>2
    <3>2. QED
      BY <3>1, CarryIs
  <2>4. AddModU64(u, v, n) \in Word
    BY <1>1, <1>2, <2>2, <2>3
  <2>5. ASSUME u < n, v < n
        PROVE  AddModU64(u, v, n) = (u + v) % n
    <3>1. n \in 1 .. Base /\ u \in 0 .. n - 1 /\ v \in 0 .. n - 1 /\ Base \in Nat
      BY <1>1, <2>5
    <3>2. QED
      BY <3>1, AddModU64Correct
  <2>6. QED
    BY <2>1, <2>4, <2>5
<1>4. CASE version # "utils"
  <2>1. Accumulate(version, u, v, n) = w % n
    BY <1>4 DEF Accumulate, w
  <2>2. w % n \in 0 .. n - 1
    <3>1. w \in Nat
      BY <1>1, <1>2
    <3>2. QED
      BY <1>1, <3>1, DivMod
  <2>3. ASSUME u < n, v < n
        PROVE  w = u + v
    <3>1. 2 * n <= Base
      BY <1>4 DEF Suits
    <3>2. u + v \in 0 .. 2 * Base - 1 /\ u + v < Base
      BY <1>1, <2>3, <3>1
    <3>3. QED
      BY <1>1, <3>2, WrapOnce DEF w
  <2>4. QED
    BY <1>1, <2>1, <2>2, <2>3
<1>5. QED
  BY <1>3, <1>4

\* On residues, op adds modulo n.
AddsModulo(op, n) ==
  \A u \in 0 .. n - 1 : \A v \in 0 .. n - 1 : op[<<u, v>>] = (u + v) % n

\* A loop that adds a product to the sum so far
GivesProducts(f, n) ==
  \A r \in 0 .. n - 1 : \A a \in 0 .. n - 1 : \A b \in Word :
    f[<<r, a, b>>] = (r + a * b) % n

\* The loop of the multiplication: from the sum so far, the number that is
\* doubled and the bits that are left to the residue of the product
LEMMA AddLoopIs ==
  ASSUME NEW n \in Nat \ {0}, NEW f, NEW op \in [Word \X Word -> Word], n <= Base,
         BinaryLoop(f, op, Word), AddsModulo(op, n)
  PROVE  GivesProducts(f, n)
<1> DEFINE Z == 0 .. n - 1
           A == Z \X Z \X Word
           M == [s \in A |-> s[3]]
           S == {s \in A : f[s] = (s[1] + s[2] * s[3]) % n}
<1>1. Z \subseteq Word /\ Word = 0 .. Base - 1 /\ Base \in Nat
  BY WordFacts
<1>2. ASSUME NEW s \in A, \A t \in A : M[t] < M[s] => t \in S
      PROVE  s \in S
  <2>1. PICK u \in Z, v \in Z, k \in Word : s = <<u, v, k>>
    OBVIOUS
  <2>2. u \in Nat /\ v \in Nat /\ k \in Nat /\ u \in Word /\ v \in Word
    BY <1>1
  <2>3. f[s] = IF k = 0 THEN u
               ELSE f[<<IF k % 2 = 1 THEN op[<<u, v>>] ELSE u, op[<<v, v>>], k \div 2>>]
    BY <2>1, <2>2 DEF BinaryLoop
  <2>4. CASE k = 0
    <3>1. u + v * k = u /\ u % n = u
      BY <2>2, <2>4
    <3>2. QED
      BY <2>1, <2>3, <2>4, <3>1
  <2>5. CASE k # 0
    <3> DEFINE u1 == IF k % 2 = 1 THEN op[<<u, v>>] ELSE u
               v1 == op[<<v, v>>]
               h == k \div 2
               c == k % 2
    <3>1. h \in Nat /\ h < k /\ k = 2 * h + c /\ c \in {0, 1}
      BY <2>2, <2>5
    <3>2. h \in Word
      BY <1>1, <3>1
    <3>3. op[<<u, v>>] = (u + v) % n /\ v1 = (v + v) % n
      BY DEF AddsModulo
    <3>4. op[<<u, v>>] \in Z /\ v1 \in Z
      <4> DEFINE p == u + v
                 d == v + v
      <4>1. p \in Nat /\ d \in Nat
        BY <2>2
      <4> HIDE DEF p, d
      <4>2. p % n \in 0 .. n - 1 /\ d % n \in 0 .. n - 1
        BY <4>1, DivMod
      <4>3. QED
        BY <3>3, <4>2 DEF p, d
    <3>5. u1 \in Z /\ u1 % n = (u + v * c) % n
      <4>1. CASE c = 0
        BY <2>2, <4>1
      <4>2. CASE c = 1
        <5> DEFINE p == u + v
        <5>1. p \in Nat /\ u + v * c = p
          BY <2>2, <4>2
        <5>2. u1 = p % n
          BY <3>3, <4>2
        <5> HIDE DEF p, u1
        <5>3. (p % n) % n = p % n
          BY <5>1, ModIdempotent
        <5>4. u1 \in Z
          BY <3>4, <4>2 DEF u1
        <5>5. QED
          BY <5>1, <5>2, <5>3, <5>4
      <4>3. QED
        BY <3>1, <4>1, <4>2
    <3>6. f[s] = f[<<u1, v1, h>>]
      BY <2>3, <2>5
    <3>7. f[<<u1, v1, h>>] = (u1 + v1 * h) % n
      <4>1. <<u1, v1, h>> \in A
        BY <3>2, <3>4, <3>5
      <4>2. M[<<u1, v1, h>>] < M[s]
        BY <2>1, <3>1, <4>1
      <4>3. QED
        BY <1>2, <4>1, <4>2
    <3> HIDE DEF h, c
    <3>8. u1 \in Nat /\ v1 \in Nat
      BY <3>4, <3>5
    <3> DEFINE d == v + v
               w == v * c
    <3>9. d \in Nat /\ w \in Nat /\ v1 = d % n
      BY <2>2, <3>1, <3>3
    <3> HIDE DEF u1, v1
    <3>10. Congruent(u1, u + w, n) /\ Congruent(v1, d, n)
      <4> HIDE DEF d
      <4>1. (d % n) % n = d % n
        BY <3>9, ModIdempotent
      <4>2. QED
        BY <3>5, <3>9, <4>1 DEF Congruent
    <3>11. u + w \in Nat /\ v1 * h \in Nat /\ d * h \in Nat
      BY <2>2, <3>1, <3>8, <3>9
    <3>12. Congruent(v1 * h, d * h, n)
      <4>1. Congruent(h, h, n)
        BY DEF Congruent
      <4> HIDE DEF d
      <4>2. QED
        BY <3>1, <3>8, <3>9, <3>10, <4>1, ProductCongruent
    <3>13. Congruent(u1 + v1 * h, (u + w) + d * h, n)
      <4> DEFINE e == v1 * h
                 g == d * h
                 i == u + w
      <4>1. e \in Nat /\ g \in Nat /\ i \in Nat /\ Congruent(e, g, n) /\ Congruent(u1, i, n)
        BY <3>10, <3>11, <3>12
      <4> HIDE DEF e, g, i
      <4>2. Congruent(u1 + e, i + g, n)
        BY <3>8, <4>1, SumCongruent
      <4>3. QED
        BY <4>2 DEF e, g, i
    <3>14. (u + w) + d * h = u + v * k
      BY <2>2, <3>1
    <3>15. f[s] = (u + v * k) % n
      BY <3>6, <3>7, <3>13, <3>14 DEF Congruent
    <3>16. QED
      BY <2>1, <3>15
  <2>6. QED
    BY <2>4, <2>5
<1>3. M \in [A -> Nat]
  BY <1>1
<1>4. A \subseteq S
  <2> HIDE DEF A, M, S
  <2>1. QED
    BY <1>2, <1>3, MeasureInduction
<1>5. ASSUME NEW r \in 0 .. n - 1, NEW a \in 0 .. n - 1, NEW b \in Word
      PROVE  f[<<r, a, b>>] = (r + a * b) % n
  <2>1. <<r, a, b>> \in A
    OBVIOUS
  <2>2. QED
    BY <1>4, <2>1
<1>6. QED
  BY <1>5 DEF GivesProducts

\* mulmod, ntt__mulmod and naive_mul: products of any words
THEOREM DoublingMulCorrect ==
  ASSUME NEW version, NEW n, Suits(version, n), NEW a \in Word, NEW b \in Word
  PROVE  DoublingMul(version, a, b, n) = (a * b) % n
<1> DEFINE op == [p \in Word \X Word |-> Accumulate(version, p[1], p[2], n)]
           loop == CHOOSE f : f = [s \in Word \X Word \X Word |->
                     IF s[3] = 0 THEN s[1]
                     ELSE f[<<IF s[3] % 2 = 1 THEN Accumulate(version, s[1], s[2], n) ELSE s[1],
                              Accumulate(version, s[2], s[2], n), s[3] \div 2>>]]
           c == IF version = "naive" THEN b ELSE b % n
<1>1. Base \in Nat \ {0} /\ Word = 0 .. Base - 1 /\ n \in Nat \ {0} /\ n < Base
      /\ a \in Nat /\ b \in Nat
  BY WordFacts DEF Suits
<1>2. op \in [Word \X Word -> Word]
  <2> SUFFICES ASSUME NEW p \in Word \X Word
               PROVE  Accumulate(version, p[1], p[2], n) \in Word
    OBVIOUS
  <2>1. p[1] \in Word /\ p[2] \in Word
    OBVIOUS
  <2>2. QED
    BY <2>1, AccumulateIs
<1>3. \A u \in Word : \A v \in Word : op[<<u, v>>] = Accumulate(version, u, v, n)
  OBVIOUS
<1> HIDE DEF op
<1>4. PICK f \in [Word \X Word \X Word -> Word] : BinaryLoop(f, op, Word)
  BY <1>2, BinaryLoopExists
<1>5. f = [s \in Word \X Word \X Word |->
            IF s[3] = 0 THEN s[1]
            ELSE f[<<IF s[3] % 2 = 1 THEN Accumulate(version, s[1], s[2], n) ELSE s[1],
                     Accumulate(version, s[2], s[2], n), s[3] \div 2>>]]
  <2>1. ASSUME NEW s \in Word \X Word \X Word
        PROVE  f[s] =
                 IF s[3] = 0 THEN s[1]
                 ELSE f[<<IF s[3] % 2 = 1 THEN Accumulate(version, s[1], s[2], n) ELSE s[1],
                          Accumulate(version, s[2], s[2], n), s[3] \div 2>>]
    <3>1. PICK u \in Word, v \in Word, k \in Word : s = <<u, v, k>>
      OBVIOUS
    <3>2. f[<<u, v, k>>] =
            IF k = 0 THEN u
            ELSE f[<<IF k % 2 = 1 THEN op[<<u, v>>] ELSE u, op[<<v, v>>], k \div 2>>]
      BY <1>4 DEF BinaryLoop
    <3>3. op[<<u, v>>] = Accumulate(version, u, v, n)
          /\ op[<<v, v>>] = Accumulate(version, v, v, n)
      BY <1>3
    <3>4. s[1] = u /\ s[2] = v /\ s[3] = k
      BY <3>1
    <3>5. QED
      BY <3>1, <3>2, <3>3, <3>4
  <2>2. f \in [Word \X Word \X Word -> Word]
    BY <1>4
  <2>3. QED
    BY <2>1, <2>2
<1>6. loop = [s \in Word \X Word \X Word |->
               IF s[3] = 0 THEN s[1]
               ELSE loop[<<IF s[3] % 2 = 1 THEN Accumulate(version, s[1], s[2], n) ELSE s[1],
                           Accumulate(version, s[2], s[2], n), s[3] \div 2>>]]
  BY <1>5
<1>7. DoublingMul(version, a, b, n) = loop[<<0, a % n, c>>]
  BY DEF DoublingMul
<1> HIDE DEF loop
<1>8. BinaryLoop(loop, op, Word)
  <2> SUFFICES ASSUME NEW u \in Word, NEW v \in Word, NEW k \in Word
               PROVE  loop[<<u, v, k>>] =
                        IF k = 0 THEN u
                        ELSE loop[<<IF k % 2 = 1 THEN op[<<u, v>>] ELSE u, op[<<v, v>>],
                                    k \div 2>>]
    BY DEF BinaryLoop
  <2>1. op[<<u, v>>] = Accumulate(version, u, v, n)
        /\ op[<<v, v>>] = Accumulate(version, v, v, n)
    BY <1>3
  <2> DEFINE s == <<u, v, k>>
  <2>2. s \in Word \X Word \X Word /\ s[1] = u /\ s[2] = v /\ s[3] = k
    OBVIOUS
  <2> HIDE DEF s
  <2>3. loop[s] = IF k = 0 THEN u
                  ELSE loop[<<IF k % 2 = 1 THEN Accumulate(version, u, v, n) ELSE u,
                              Accumulate(version, v, v, n), k \div 2>>]
    BY <1>6, <2>2
  <2>4. QED
    BY <2>1, <2>3 DEF s
<1>9. AddsModulo(op, n)
  <2> SUFFICES ASSUME NEW u \in 0 .. n - 1, NEW v \in 0 .. n - 1
               PROVE  op[<<u, v>>] = (u + v) % n
    BY DEF AddsModulo
  <2>1. u \in Word /\ v \in Word /\ u < n /\ v < n
    BY <1>1
  <2>2. QED
    BY <1>3, <2>1, AccumulateIs
<1> DEFINE an == a % n
           bn == b % n
<1>10. an \in 0 .. n - 1 /\ bn \in 0 .. n - 1
  BY <1>1, DivMod
<1>11. c \in Word /\ c \in Nat
  BY <1>1, <1>10
<1> HIDE DEF an, c
<1>12. loop[<<0, an, c>>] = (0 + an * c) % n
  <2>1. n <= Base /\ n \in Nat \ {0}
    BY <1>1
  <2>2. GivesProducts(loop, n)
    BY <1>2, <1>8, <1>9, <2>1, AddLoopIs
  <2>3. 0 \in 0 .. n - 1 /\ an \in 0 .. n - 1
    BY <1>1, <1>10
  <2>4. QED
    BY <1>11, <2>2, <2>3 DEF GivesProducts
<1>13. 0 + an * c = an * c
  BY <1>1, <1>10, <1>11
<1>14. (an * c) % n = (a * b) % n
  <2>1. CASE version = "naive"
    <3>1. c = b
      BY <2>1 DEF c
    <3>2. ((a % n) * b) % n = (a * b) % n
      BY <1>1, ModMul
    <3>3. QED
      BY <3>1, <3>2 DEF an
  <2>2. CASE version # "naive"
    <3>1. c = b % n
      BY <2>2 DEF c
    <3>2. ((a % n) * (b % n)) % n = (a * b) % n
      BY <1>1, ModMulBoth
    <3>3. QED
      BY <3>1, <3>2 DEF an
  <2>3. QED
    BY <2>1, <2>2
<1>15. QED
  BY <1>7, <1>12, <1>13, <1>14 DEF an

-----------------------------------------------------------------------------

\* What the operations rely on: the constants of a scalar state s, as its setup
\* computes them
Equipped(s) ==
  /\ s.q \in Nat /\ s.q >= 3 /\ s.q % 2 = 1 /\ 2 * s.q <= Base
  /\ s.arith \in {"barrett", "montgomery"}
  /\ s.q32 \in BOOLEAN
  /\ s.q32 <=> s.q < Half
  /\ s.arith = "barrett" => IF s.q32 THEN s.mu = BarrettMu(s.q)
                                     ELSE s.muWide = BarrettMuWide(s.q, s.portable)
  /\ s.arith = "montgomery" =>
       /\ s.qinv \in 0 .. RadixOf(s.q32) - 1
       /\ (s.qinv * s.q) % RadixOf(s.q32) = RadixOf(s.q32) - 1
       /\ s.r2 = (RadixOf(s.q32) * RadixOf(s.q32)) % s.q

\* The factor that a value of the arithmetic of s carries
ScaleOf(s) == IF s.arith = "montgomery" THEN RadixOf(s.q32) ELSE 1

\* The setup computes them.
LEMMA SetupEquips ==
  ASSUME WordBits <= 192, NEW n \in Nat, n >= 3, n % 2 = 1, 2 * n <= Base,
         NEW reduction \in {"barrett", "montgomery"}, NEW portable \in BOOLEAN
  PROVE  Equipped(ScalarState(n, reduction, portable))
<1> DEFINE s == ScalarState(n, reduction, portable)
           b == n < Half
<1>1. /\ s.q = n /\ s.arith = reduction /\ s.portable = portable /\ s.q32 = b
      /\ s.mu = IF reduction = "barrett" /\ b THEN BarrettMu(n) ELSE 0
      /\ s.muWide = IF reduction = "barrett" /\ ~b THEN BarrettMuWide(n, portable)
                                                   ELSE <<0, 0>>
      /\ s.qinv = IF reduction = "montgomery" THEN MontQInv(n, b) ELSE 0
      /\ s.r2 = IF reduction = "montgomery" THEN MontR2(n, b) ELSE 0
  BY DEF ScalarState
<1>2. b \in BOOLEAN
  OBVIOUS
<1> HIDE DEF s
<1>3. /\ MontQInv(n, b) \in 0 .. RadixOf(b) - 1
      /\ (MontQInv(n, b) * n) % RadixOf(b) = RadixOf(b) - 1
  <2> HIDE DEF b
  <2>1. QED
    BY <1>2, MontQInvCorrect
<1>4. MontR2(n, b) = (RadixOf(b) * RadixOf(b)) % n
  <2>1. n \in Nat \ {0, 1}
    OBVIOUS
  <2> HIDE DEF b
  <2>2. QED
    BY <1>2, <2>1, MontR2Correct
<1>5. s.q32 <=> s.q < Half
  BY <1>1
<1> HIDE DEF b
<1>6. CASE reduction = "barrett"
  BY <1>1, <1>2, <1>5, <1>6 DEF Equipped, s
<1>7. CASE reduction = "montgomery"
  BY <1>1, <1>2, <1>3, <1>4, <1>5, <1>7 DEF Equipped, s
<1>8. QED
  BY <1>6, <1>7

\* The factor is no more than a word's range, and a factor c undoes it.
LEMMA ScaleIs ==
  ASSUME NEW s, Equipped(s)
  PROVE  /\ ScaleOf(s) \in Nat \ {0}
         /\ \E c \in 0 .. s.q - 1 : (ScaleOf(s) * c) % s.q = 1
<1> DEFINE n == s.q
           R == RadixOf(s.q32)
<1>1. n \in Nat \ {0, 1}
  BY DEF Equipped
<1>2. R \in Nat \ {0}
  BY WordFacts DEF RadixOf
<1>3. CASE s.arith # "montgomery"
  <2>1. ScaleOf(s) = 1
    BY <1>3 DEF ScaleOf
  <2>2. 1 \in 0 .. n - 1 /\ 1 * 1 = 1 /\ 1 % n = 1
    BY <1>1
  <2>3. QED
    BY <2>1, <2>2
<1>4. CASE s.arith = "montgomery"
  <2> DEFINE p == s.qinv * n
             k == p \div R
             c == (k + 1) % n
  <2>1. s.qinv \in Nat /\ p % R = R - 1
    BY <1>2, <1>4 DEF Equipped
  <2>2. p \in Nat
    BY <1>1, <2>1
  <2> HIDE DEF R
  <2>3. k \in Nat /\ p = k * R + (R - 1)
    <3> HIDE DEF p
    <3>1. k \in Nat /\ p = k * R + (p % R)
      BY <1>2, <2>2, DivMod
    <3>2. QED
      BY <2>1, <3>1
  <2> HIDE DEF k
  <2>4. R * (k + 1) = s.qinv * n + 1
    <3>1. R * (k + 1) = k * R + R
      BY <1>2, <2>3
    <3> DEFINE u == k * R
               v == R * (k + 1)
    <3>2. u \in Nat /\ p = u + (R - 1) /\ v = u + R
      BY <1>2, <2>3, <3>1
    <3> HIDE DEF u, v, p
    <3>3. v = p + 1
      BY <1>2, <3>2
    <3>4. QED
      BY <3>3 DEF v, p
  <2>5. (s.qinv * n + 1) % n = 1 % n
    <3> HIDE DEF n
    <3>1. n \in Nat \ {0} /\ 1 \in Nat
      BY <1>1
    <3>2. QED
      BY <2>1, <3>1, ModAdd
  <2>6. 1 % n = 1
    BY <1>1
  <2> DEFINE j == k + 1
  <2>7. j \in Nat
    BY <2>3
  <2> HIDE DEF j, n
  <2>8. (R * (j % n)) % n = (R * j) % n /\ j % n \in 0 .. n - 1
    <3>1. n \in Nat \ {0}
      BY <1>1
    <3>2. QED
      BY <1>2, <2>7, <3>1, ModMul, DivMod
  <2>9. ScaleOf(s) = R
    BY <1>4 DEF ScaleOf, R
  <2>10. QED
    BY <1>2, <2>4, <2>5, <2>6, <2>8, <2>9 DEF j, n
<1>5. QED
  BY <1>3, <1>4

Undoes(c, R, n) == (R * c) % n = 1

\* So it can be cancelled.
LEMMA ScaleCancels ==
  ASSUME NEW n \in Nat \ {0, 1}, NEW R \in Nat, NEW c \in Nat, Undoes(c, R, n)
  PROVE  \A u, v \in Nat : (u * R) % n = (v * R) % n => u % n = v % n
<1> SUFFICES ASSUME NEW u \in Nat, NEW v \in Nat, (u * R) % n = (v * R) % n
             PROVE  u % n = v % n
  OBVIOUS
<1>1. n \in Nat \ {0}
  OBVIOUS
<1>2. ASSUME NEW k \in Nat
      PROVE  (((k * R) % n) * c) % n = k % n
  <2> DEFINE kR == k * R
             Rc == R * c
  <2>1. kR \in Nat /\ Rc \in Nat /\ kR * c = k * Rc
    OBVIOUS
  <2>2. Rc % n = 1
    BY DEF Undoes
  <2> HIDE DEF kR, Rc
  <2>3. ((kR % n) * c) % n = (kR * c) % n
    BY <1>1, <2>1, ModMul
  <2>4. (k * (Rc % n)) % n = (k * Rc) % n
    BY <1>1, <2>1, ModMul
  <2>5. k * 1 = k
    OBVIOUS
  <2>6. QED
    BY <2>1, <2>2, <2>3, <2>4, <2>5 DEF kR
<1>3. (((u * R) % n) * c) % n = u % n /\ (((v * R) % n) * c) % n = v % n
  BY <1>2
<1>4. QED
  BY <1>3

-----------------------------------------------------------------------------

\* A product grows with its factors.
LEMMA ProductBound ==
  ASSUME NEW j \in Nat, NEW k \in Nat, NEW u \in Nat, NEW v \in Nat,
         j <= u, k <= v
  PROVE  j * k <= u * v
<1>1. j * k <= u * k
  OBVIOUS
<1>2. u * k <= u * v
  OBVIOUS
<1>3. j * k \in Nat /\ u * k \in Nat /\ u * v \in Nat
  OBVIOUS
<1>4. QED
  BY <1>1, <1>2, <1>3

\* ntt_scalar_mont_mul: of a number that fits the build and a residue
LEMMA MontMulIs ==
  ASSUME NEW s, Equipped(s), s.arith = "montgomery",
         NEW a \in Word, s.q32 => a < Half, NEW b \in 0 .. s.q - 1
  PROVE  /\ MontMul(s, a, b) \in 0 .. s.q - 1
         /\ (MontMul(s, a, b) * RadixOf(s.q32)) % s.q = (a * b) % s.q
<1> DEFINE n == s.q
           p == a * b
<1>1. n \in Nat /\ n >= 3 /\ 2 * n <= Base /\ s.q32 \in BOOLEAN /\ (s.q32 <=> n < Half)
  BY DEF Equipped
<1>2. a \in Nat /\ b \in Nat /\ a < Base /\ b < n /\ Base \in Nat /\ Half \in Nat \ {0}
      /\ Base = Half * Half /\ Word = 0 .. Base - 1
  BY <1>1, WordFacts
<1>3. p \in Nat
  BY <1>2
<1>4. CASE s.q32
  <2>1. s.qinv \in 0 .. Half - 1 /\ (s.qinv * n) % Half = Half - 1
    BY <1>4 DEF Equipped, RadixOf
  <2>2. a < Half /\ n < Half /\ a % Half = a /\ b % Half = b
    BY <1>1, <1>2, <1>4
  <2>3. p < n * Half
    <3>1. a \in Nat /\ Half - 1 \in Nat /\ a <= Half - 1
      BY <1>2, <2>2
    <3>2. b \in Nat /\ n \in Nat /\ b <= n
      BY <1>1, <1>2
    <3>3. p <= (Half - 1) * n
      BY <3>1, <3>2, ProductBound
    <3>4. (Half - 1) * n = n * Half - n /\ n * Half \in Nat
      BY <1>2, <3>2
    <3> HIDE DEF p
    <3>5. QED
      BY <1>1, <1>3, <3>3, <3>4
  <2>4. n * Half \in Nat /\ n * Half <= Base
    <3>1. n \in Nat /\ Half \in Nat /\ n <= Half /\ Half <= Half
      BY <1>1, <1>2, <2>2
    <3>2. n * Half <= Half * Half
      BY <3>1, ProductBound
    <3>3. QED
      BY <1>2, <3>1, <3>2
  <2>5. Wrap(p) = p
    <3> HIDE DEF p
    <3>1. p \in 0 .. 2 * Base - 1 /\ p < Base
      BY <1>2, <1>3, <2>3, <2>4
    <3>2. QED
      BY <1>2, <3>1, WrapOnce
  <2>6. MontMul(s, a, b) = MontReduceHalf(p, n, s.qinv)
    BY <1>4, <2>2, <2>5 DEF MontMul
  <2>7. p \in 0 .. n * Half - 1 /\ n \in 1 .. Half - 1
    BY <1>1, <1>2, <1>3, <2>2, <2>3, <2>4
  <2> HIDE DEF p, n
  <2>8. MontReduceHalf(p, n, s.qinv) \in 0 .. n - 1
        /\ (MontReduceHalf(p, n, s.qinv) * Half) % n = p % n
    BY <2>1, <2>7, MontReduceHalfCorrect
  <2>9. QED
    BY <1>4, <2>6, <2>8 DEF RadixOf, p, n
<1>5. CASE ~s.q32
  <2>1. s.qinv \in Word /\ (s.qinv * n) % Base = Base - 1
    BY <1>2, <1>5 DEF Equipped, RadixOf
  <2>2. b \in Word /\ n \in Nat \ {0}
    BY <1>1, <1>2
  <2>3. PICK hi \in Word, lo \in Word :
          MulWide(a, b, s.portable) = <<hi, lo>> /\ p = hi * Base + lo
    BY <2>2, MulWideCorrect
  <2> DEFINE t == <<hi, lo>>
  <2>4. t \in Word \X Word /\ Number(t) = p
    BY <2>3 DEF Number
  <2>5. p < n * Base
    <3>1. a \in Nat /\ Base \in Nat /\ a <= Base
      BY <1>2
    <3>2. b \in Nat /\ n - 1 \in Nat /\ b <= n - 1
      BY <1>1, <1>2
    <3>3. p <= Base * (n - 1)
      BY <3>1, <3>2, ProductBound
    <3>4. Base * (n - 1) = n * Base - Base /\ n * Base \in Nat
      BY <1>1, <1>2
    <3>5. Base > 0
      BY WordFacts
    <3> HIDE DEF p
    <3>6. QED
      BY <1>2, <1>3, <3>3, <3>4, <3>5
  <2>6. MontMul(s, a, b) = MontReduceWide(t, n, s.qinv, s.portable)
    BY <1>5, <2>3 DEF MontMul
  <2> HIDE DEF t, n, p
  <2>7. 2 * n <= Base /\ Number(t) < n * Base
    BY <1>1, <2>4, <2>5
  <2>8. MontReduceWide(t, n, s.qinv, s.portable) \in 0 .. n - 1
        /\ (MontReduceWide(t, n, s.qinv, s.portable) * Base) % n = Number(t) % n
    BY <2>1, <2>2, <2>4, <2>7, MontReduceWideCorrect
  <2>9. QED
    BY <1>5, <2>4, <2>6, <2>8 DEF RadixOf, p, n
<1>6. QED
  BY <1>1, <1>4, <1>5

\* ntt_scalar_mont_decode
LEMMA MontDecodeIs ==
  ASSUME NEW s, Equipped(s), s.arith = "montgomery", NEW a \in 0 .. s.q - 1
  PROVE  /\ MontDecode(s, a) \in 0 .. s.q - 1
         /\ (MontDecode(s, a) * RadixOf(s.q32)) % s.q = a
<1> DEFINE n == s.q
<1>1. n \in Nat /\ n >= 3 /\ 2 * n <= Base /\ s.q32 \in BOOLEAN /\ (s.q32 <=> n < Half)
  BY DEF Equipped
<1>2. a \in Nat /\ a < n /\ a % n = a
  BY <1>1
<1>3. Base \in Nat /\ Half \in Nat /\ Half >= 2 /\ Base >= 4 /\ Word = 0 .. Base - 1
  BY WordFacts
<1>4. CASE s.q32
  <2>1. s.qinv \in 0 .. Half - 1 /\ (s.qinv * n) % Half = Half - 1
    BY <1>4 DEF Equipped, RadixOf
  <2>2. n \in 1 .. Half - 1 /\ a \in 0 .. n * Half - 1
    <3>1. n * 1 <= n * Half /\ n * Half \in Nat
      BY <1>1, <1>3
    <3>2. QED
      BY <1>1, <1>2, <1>3, <1>4, <3>1
  <2> HIDE DEF n
  <2>3. MontReduceHalf(a, n, s.qinv) \in 0 .. n - 1
        /\ (MontReduceHalf(a, n, s.qinv) * Half) % n = a % n
    BY <2>1, <2>2, MontReduceHalfCorrect
  <2>4. QED
    BY <1>2, <1>4, <2>3 DEF MontDecode, RadixOf, n
<1>5. CASE ~s.q32
  <2> DEFINE t == <<0, a>>
  <2>1. s.qinv \in Word /\ (s.qinv * n) % Base = Base - 1
    BY <1>3, <1>5 DEF Equipped, RadixOf
  <2>2. t \in Word \X Word /\ Number(t) = a /\ n \in Nat \ {0}
    <3>1. 0 \in Word /\ a \in Word /\ n \in Nat \ {0}
      BY <1>1, <1>2, <1>3
    <3>2. 0 * Base + a = a
      BY <1>2, <1>3
    <3>3. QED
      BY <3>1, <3>2 DEF Number
  <2>3. Number(t) < n * Base
    <3>1. n * 1 <= n * Base /\ n * Base \in Nat
      BY <1>1, <1>3
    <3>2. QED
      BY <1>1, <1>2, <2>2, <3>1
  <2>4. MontDecode(s, a) = MontReduceWide(t, n, s.qinv, s.portable)
    BY <1>5 DEF MontDecode
  <2> HIDE DEF t, n
  <2>5. MontReduceWide(t, n, s.qinv, s.portable) \in 0 .. n - 1
        /\ (MontReduceWide(t, n, s.qinv, s.portable) * Base) % n = Number(t) % n
    BY <1>1, <2>1, <2>2, <2>3, MontReduceWideCorrect
  <2>6. QED
    BY <1>2, <1>5, <2>2, <2>4, <2>5 DEF RadixOf, n
<1>6. QED
  BY <1>1, <1>4, <1>5

\* scalar_mul of two residues: the factor of one of them is lost.
THEOREM ScalarMulCorrect ==
  ASSUME NEW s, Equipped(s), NEW a \in 0 .. s.q - 1, NEW b \in 0 .. s.q - 1
  PROVE  /\ ScalarMul(s, a, b) \in 0 .. s.q - 1
         /\ (ScalarMul(s, a, b) * ScaleOf(s)) % s.q = (a * b) % s.q
<1> DEFINE n == s.q
           p == a * b
<1>1. n \in Nat /\ n >= 3 /\ 2 * n <= Base /\ s.q32 \in BOOLEAN /\ (s.q32 <=> n < Half)
      /\ n \in Nat \ {0, 1} /\ n \in Nat \ {0}
  BY DEF Equipped
<1>2. a \in Nat /\ b \in Nat /\ a < n /\ b < n /\ Base \in Nat /\ Half \in Nat \ {0}
      /\ Base = Half * Half /\ Word = 0 .. Base - 1 /\ a \in Word /\ b \in Word
  BY <1>1, WordFacts
<1>3. p \in Nat /\ p % n \in 0 .. n - 1
  <2>1. p \in Nat
    BY <1>2
  <2> HIDE DEF p
  <2>2. QED
    BY <1>1, <2>1, DivMod
<1>4. CASE s.arith = "montgomery"
  <2>1. ScalarMul(s, a, b) = MontMul(s, a, b) /\ ScaleOf(s) = RadixOf(s.q32)
    BY <1>4 DEF ScalarMul, Montgomery, ScaleOf
  <2>2. s.q32 => a < Half
    BY <1>1, <1>2
  <2>3. QED
    BY <1>2, <1>4, <2>1, <2>2, MontMulIs
<1>5. CASE s.arith # "montgomery" /\ s.q32
  <2>1. s.mu = BarrettMu(n) /\ ScaleOf(s) = 1
    BY <1>5 DEF Equipped, ScaleOf
  <2>2. ScalarMul(s, a, b) = BarrettReduce(Wrap(p), n, s.mu, s.portable)
    BY <1>5 DEF ScalarMul, Montgomery
  <2>3. p < Base
    <3>1. a < Half /\ b < Half
      BY <1>1, <1>2, <1>5
    <3>2. a \in Nat /\ b \in Nat /\ Half - 1 \in Nat /\ a <= Half - 1 /\ b <= Half - 1
      BY <1>2, <3>1
    <3>3. p <= (Half - 1) * (Half - 1)
      BY <3>2, ProductBound
    <3>4. (Half - 1) * (Half - 1) < Half * Half
      BY <1>2
    <3>5. (Half - 1) * (Half - 1) \in Nat
      BY <3>2
    <3> HIDE DEF p
    <3>6. QED
      BY <1>2, <1>3, <3>3, <3>4, <3>5
  <2>4. p \in Word /\ Wrap(p) = p
    <3> HIDE DEF p
    <3>1. p \in 0 .. 2 * Base - 1
      BY <1>2, <1>3, <2>3
    <3>2. QED
      BY <1>2, <1>3, <2>3, <3>1, WrapOnce
  <2> HIDE DEF p, n
  <2>5. BarrettReduce(p, n, BarrettMu(n), s.portable) = p % n
    BY <1>1, <2>4, BarrettReduceCorrect
  <2>6. (p % n) * 1 = p % n /\ (p % n) % n = p % n
    <3> DEFINE r == p % n
    <3>1. r \in 0 .. n - 1
      BY <1>3
    <3> HIDE DEF r
    <3>2. r * 1 = r /\ r % n = r
      BY <1>1, <3>1
    <3>3. QED
      BY <3>2 DEF r
  <2>7. QED
    BY <1>3, <2>1, <2>2, <2>4, <2>5, <2>6 DEF p, n
<1>6. CASE s.arith # "montgomery" /\ ~s.q32
  <2>1. s.muWide = BarrettMuWide(n, s.portable) /\ ScaleOf(s) = 1
    BY <1>6 DEF Equipped, ScaleOf
  <2>2. PICK hi \in Word, lo \in Word :
          MulWide(a, b, s.portable) = <<hi, lo>> /\ p = hi * Base + lo
    <3>1. a \in Word /\ b \in Word
      BY <1>2
    <3>2. QED
      BY <3>1, MulWideCorrect
  <2> DEFINE t == <<hi, lo>>
  <2>3. t \in Word \X Word /\ Number(t) = p
    BY <2>2 DEF Number
  <2>4. ScalarMul(s, a, b) = BarrettReduceWide(t, n, s.muWide, s.portable)
    BY <1>6, <2>2 DEF ScalarMul, Montgomery
  <2> HIDE DEF t, p, n
  <2>5. BarrettReduceWide(t, n, BarrettMuWide(n, s.portable), s.portable) = Number(t) % n
    BY <1>1, <2>3, BarrettReduceWideCorrect
  <2>6. (p % n) * 1 = p % n /\ (p % n) % n = p % n
    <3> DEFINE r == p % n
    <3>1. r \in 0 .. n - 1
      BY <1>3
    <3> HIDE DEF r
    <3>2. r * 1 = r /\ r % n = r
      BY <1>1, <3>1
    <3>3. QED
      BY <3>2 DEF r
  <2>7. QED
    BY <1>3, <2>1, <2>3, <2>4, <2>5, <2>6 DEF p, n
<1>7. QED
  BY <1>1, <1>4, <1>5, <1>6

\* scalar_reduce, of any number that fits the build
THEOREM ScalarReduceCorrect ==
  ASSUME NEW s, Equipped(s), NEW a \in Word,
         s.arith = "montgomery" /\ s.q32 => a < Half
  PROVE  /\ ScalarReduce(s, a) = a % s.q
         /\ s.arith = "montgomery" =>
              /\ MontEncode(s, a) \in 0 .. s.q - 1
              /\ MontEncode(s, a) = (a * ScaleOf(s)) % s.q
<1> DEFINE n == s.q
<1>1. n \in Nat /\ n >= 3 /\ 2 * n <= Base /\ s.q32 \in BOOLEAN /\ (s.q32 <=> n < Half)
      /\ n \in Nat \ {0, 1} /\ n \in Nat \ {0}
  BY DEF Equipped
<1>2. a \in Nat
  BY WordFacts
<1>3. CASE s.arith = "montgomery"
  <2> DEFINE R == RadixOf(s.q32)
             e == MontEncode(s, a)
             d == MontDecode(s, e)
  <2>1. R = ScaleOf(s) /\ R \in Nat
    BY <1>3, ScaleIs DEF ScaleOf
  <2>2. PICK c \in Nat : Undoes(c, R, n)
    <3>1. PICK c \in 0 .. n - 1 : (R * c) % n = 1
      BY <2>1, ScaleIs
    <3>2. c \in Nat
      BY <1>1
    <3>3. QED
      BY <3>1, <3>2 DEF Undoes
  <2> HIDE DEF R, n
  <2> DEFINE RR == R * R
             r2 == RR % n
             aR == a * R
  <2>3. RR \in Nat /\ aR \in Nat /\ aR * R = a * RR
    BY <1>2, <2>1
  <2>4. s.r2 = r2 /\ r2 \in 0 .. n - 1
    <3>1. s.r2 = r2
      BY <1>3 DEF Equipped, R, n
    <3> HIDE DEF RR
    <3>2. QED
      BY <1>1, <2>3, <3>1, DivMod
  <2>5. e \in 0 .. n - 1 /\ (e * R) % n = (a * r2) % n
    <3>1. s.r2 \in 0 .. s.q - 1
      BY <2>4 DEF n
    <3>2. MontMul(s, a, s.r2) \in 0 .. s.q - 1
          /\ (MontMul(s, a, s.r2) * RadixOf(s.q32)) % s.q = (a * s.r2) % s.q
      BY <1>3, <3>1, MontMulIs
    <3>3. QED
      BY <2>4, <3>2 DEF MontEncode, R, n
  <2> HIDE DEF e
  <2>6. (a * r2) % n = (aR * R) % n
    <3> HIDE DEF RR, aR
    <3>1. QED
      BY <1>1, <1>2, <2>3, ModMul
  <2>7. e \in Nat /\ e % n = e
    BY <1>1, <2>5
  <2>8. e = aR % n
    <3> HIDE DEF aR
    <3>1. e % n = aR % n
      BY <1>1, <2>1, <2>2, <2>3, <2>5, <2>6, <2>7, ScaleCancels
    <3>2. QED
      BY <2>7, <3>1
  <2>9. d \in 0 .. n - 1 /\ (d * R) % n = e
    <3>1. e \in 0 .. s.q - 1
      BY <2>5 DEF n
    <3>2. QED
      BY <1>3, <3>1, MontDecodeIs DEF R, n
  <2> HIDE DEF d
  <2>10. d = a % n
    <3>1. d \in Nat /\ d % n = d
      BY <1>1, <2>9
    <3>2. (d * R) % n = (a * R) % n
      BY <2>8, <2>9
    <3>3. d % n = a % n
      BY <1>1, <1>2, <2>1, <2>2, <3>1, <3>2, ScaleCancels
    <3>4. QED
      BY <3>1, <3>3
  <2>11. ScalarReduce(s, a) = d
    BY <1>3 DEF ScalarReduce, Montgomery, d, e
  <2>12. QED
    BY <2>1, <2>5, <2>8, <2>10, <2>11 DEF e, n
<1>4. CASE s.arith # "montgomery" /\ s.q32
  <2>1. s.mu = BarrettMu(n)
    BY <1>4 DEF Equipped
  <2>2. ScalarReduce(s, a) = BarrettReduce(a, n, s.mu, s.portable)
    BY <1>4 DEF ScalarReduce, Montgomery
  <2> HIDE DEF n
  <2>3. BarrettReduce(a, n, BarrettMu(n), s.portable) = a % n
    BY <1>1, BarrettReduceCorrect
  <2>4. QED
    BY <1>4, <2>1, <2>2, <2>3 DEF n
<1>5. CASE s.arith # "montgomery" /\ ~s.q32
  <2> DEFINE t == <<0, a>>
  <2>1. s.muWide = BarrettMuWide(n, s.portable)
    BY <1>5 DEF Equipped
  <2>2. ScalarReduce(s, a) = BarrettReduceWide(t, n, s.muWide, s.portable)
    BY <1>5 DEF ScalarReduce, Montgomery
  <2>3. t \in Word \X Word /\ Number(t) = a
    BY <1>2, WordFacts DEF Number
  <2> HIDE DEF t, n
  <2>4. BarrettReduceWide(t, n, BarrettMuWide(n, s.portable), s.portable) = Number(t) % n
    BY <1>1, <2>3, BarrettReduceWideCorrect
  <2>5. QED
    BY <1>5, <2>1, <2>2, <2>3, <2>4 DEF n
<1>6. QED
  BY <1>1, <1>3, <1>4, <1>5

-----------------------------------------------------------------------------

\* What setup gives the operations
Provided(s) ==
  /\ s.q \in Nat /\ s.q >= 3 /\ s.q < Base
  /\ IF s.arith \in {"barrett", "montgomery"}
       THEN Equipped(s)
       ELSE Suits(s.arith, s.q)

\* Facts on the modulus
LEMMA ModulusFacts ==
  ASSUME Provided(state)
  PROVE  /\ q \in Nat \ {0, 1} /\ q \in Nat \ {0} /\ q \in Nat /\ q >= 3 /\ q < Base
         /\ state.q = q
         /\ Base \in Nat \ {0} /\ Word = 0 .. Base - 1
         /\ \A a \in 0 .. q - 1 : a \in Nat /\ a \in Word /\ a % q = a /\ a < q
<1>1. q \in Nat /\ q >= 3 /\ q < Base /\ state.q = q
  BY DEF Provided, q
<1>2. Base \in Nat \ {0} /\ Word = 0 .. Base - 1
  BY WordFacts
<1>3. QED
  BY <1>1, <1>2

\* The scale is as ScaleIs says in every arithmetic.
LEMMA ScaleFacts ==
  ASSUME Provided(state)
  PROVE  /\ ScaleOf(state) \in Nat \ {0}
         /\ \E c \in Nat : (ScaleOf(state) * c) % q = 1
         /\ state.arith # "montgomery" => ScaleOf(state) = 1
<1>1. state.arith # "montgomery" => ScaleOf(state) = 1
  BY DEF ScaleOf
<1>2. CASE Scalar
  <2>1. Equipped(state)
    BY <1>2 DEF Provided, Scalar
  <2>2. PICK c \in 0 .. state.q - 1 : (ScaleOf(state) * c) % state.q = 1
    BY <2>1, ScaleIs
  <2>3. c \in Nat /\ (ScaleOf(state) * c) % q = 1
    BY <2>2, ModulusFacts
  <2>4. ScaleOf(state) \in Nat \ {0}
    BY <2>1, ScaleIs
  <2>5. QED
    BY <1>1, <2>3, <2>4
<1>3. CASE ~Scalar
  <2>1. ScaleOf(state) = 1
    BY <1>1, <1>3 DEF Scalar
  <2>2. 1 \in Nat \ {0} /\ 1 * 1 = 1 /\ 1 % q = 1
    BY ModulusFacts
  <2>3. QED
    BY <1>1, <2>1, <2>2
<1>4. QED
  BY <1>2, <1>3

-----------------------------------------------------------------------------

\* The sum of two residues, in every arithmetic
LEMMA PlusIs ==
  ASSUME Provided(state), NEW a \in 0 .. q - 1, NEW b \in 0 .. q - 1
  PROVE  Plus(a, b) = (a + b) % q
<1>1. Base \in Nat /\ q \in Nat \ {0} /\ q \in 1 .. Base /\ state.q = q
  <2>1. Base \in Nat /\ q \in Nat \ {0} /\ q < Base /\ state.q = q
    BY ModulusFacts
  <2>2. QED
    BY <2>1
<1>2. CASE Scalar
  <2>1. 2 * q <= Base
    BY <1>1, <1>2 DEF Provided, Scalar, Equipped
  <2>2. ScalarAdd(state, a, b) = (a + b) % q
    <3> HIDE DEF q
    <3>1. \A s : s.q = q => ScalarAdd(s, a, b) = (a + b) % q
      BY <1>1, <2>1, SumsCorrect
    <3>2. QED
      BY <1>1, <3>1
  <2>3. QED
    BY <1>2, <2>2 DEF Plus
<1>3. CASE ~Scalar
  <2>1. Suits(state.arith, q)
    BY <1>1, <1>3 DEF Provided, Scalar
  <2>2. CASE state.arith = "utils"
    <3>1. DoublingAdd(state.arith, a, b, q) = AddModU64(a, b, q)
      BY <2>2 DEF DoublingAdd
    <3> HIDE DEF q
    <3>2. AddModU64(a, b, q) = (a + b) % q
      BY <1>1, AddModU64Correct
    <3>3. QED
      BY <1>3, <3>1, <3>2 DEF Plus
  <2>3. CASE state.arith # "utils"
    <3> HIDE DEF q
    <3>1. 2 * q <= Base /\ state.arith \in {"utils", "toy", "naive"}
      BY <2>1, <2>3 DEF Suits
    <3>2. DoublingAdd(state.arith, a, b, q) = (a + b) % q
      BY <1>1, <3>1, SumsCorrect
    <3>3. QED
      BY <1>3, <3>2 DEF Plus
  <2>4. QED
    BY <2>2, <2>3
<1>4. QED
  BY <1>2, <1>3

\* The difference
LEMMA MinusIs ==
  ASSUME Provided(state), state.arith # "utils", NEW a \in 0 .. q - 1, NEW b \in 0 .. q - 1
  PROVE  Minus(a, b) = (a + q - b) % q
<1>1. Base \in Nat /\ q \in Nat \ {0} /\ state.q = q
  BY ModulusFacts
<1>2. CASE Scalar
  <2>1. 2 * q <= Base
    BY <1>1, <1>2 DEF Provided, Scalar, Equipped
  <2>2. ScalarSub(state, a, b) = (a + q - b) % q
    <3> HIDE DEF q
    <3>1. \A s : s.q = q => ScalarSub(s, a, b) = (a + q - b) % q
      BY <1>1, <2>1, DifferencesCorrect
    <3>2. QED
      BY <1>1, <3>1
  <2>3. QED
    BY <1>2, <2>2 DEF Minus
<1>3. CASE ~Scalar
  <2>1. Suits(state.arith, q)
    BY <1>1, <1>3 DEF Provided, Scalar
  <2> HIDE DEF q
  <2>2. 2 * q <= Base /\ state.arith \in {"toy", "naive"}
    BY <2>1 DEF Suits
  <2>3. DoublingSub(state.arith, a, b, q) = (a + q - b) % q
    BY <1>1, <2>2, DifferencesCorrect
  <2>4. QED
    BY <1>3, <2>3 DEF Minus
<1>4. QED
  BY <1>2, <1>3

\* The product: one of the two factors of the scale is lost.
LEMMA TimesIs ==
  ASSUME Provided(state), NEW a \in 0 .. q - 1, NEW b \in 0 .. q - 1
  PROVE  /\ Times(a, b) \in 0 .. q - 1
         /\ (Times(a, b) * ScaleOf(state)) % q = (a * b) % q
<1>1. state.q = q /\ a \in Nat /\ b \in Nat /\ a \in Word /\ b \in Word /\ q \in Nat \ {0}
  BY ModulusFacts
<1>2. CASE Scalar
  <2>1. Equipped(state)
    BY <1>2 DEF Provided, Scalar
  <2>2. /\ ScalarMul(state, a, b) \in 0 .. state.q - 1
        /\ (ScalarMul(state, a, b) * ScaleOf(state)) % state.q = (a * b) % state.q
    <3>1. a \in 0 .. state.q - 1 /\ b \in 0 .. state.q - 1
      BY <1>1
    <3> HIDE DEF q
    <3>2. QED
      BY <2>1, <3>1, ScalarMulCorrect
  <2>3. QED
    BY <1>1, <1>2, <2>2 DEF Times
<1>3. CASE ~Scalar
  <2>1. Suits(state.arith, q)
    BY <1>1, <1>3 DEF Provided, Scalar
  <2> HIDE DEF q
  <2>2. DoublingMul(state.arith, a, b, q) = (a * b) % q
    BY <1>1, <2>1, DoublingMulCorrect
  <2> DEFINE p == a * b
             r == p % q
  <2>3. p \in Nat
    BY <1>1
  <2> HIDE DEF p
  <2>4. r \in 0 .. q - 1
    BY <1>1, <2>3, DivMod
  <2> HIDE DEF r
  <2>5. r * 1 = r /\ r % q = r
    BY <1>1, <2>4
  <2>6. ScaleOf(state) = 1
    BY <1>3 DEF Scalar, ScaleOf
  <2>7. Times(a, b) = r
    BY <1>3, <2>2 DEF Times, r, p
  <2>8. QED
    BY <2>4, <2>5, <2>6, <2>7 DEF r, p
<1>4. QED
  BY <1>2, <1>3

\* Encoding multiplies by the scale.
LEMMA EncodeIs ==
  ASSUME Provided(state), NEW a \in Word, Fits(a)
  PROVE  /\ EncodeValue(a) = (a * ScaleOf(state)) % q
         /\ EncodeValue(a) \in 0 .. q - 1
<1>1. state.q = q /\ a \in Nat /\ q \in Nat \ {0}
  BY ModulusFacts
<1>2. ScaleOf(state) \in Nat
  BY ScaleFacts
<1>3. EncodeValue(a) = (a * ScaleOf(state)) % q
  <2>1. CASE state.arith = "montgomery"
    <3>1. Equipped(state)
      BY <2>1 DEF Provided
    <3>2. MontEncode(state, a) = (a * ScaleOf(state)) % state.q
      <4>1. state.arith = "montgomery" /\ state.q32 => a < Half
        BY DEF Fits
      <4>2. QED
        BY <2>1, <3>1, <4>1, ScalarReduceCorrect
    <3>3. EncodeValue(a) = MontEncode(state, a)
      BY <2>1 DEF EncodeValue, Scalar, ScalarEncode, Montgomery
    <3>4. QED
      BY <1>1, <3>2, <3>3
  <2>2. CASE state.arith # "montgomery"
    <3>1. ScaleOf(state) = 1 /\ a * 1 = a
      BY <1>1, <2>2 DEF ScaleOf
    <3>2. CASE Scalar
      <4>1. Equipped(state)
        BY <3>2 DEF Provided, Scalar
      <4>2. ScalarReduce(state, a) = a % state.q
        <5>1. state.arith = "montgomery" /\ state.q32 => a < Half
          BY <2>2
        <5>2. QED
          BY <4>1, <5>1, ScalarReduceCorrect
      <4>3. EncodeValue(a) = ScalarReduce(state, a)
        BY <2>2, <3>2 DEF EncodeValue, ScalarEncode, Montgomery
      <4>4. QED
        BY <1>1, <3>1, <4>2, <4>3
    <3>3. CASE ~Scalar
      BY <3>1, <3>3 DEF EncodeValue
    <3>4. QED
      BY <3>2, <3>3
  <2>3. QED
    BY <2>1, <2>2
<1> DEFINE p == a * ScaleOf(state)
<1>4. p \in Nat
  BY <1>1, <1>2
<1> HIDE DEF p, q
<1>5. p % q \in 0 .. q - 1
  BY <1>1, <1>4, DivMod
<1>6. QED
  BY <1>3, <1>5 DEF p

\* Decoding divides by it.
LEMMA DecodeIs ==
  ASSUME Provided(state), NEW a \in 0 .. q - 1
  PROVE  /\ DecodeValue(a) \in 0 .. q - 1
         /\ (DecodeValue(a) * ScaleOf(state)) % q = a
<1>1. state.q = q /\ a \in Nat /\ a \in Word /\ a % q = a /\ q \in Nat \ {0} /\ a * 1 = a
  BY ModulusFacts
<1>2. CASE state.arith = "montgomery"
  <2>1. Equipped(state) /\ a \in 0 .. state.q - 1
    BY <1>1, <1>2 DEF Provided
  <2>2. /\ MontDecode(state, a) \in 0 .. state.q - 1
        /\ (MontDecode(state, a) * RadixOf(state.q32)) % state.q = a
    BY <1>2, <2>1, MontDecodeIs
  <2>3. DecodeValue(a) = MontDecode(state, a) /\ ScaleOf(state) = RadixOf(state.q32)
    BY <1>2 DEF DecodeValue, Scalar, ScalarDecode, Montgomery, ScaleOf
  <2>4. QED
    BY <1>1, <2>2, <2>3
<1>3. CASE state.arith # "montgomery"
  <2>1. ScaleOf(state) = 1
    BY <1>3 DEF ScaleOf
  <2>2. DecodeValue(a) = a
    <3>1. CASE Scalar
      <4>1. Equipped(state)
        BY <3>1 DEF Provided, Scalar
      <4>2. ScalarReduce(state, a) = a % state.q
        <5>1. state.arith = "montgomery" /\ state.q32 => a < Half
          BY <1>3
        <5>2. a \in Word
          BY <1>1
        <5>3. QED
          BY <4>1, <5>1, <5>2, ScalarReduceCorrect
      <4>3. DecodeValue(a) = ScalarReduce(state, a)
        BY <1>3, <3>1 DEF DecodeValue, ScalarDecode, Montgomery
      <4>4. QED
        BY <1>1, <4>2, <4>3
    <3>2. CASE ~Scalar
      BY <3>2 DEF DecodeValue
    <3>3. QED
      BY <3>1, <3>2
  <2>3. QED
    BY <1>1, <2>1, <2>2
<1>4. QED
  BY <1>2, <1>3

\* Reducing
LEMMA ReduceIs ==
  ASSUME Provided(state), NEW a \in Word, Fits(a)
  PROVE  Reduce(a) = a % q /\ a % q \in 0 .. q - 1
<1>1. state.q = q /\ a \in Nat /\ q \in Nat \ {0}
  BY ModulusFacts
<1>2. a % q \in 0 .. q - 1
  <2> HIDE DEF q
  <2>1. QED
    BY <1>1, DivMod
<1>3. CASE Scalar
  <2>1. Equipped(state)
    BY <1>3 DEF Provided, Scalar
  <2>2. state.arith = "montgomery" /\ state.q32 => a < Half
    BY DEF Fits
  <2>3. ScalarReduce(state, a) = a % state.q
    BY <2>1, <2>2, ScalarReduceCorrect
  <2>4. QED
    BY <1>1, <1>2, <1>3, <2>3 DEF Reduce
<1>4. CASE ~Scalar
  BY <1>2, <1>4 DEF Reduce
<1>5. QED
  BY <1>3, <1>4

\* A residue fits any build.
LEMMA ResiduesFit ==
  ASSUME Provided(state), NEW a \in 0 .. q - 1
  PROVE  a \in Word /\ Fits(a)
<1>1. a \in Word /\ a \in Nat /\ a < q /\ q \in Nat /\ state.q = q
  BY ModulusFacts
<1>2. ASSUME state.arith = "montgomery", state.q32
      PROVE  a < Half
  <2>1. q < Half
    BY <1>1, <1>2 DEF Provided, Equipped
  <2>2. QED
    BY <1>1, <2>1, WordFacts
<1>3. QED
  BY <1>1, <1>2 DEF Fits

-----------------------------------------------------------------------------

\* A product of any two words is a word, reduced or not: the loop of the powers
\* is defined on words.
LEMMA TimesOfWords ==
  ASSUME Provided(state), NEW a \in Word, NEW b \in Word
  PROVE  Times(a, b) \in Word
<1> DEFINE p == a * b
<1>1. /\ state.q = q /\ a \in Nat /\ b \in Nat /\ q \in Nat \ {0} /\ q < Base
      /\ Base \in Nat \ {0} /\ Word = 0 .. Base - 1 /\ q \in Nat
  <2>1. a \in Nat /\ b \in Nat
    BY WordFacts
  <2>2. QED
    BY <2>1, ModulusFacts
<1>2. p \in Nat
  BY <1>1
<1>3. \A k \in Nat : k % q \in Word
  <2> HIDE DEF q
  <2>1. QED
    BY <1>1
<1>4. CASE Scalar /\ state.arith = "montgomery" /\ state.q32
  <2>1. Equipped(state)
    BY <1>4 DEF Provided, Scalar
  <2>2. state.qinv \in Nat
    BY <1>4, <2>1, WordFacts DEF Equipped, RadixOf
  <2> DEFINE u == (a % Half) * (b % Half)
             t == Wrap(u)
             m == ((t % Half) * state.qinv) % Half
             v == t + m * q
             sum == Wrap(v)
             y == sum \div Half + Bit(sum < t) * Half
  <2>3. Half \in Nat \ {0} /\ Half < Base
    BY WordFacts
  <2>4. a % Half \in Nat /\ b % Half \in Nat
    BY <1>1, <2>3
  <2>5. u \in Nat
    BY <2>4
  <2>6. t \in Nat
    <3> HIDE DEF u
    <3>1. QED
      BY <1>1, <2>5 DEF Wrap
  <2> HIDE DEF t
  <2>7. (t % Half) * state.qinv \in Nat
    <3>1. t % Half \in Nat
      BY <2>3, <2>6
    <3>2. QED
      BY <2>2, <3>1
  <2>8. m \in Nat
    <3> DEFINE w == (t % Half) * state.qinv
    <3>1. w \in Nat
      BY <2>7
    <3> HIDE DEF w
    <3>2. w % Half \in Nat
      BY <2>3, <3>1
    <3>3. QED
      BY <3>2 DEF w
  <2> HIDE DEF m
  <2>9. v \in Nat
    BY <1>1, <2>6, <2>8
  <2> HIDE DEF v
  <2>10. sum \in Nat
    BY <1>1, <2>9 DEF Wrap
  <2> HIDE DEF sum
  <2>11. y \in Nat
    <3>1. sum \div Half \in Nat
      BY <2>3, <2>10
    <3>2. Bit(sum < t) * Half \in Nat
      BY <2>3 DEF Bit
    <3>3. QED
      BY <3>1, <3>2
  <2> HIDE DEF y
  <2>12. Once(y, q) \in Nat
    <3> HIDE DEF q
    <3>1. QED
      BY <1>1, <2>11 DEF Once
  <2>13. Times(a, b) = Once(y, q) % Half
    BY <1>1, <1>4 DEF Times, ScalarMul, Montgomery, MontMul, MontReduceHalf,
       y, sum, v, m, t, u
  <2> DEFINE z == Once(y, q)
  <2> HIDE DEF z
  <2>14. z \in Nat
    BY <2>12 DEF z
  <2>15. z % Half \in 0 .. Half - 1
    BY <2>3, <2>14
  <2>16. Times(a, b) = z % Half
    BY <2>13 DEF z
  <2>17. QED
    BY <1>1, <2>3, <2>15, <2>16
<1>5. CASE Scalar /\ state.arith = "montgomery" /\ ~state.q32
  <2> DEFINE t == MulWide(a, b, state.portable)
             m == Wrap(t[2] * state.qinv)
             mq == MulWide(m, q, state.portable)
             lo == Wrap(t[2] + mq[2])
             y == t[1] + mq[1] + Bit(lo < mq[2])
  <2>1. Equipped(state)
    BY <1>5 DEF Provided, Scalar
  <2>2. state.qinv \in Nat
    BY <1>5, <2>1, WordFacts DEF Equipped, RadixOf
  <2>3. t[1] \in Nat /\ t[2] \in Nat
    <3>1. PICK hi \in Word, lw \in Word : MulWide(a, b, state.portable) = <<hi, lw>>
      BY MulWideCorrect
    <3>2. QED
      BY <1>1, <3>1
  <2> HIDE DEF t
  <2> DEFINE u == t[2] * state.qinv
  <2>4. u \in Nat
    BY <2>2, <2>3
  <2>5. m \in Word
    <3> HIDE DEF u
    <3>1. u % Base \in 0 .. Base - 1
      BY <1>1, <2>4
    <3>2. QED
      BY <1>1, <3>1 DEF Wrap, u
  <2> HIDE DEF m
  <2>6. mq[1] \in Nat
    <3>1. q \in Word
      BY <1>1
    <3>2. PICK hi \in Word, lw \in Word : MulWide(m, q, state.portable) = <<hi, lw>>
      BY <2>5, <3>1, MulWideCorrect
    <3>3. QED
      BY <1>1, <3>2
  <2> HIDE DEF mq, lo
  <2>7. y \in Nat
    <3>1. Bit(lo < mq[2]) \in Nat
      BY DEF Bit
    <3>2. QED
      BY <2>3, <2>6, <3>1
  <2> HIDE DEF y
  <2>8. Wrap(y) \in 0 .. Base - 1
    BY <1>1, <2>7 DEF Wrap
  <2> DEFINE z == Wrap(y)
  <2> HIDE DEF z
  <2>9. z \in 0 .. Base - 1
    BY <2>8 DEF z
  <2>10. Once(z, q) \in Word
    <3> HIDE DEF q
    <3>1. QED
      BY <1>1, <2>9 DEF Once
  <2>11. Times(a, b) = Once(z, q)
    BY <1>1, <1>5 DEF Times, ScalarMul, Montgomery, MontMul, MontReduceWide,
       z, y, lo, mq, m, t
  <2>12. QED
    BY <2>10, <2>11
<1>6. CASE Scalar /\ state.arith # "montgomery"
  <2>1. Equipped(state)
    BY <1>6 DEF Provided, Scalar
  <2>2. q \in Nat \ {0, 1} /\ 2 * q <= Base
    BY <1>1, <2>1 DEF Equipped
  <2>3. CASE state.q32
    <3> DEFINE w == Wrap(p)
    <3>1. w \in Word /\ w \in Nat
      <4> HIDE DEF p
      <4>1. QED
        BY <1>1, <1>2 DEF Wrap
    <3>2. state.mu = BarrettMu(q)
      BY <1>1, <1>6, <2>1, <2>3 DEF Equipped, Scalar
    <3>3. Times(a, b) = BarrettReduce(w, q, state.mu, state.portable)
      BY <1>1, <1>6, <2>3 DEF Times, ScalarMul, Montgomery
    <3> HIDE DEF w, q
    <3>4. BarrettReduce(w, q, BarrettMu(q), state.portable) = w % q
      BY <2>2, <3>1, BarrettReduceCorrect
    <3>5. QED
      BY <1>3, <3>1, <3>2, <3>3, <3>4
  <2>4. CASE ~state.q32
    <3>1. PICK hi \in Word, lo \in Word : MulWide(a, b, state.portable) = <<hi, lo>>
      BY MulWideCorrect
    <3> DEFINE t == <<hi, lo>>
               w == hi * Base + lo
    <3>2. t \in Word \X Word /\ Number(t) = w
      BY DEF Number
    <3>3. w \in Nat
      <4>1. hi \in Nat /\ lo \in Nat
        BY <1>1
      <4>2. QED
        BY <1>1, <4>1
    <3>4. state.muWide = BarrettMuWide(q, state.portable)
      BY <1>1, <1>6, <2>1, <2>4 DEF Equipped, Scalar
    <3>5. Times(a, b) = BarrettReduceWide(t, q, state.muWide, state.portable)
      BY <1>1, <1>6, <2>4, <3>1 DEF Times, ScalarMul, Montgomery
    <3> HIDE DEF t, w, q
    <3>6. BarrettReduceWide(t, q, BarrettMuWide(q, state.portable), state.portable)
            = Number(t) % q
      BY <2>2, <3>2, BarrettReduceWideCorrect
    <3>7. QED
      BY <1>3, <3>2, <3>3, <3>4, <3>5, <3>6
  <2>5. QED
    BY <2>3, <2>4
<1>7. CASE ~Scalar
  <2>1. Suits(state.arith, q)
    BY <1>1, <1>7 DEF Provided, Scalar
  <2>2. Times(a, b) = DoublingMul(state.arith, a, b, q)
    BY <1>7 DEF Times
  <2> HIDE DEF q
  <2>3. DoublingMul(state.arith, a, b, q) = p % q
    BY <2>1, DoublingMulCorrect
  <2> HIDE DEF p
  <2>4. QED
    BY <1>2, <1>3, <2>2, <2>3
<1>8. QED
  BY <1>4, <1>5, <1>6, <1>7

-----------------------------------------------------------------------------

\* Multiplications that lose a factor R, which c undoes
LosesScale(op, R, n) ==
  \A u \in 0 .. n - 1 : \A v \in 0 .. n - 1 :
    /\ op[<<u, v>>] \in 0 .. n - 1
    /\ (op[<<u, v>>] * R) % n = (u * v) % n

\* With the factor undone they are products.
LEMMA ScaledProduct ==
  ASSUME NEW n \in Nat \ {0, 1}, NEW R \in Nat, NEW c \in Nat, Undoes(c, R, n)
  PROVE  \A u, v, w \in Nat :
           (w * R) % n = (u * v) % n => (w * c) % n = MulMod((u * c) % n, (v * c) % n, n)
<1> SUFFICES ASSUME NEW u \in Nat, NEW v \in Nat, NEW w \in Nat, (w * R) % n = (u * v) % n
             PROVE  (w * c) % n = MulMod((u * c) % n, (v * c) % n, n)
  OBVIOUS
<1> DEFINE cc == c * c
           wR == w * R
           uv == u * v
           Rc == R * c
           wc == w * c
           uc == u * c
           vc == v * c
<1>1. /\ n \in Nat \ {0} /\ cc \in Nat /\ wR \in Nat /\ uv \in Nat /\ Rc \in Nat
      /\ wc \in Nat /\ uc \in Nat /\ vc \in Nat
  OBVIOUS
<1>2. wR * cc = wc * Rc
  OBVIOUS
<1>3. uv * cc = uc * vc
  OBVIOUS
<1>4. Rc % n = 1 /\ wR % n = uv % n
  BY DEF Undoes
<1> HIDE DEF cc, wR, uv, Rc, wc, uc, vc
<1>5. ((wR % n) * cc) % n = (wR * cc) % n /\ ((uv % n) * cc) % n = (uv * cc) % n
  BY <1>1, ModMul
<1>6. (wc * (Rc % n)) % n = (wc * Rc) % n
  BY <1>1, ModMul
<1>7. wc * 1 = wc
  BY <1>1
<1>8. ((uc % n) * (vc % n)) % n = (uc * vc) % n
  BY <1>1, ModMulBoth
<1>9. wc % n = ((uc % n) * (vc % n)) % n
  BY <1>2, <1>3, <1>4, <1>5, <1>6, <1>7, <1>8
<1>10. QED
  BY <1>9 DEF MulMod, wc, uc, vc

\* A loop that computes powers with a factor that c undoes
GivesPowers(f, c, n) ==
  \A u \in 0 .. n - 1 : \A v \in 0 .. n - 1 : \A e \in Nat :
    /\ f[<<u, v, e>>] \in 0 .. n - 1
    /\ (f[<<u, v, e>>] * c) % n = (((u * c) % n) * Pow((v * c) % n, e)) % n

\* Square and multiply with them gives powers.
LEMMA ScaledPowers ==
  ASSUME NEW n \in Nat \ {0, 1}, n <= Base, NEW R \in Nat, NEW c \in Nat, Undoes(c, R, n),
         NEW op \in [Word \X Word -> Word], LosesScale(op, R, n),
         NEW f, BinaryLoop(f, op, Nat)
  PROVE  GivesPowers(f, c, n)
<1> DEFINE Z == 0 .. n - 1
           A == Z \X Z \X Nat
           M == [s \in A |-> s[3]]
           D(u) == (u * c) % n
<1>1. PICK g : IsPowLoop(g, n)
  BY PowLoopExists
<1> DEFINE S == {s \in A : f[s] \in Z /\ D(f[s]) = g[<<D(s[1]), D(s[2]), s[3]>>]}
<1>2. Z \subseteq Word /\ Z \subseteq Nat /\ n \in Nat \ {0}
  BY WordFacts
<1>3. \A u \in Nat : D(u) \in Z /\ D(u) \in Nat
  <2> SUFFICES ASSUME NEW u \in Nat
               PROVE  D(u) \in Z /\ D(u) \in Nat
    OBVIOUS
  <2> DEFINE w == u * c
  <2>1. w \in Nat
    OBVIOUS
  <2> HIDE DEF w
  <2>2. w % n \in 0 .. n - 1
    BY <1>2, <2>1, DivMod
  <2>3. QED
    BY <1>2, <2>2 DEF w
<1>4. \A u, v, w \in Nat : (w * R) % n = (u * v) % n => D(w) = MulMod(D(u), D(v), n)
  BY ScaledProduct
<1>5. ASSUME NEW u \in Nat, NEW v \in Nat, NEW k \in Nat
      PROVE  g[<<u, v, k>>] =
               IF k = 0 THEN u
               ELSE g[<<IF k % 2 = 1 THEN MulMod(u, v, n) ELSE u, MulMod(v, v, n), k \div 2>>]
  <2> DEFINE s == <<u, v, k>>
  <2>1. s \in Nat \X Nat \X Nat /\ s[1] = u /\ s[2] = v /\ s[3] = k
    OBVIOUS
  <2> HIDE DEF s, D, A, Z, M
  <2>2. g[s] = IF k = 0 THEN u
               ELSE g[<<IF k % 2 = 1 THEN MulMod(u, v, n) ELSE u, MulMod(v, v, n), k \div 2>>]
    BY <1>1, <2>1 DEF IsPowLoop
  <2>3. QED
    BY <2>2 DEF s
<1>6. ASSUME NEW s \in A, \A t \in A : M[t] < M[s] => t \in S
      PROVE  s \in S
  <2>1. PICK u \in Z, v \in Z, k \in Nat : s = <<u, v, k>>
    OBVIOUS
  <2>2. u \in Nat /\ v \in Nat /\ u \in Word /\ v \in Word
    BY <1>2
  <2>3. f[s] = IF k = 0 THEN u
               ELSE f[<<IF k % 2 = 1 THEN op[<<u, v>>] ELSE u, op[<<v, v>>], k \div 2>>]
    BY <2>1, <2>2 DEF BinaryLoop
  <2>4. D(u) \in Nat /\ D(v) \in Nat
    BY <1>3, <2>2
  <2>5. g[<<D(u), D(v), k>>] =
          IF k = 0 THEN D(u)
          ELSE g[<<IF k % 2 = 1 THEN MulMod(D(u), D(v), n) ELSE D(u),
                   MulMod(D(v), D(v), n), k \div 2>>]
    <3> HIDE DEF D
    <3>1. QED
      BY <1>5, <2>4
  <2>6. s[1] = u /\ s[2] = v /\ s[3] = k
    BY <2>1
  <2> SUFFICES f[s] \in Z /\ D(f[s]) = g[<<D(u), D(v), k>>]
    BY <2>6
  <2>7. CASE k = 0
    <3> HIDE DEF D
    <3>1. QED
      BY <2>3, <2>5, <2>7
  <2>8. CASE k # 0
    <3> DEFINE u1 == IF k % 2 = 1 THEN op[<<u, v>>] ELSE u
               v1 == op[<<v, v>>]
               h == k \div 2
    <3>1. h \in Nat /\ h < k
      BY <2>8
    <3>2. /\ op[<<u, v>>] \in Z /\ (op[<<u, v>>] * R) % n = (u * v) % n
          /\ v1 \in Z /\ (v1 * R) % n = (v * v) % n
      BY DEF LosesScale
    <3>3. D(op[<<u, v>>]) = MulMod(D(u), D(v), n)
      <4> DEFINE w == op[<<u, v>>]
      <4>1. w \in Nat /\ (w * R) % n = (u * v) % n
        BY <1>2, <3>2
      <4> HIDE DEF w, D
      <4>2. D(w) = MulMod(D(u), D(v), n)
        BY <1>4, <2>2, <4>1
      <4>3. QED
        BY <4>2 DEF w
    <3>4. D(v1) = MulMod(D(v), D(v), n)
      <4>1. v1 \in Nat /\ (v1 * R) % n = (v * v) % n
        BY <1>2, <3>2
      <4> HIDE DEF v1, D
      <4>2. QED
        BY <1>4, <2>2, <4>1
    <3>5. u1 \in Z
      BY <3>2
    <3>6. D(u1) = IF k % 2 = 1 THEN MulMod(D(u), D(v), n) ELSE D(u)
      <4> HIDE DEF D
      <4>1. QED
        BY <3>3
    <3> DEFINE t == <<u1, v1, h>>
    <3>7. t \in A /\ M[t] < M[s] /\ t[1] = u1 /\ t[2] = v1 /\ t[3] = h
      <4>1. t \in A
        BY <3>1, <3>2, <3>5
      <4>2. M[t] = h /\ M[s] = k
        BY <2>6, <4>1
      <4>3. QED
        BY <3>1, <4>1, <4>2
    <3>8. f[s] = f[t]
      BY <2>3, <2>8
    <3>9. f[t] \in Z /\ D(f[t]) = g[<<D(u1), D(v1), h>>]
      <4>1. t \in S
        BY <1>6, <3>7
      <4> HIDE DEF D, A, Z, u1, v1, h, t
      <4>2. QED
        BY <3>7, <4>1
    <3> HIDE DEF D, u1, v1, t
    <3>10. QED
      BY <2>5, <2>8, <3>4, <3>6, <3>8, <3>9
  <2>9. QED
    BY <2>7, <2>8
<1>7. M \in [A -> Nat]
  OBVIOUS
<1>8. A \subseteq S
  <2> HIDE DEF A, M, S
  <2>1. QED
    BY <1>6, <1>7, MeasureInduction
<1>9. ASSUME NEW u \in Z, NEW v \in Z, NEW e \in Nat
      PROVE  f[<<u, v, e>>] \in Z /\ D(f[<<u, v, e>>]) = (D(u) * Pow(D(v), e)) % n
  <2> DEFINE s == <<u, v, e>>
  <2>1. s \in A /\ s[1] = u /\ s[2] = v /\ s[3] = e
    OBVIOUS
  <2>2. f[s] \in Z /\ D(f[s]) = g[<<D(u), D(v), e>>]
    <3>1. s \in S
      BY <1>8, <2>1
    <3> HIDE DEF D, A, Z, s
    <3>2. QED
      BY <2>1, <3>1
  <2>3. D(u) \in 0 .. n - 1 /\ D(v) \in Nat
    BY <1>2, <1>3
  <2> HIDE DEF D
  <2>4. g[<<D(u), D(v), e>>] = (D(u) * Pow(D(v), e)) % n
    BY <1>1, <1>2, <2>3, ModPowLoop
  <2>5. QED
    BY <2>2, <2>4
<1>10. QED
  BY <1>9 DEF GivesPowers

-----------------------------------------------------------------------------

\* The ..._modpow functions on values of the arithmetic
LEMMA PowerIs ==
  ASSUME Provided(state), NEW c \in Nat, Undoes(c, ScaleOf(state), q),
         NEW a \in 0 .. q - 1, NEW b \in 0 .. q - 1, NEW e \in Nat
  PROVE  /\ Power(a, b, e) \in 0 .. q - 1
         /\ (Power(a, b, e) * c) % q = (((a * c) % q) * Pow((b * c) % q, e)) % q
<1> DEFINE op == [p \in Word \X Word |-> Times(p[1], p[2])]
           loop == CHOOSE f : f = [s \in Word \X Word \X Nat |->
                     IF s[3] = 0 THEN s[1]
                     ELSE f[<<IF s[3] % 2 = 1 THEN Times(s[1], s[2]) ELSE s[1],
                              Times(s[2], s[2]), s[3] \div 2>>]]
<1>1. op \in [Word \X Word -> Word]
  <2> SUFFICES ASSUME NEW p \in Word \X Word
               PROVE  Times(p[1], p[2]) \in Word
    OBVIOUS
  <2>1. p[1] \in Word /\ p[2] \in Word
    OBVIOUS
  <2>2. QED
    BY <2>1, TimesOfWords
<1>2. \A u \in Word : \A v \in Word : op[<<u, v>>] = Times(u, v)
  OBVIOUS
<1>3. LosesScale(op, ScaleOf(state), q)
  <2> SUFFICES ASSUME NEW u \in 0 .. q - 1, NEW v \in 0 .. q - 1
               PROVE  /\ op[<<u, v>>] \in 0 .. q - 1
                      /\ (op[<<u, v>>] * ScaleOf(state)) % q = (u * v) % q
    BY DEF LosesScale
  <2>1. u \in Word /\ v \in Word
    BY ModulusFacts
  <2>2. op[<<u, v>>] = Times(u, v)
    BY <1>2, <2>1
  <2>3. QED
    BY <2>2, TimesIs
<1> HIDE DEF op
<1>4. PICK f \in [Word \X Word \X Nat -> Word] : BinaryLoop(f, op, Nat)
  BY <1>1, BinaryLoopExists
<1>5. f = [s \in Word \X Word \X Nat |->
            IF s[3] = 0 THEN s[1]
            ELSE f[<<IF s[3] % 2 = 1 THEN Times(s[1], s[2]) ELSE s[1],
                     Times(s[2], s[2]), s[3] \div 2>>]]
  <2>1. ASSUME NEW s \in Word \X Word \X Nat
        PROVE  f[s] =
                 IF s[3] = 0 THEN s[1]
                 ELSE f[<<IF s[3] % 2 = 1 THEN Times(s[1], s[2]) ELSE s[1],
                          Times(s[2], s[2]), s[3] \div 2>>]
    <3>1. PICK u \in Word, v \in Word, k \in Nat : s = <<u, v, k>>
      OBVIOUS
    <3>2. f[<<u, v, k>>] =
            IF k = 0 THEN u
            ELSE f[<<IF k % 2 = 1 THEN op[<<u, v>>] ELSE u, op[<<v, v>>], k \div 2>>]
      BY <1>4 DEF BinaryLoop
    <3>3. op[<<u, v>>] = Times(u, v) /\ op[<<v, v>>] = Times(v, v)
      BY <1>2
    <3>4. s[1] = u /\ s[2] = v /\ s[3] = k
      BY <3>1
    <3>5. QED
      BY <3>1, <3>2, <3>3, <3>4
  <2>2. f \in [Word \X Word \X Nat -> Word]
    BY <1>4
  <2>3. QED
    BY <2>1, <2>2
<1>6. loop = [s \in Word \X Word \X Nat |->
               IF s[3] = 0 THEN s[1]
               ELSE loop[<<IF s[3] % 2 = 1 THEN Times(s[1], s[2]) ELSE s[1],
                           Times(s[2], s[2]), s[3] \div 2>>]]
  BY <1>5
<1>7. Power(a, b, e) = loop[<<a, b, e>>]
  BY DEF Power
<1> HIDE DEF loop
<1>8. BinaryLoop(loop, op, Nat)
  <2> SUFFICES ASSUME NEW u \in Word, NEW v \in Word, NEW k \in Nat
               PROVE  loop[<<u, v, k>>] =
                        IF k = 0 THEN u
                        ELSE loop[<<IF k % 2 = 1 THEN op[<<u, v>>] ELSE u, op[<<v, v>>],
                                    k \div 2>>]
    BY DEF BinaryLoop
  <2>1. op[<<u, v>>] = Times(u, v) /\ op[<<v, v>>] = Times(v, v)
    BY <1>2
  <2> DEFINE s == <<u, v, k>>
  <2>2. s \in Word \X Word \X Nat /\ s[1] = u /\ s[2] = v /\ s[3] = k
    OBVIOUS
  <2> HIDE DEF s
  <2>3. loop[s] = IF k = 0 THEN u
                  ELSE loop[<<IF k % 2 = 1 THEN Times(u, v) ELSE u, Times(v, v), k \div 2>>]
    BY <1>6, <2>2
  <2>4. QED
    BY <2>1, <2>3 DEF s
<1>9. GivesPowers(loop, c, q)
  <2>1. q \in Nat \ {0, 1} /\ q <= Base
    <3>1. q \in Nat \ {0, 1} /\ q < Base /\ Base \in Nat
      BY ModulusFacts
    <3>2. QED
      BY <3>1
  <2>2. ScaleOf(state) \in Nat
    BY ScaleFacts
  <2> DEFINE R == ScaleOf(state)
  <2> HIDE DEF R, q
  <2>3. R \in Nat /\ Undoes(c, R, q) /\ LosesScale(op, R, q)
    BY <1>3, <2>2 DEF R
  <2>4. QED
    BY <1>1, <1>8, <2>1, <2>3, ScaledPowers
<1>10. QED
  BY <1>7, <1>9 DEF GivesPowers

\* scalar_modpow, ntt__modpow, naive_modpow and modpow compute powers.
THEOREM PowerOfCorrect ==
  ASSUME Provided(state), NEW b \in 0 .. q - 1, NEW e \in Nat
  PROVE  PowerOf(b, e) = Pow(b, e) % q
<1> DEFINE R == ScaleOf(state)
           n == q
<1>1. n \in Nat \ {0, 1} /\ n \in Nat \ {0} /\ b \in Nat /\ b % n = b /\ n < Base /\ n \in Nat
  BY ModulusFacts
<1>2. PICK c \in Nat : (R * c) % n = 1
  BY ScaleFacts
<1>3. R \in Nat \ {0} /\ R \in Nat /\ (state.arith # "montgomery" => R = 1)
  BY ScaleFacts
<1>4. Undoes(c, R, n)
  BY <1>2 DEF Undoes
<1>5. Pow(b, e) \in Nat
  BY <1>1, PowNat
\* the factor undone
<1>6. ASSUME NEW k \in Nat
      PROVE  (((k * R) % n) * c) % n = k % n
  <2> DEFINE kR == k * R
             Rc == R * c
  <2>1. kR \in Nat /\ Rc \in Nat /\ kR * c = k * Rc /\ k * 1 = k
    BY <1>3
  <2>2. Rc % n = 1
    BY <1>2
  <2> HIDE DEF kR, Rc, R, n
  <2>3. ((kR % n) * c) % n = (kR * c) % n /\ (k * (Rc % n)) % n = (k * Rc) % n
    BY <1>1, <2>1, ModMul
  <2>4. QED
    BY <2>1, <2>2, <2>3 DEF kR
<1> DEFINE one == (1 * R) % n
           base == (b * R) % n
           p == Power(one, base, e)
<1>7. one \in 0 .. n - 1 /\ base \in 0 .. n - 1
  <2> DEFINE u == 1 * R
             v == b * R
  <2>1. u \in Nat /\ v \in Nat
    BY <1>1, <1>3
  <2> HIDE DEF u, v, n
  <2>2. u % n \in 0 .. n - 1 /\ v % n \in 0 .. n - 1
    BY <1>1, <2>1, DivMod
  <2>3. QED
    BY <2>2 DEF u, v
<1>8. (one * c) % n = 1 /\ (base * c) % n = b
  <2>1. (one * c) % n = 1 % n /\ (base * c) % n = b % n
    BY <1>1, <1>6
  <2>2. 1 % n = 1
    BY <1>1
  <2>3. QED
    BY <1>1, <2>1, <2>2
<1>9. p \in 0 .. n - 1 /\ (p * c) % n = Pow(b, e) % n
  <2>1. /\ p \in 0 .. q - 1
        /\ (p * c) % q = (((one * c) % q) * Pow((base * c) % q, e)) % q
    <3>1. one \in 0 .. q - 1 /\ base \in 0 .. q - 1 /\ Undoes(c, ScaleOf(state), q)
      BY <1>4, <1>7
    <3> HIDE DEF one, base, n, R
    <3>2. QED
      BY <3>1, PowerIs
  <2>2. 1 * Pow(b, e) = Pow(b, e)
    BY <1>5
  <2> HIDE DEF one, base, p
  <2>3. QED
    BY <1>8, <2>1, <2>2
<1> HIDE DEF p
<1>10. CASE state.arith = "montgomery"
  <2>1. MontEncode(state, 1) = one /\ MontEncode(state, b) = base
    <3>1. 1 \in 0 .. n - 1
      BY <1>1
    <3>2. ASSUME NEW a \in 0 .. n - 1
          PROVE  MontEncode(state, a) = (a * R) % n
      <4>1. a \in Word /\ Fits(a)
        BY ResiduesFit
      <4>2. EncodeValue(a) = (a * ScaleOf(state)) % q
        BY <4>1, EncodeIs
      <4>3. EncodeValue(a) = MontEncode(state, a)
        BY <1>10 DEF EncodeValue, Scalar, ScalarEncode, Montgomery
      <4>4. QED
        BY <4>2, <4>3
    <3>3. b \in 0 .. n - 1
      OBVIOUS
    <3> HIDE DEF n, R
    <3>4. QED
      BY <3>1, <3>2, <3>3
  <2>2. PowerOf(b, e) = MontDecode(state, p)
    BY <1>10, <2>1 DEF PowerOf, Scalar, Montgomery, p
  <2> DEFINE d == MontDecode(state, p)
  <2>3. d \in 0 .. n - 1 /\ (d * R) % n = p
    <3>1. DecodeValue(p) \in 0 .. q - 1 /\ (DecodeValue(p) * ScaleOf(state)) % q = p
      BY <1>9, DecodeIs
    <3>2. DecodeValue(p) = d
      BY <1>10 DEF DecodeValue, Scalar, ScalarDecode, Montgomery
    <3>3. QED
      BY <3>1, <3>2
  <2> HIDE DEF d
  <2>4. d \in Nat /\ d % n = d
    <3> HIDE DEF n
    <3>1. QED
      BY <1>1, <2>3
  <2>5. (p * c) % n = d % n
    <3>1. (((d * R) % n) * c) % n = d % n
      BY <1>6, <2>4
    <3>2. QED
      BY <2>3, <3>1
  <2>6. QED
    BY <1>9, <2>2, <2>4, <2>5 DEF d
<1>11. CASE state.arith # "montgomery"
  <2>1. R = 1
    BY <1>3, <1>11
  <2>2. one = 1 /\ base = b
    <3>1. 1 * R = 1 /\ b * R = b /\ 1 % n = 1
      BY <1>1, <2>1
    <3>2. QED
      BY <1>1, <3>1
  <2>3. Reduce(b) = b
    <3>1. b \in Word /\ Fits(b)
      BY ResiduesFit
    <3>2. Reduce(b) = b % q
      BY <3>1, ReduceIs
    <3>3. QED
      BY <1>1, <3>2
  <2>4. PowerOf(b, e) = p
    BY <1>11, <2>2, <2>3 DEF PowerOf, Montgomery, p
  <2>5. p \in Nat /\ p % n = p
    <3> HIDE DEF n
    <3>1. QED
      BY <1>1, <1>9
  <2>6. (p * c) % n = p
    <3>1. (((p * R) % n) * c) % n = p % n
      BY <1>6, <2>5
    <3>2. p * R = p
      BY <2>1, <2>5
    <3>3. QED
      BY <2>5, <3>1, <3>2
  <2>7. QED
    BY <1>9, <2>4, <2>6
<1>12. QED
  BY <1>10, <1>11

-----------------------------------------------------------------------------

\* The residue that a value v of the arithmetic stands for
ResidueOf(v) == CHOOSE k \in 0 .. q - 1 : (k * (Radix % q)) % q = v % q

\* It is the one number that the factor takes to v.
LEMMA ResidueIs ==
  ASSUME Provided(state), NEW v \in 0 .. q - 1
  PROVE  /\ ResidueOf(v) \in 0 .. q - 1
         /\ (ResidueOf(v) * ScaleOf(state)) % q = v
         /\ \A k \in Nat : (k * ScaleOf(state)) % q = v => ResidueOf(v) = k % q
<1> DEFINE R == ScaleOf(state)
           n == q
<1>1. n \in Nat \ {0, 1} /\ n \in Nat \ {0} /\ v \in Nat /\ v % n = v
  BY ModulusFacts
<1>2. PICK c \in Nat : Undoes(c, R, n)
  BY ScaleFacts DEF Undoes
<1>3. R \in Nat
  BY ScaleFacts
<1>4. Radix = R
  BY DEF Radix, ScaleOf, RadixOf
<1>5. ASSUME NEW k \in Nat
      PROVE  (k * (Radix % n)) % n = (k * R) % n
  <2> HIDE DEF n, R
  <2>1. QED
    BY <1>1, <1>3, <1>4, ModMul
<1> DEFINE k0 == (v * c) % n
<1>6. k0 \in 0 .. n - 1 /\ (k0 * R) % n = v
  <2> DEFINE vc == v * c
             Rc == R * c
  <2>1. vc \in Nat /\ Rc \in Nat /\ vc * R = v * Rc /\ v * 1 = v
    BY <1>1, <1>3
  <2>2. Rc % n = 1
    BY <1>2 DEF Undoes
  <2> HIDE DEF vc, Rc, n, R
  <2>3. vc % n \in 0 .. n - 1
    BY <1>1, <2>1, DivMod
  <2>4. ((vc % n) * R) % n = (vc * R) % n
    BY <1>1, <1>3, <2>1, ModMul
  <2>5. (v * (Rc % n)) % n = (v * Rc) % n
    BY <1>1, <2>1, ModMul
  <2>6. QED
    BY <1>1, <2>1, <2>2, <2>3, <2>4, <2>5 DEF vc
<1>7. k0 \in Nat
  <2> HIDE DEF n, k0
  <2>1. QED
    BY <1>1, <1>6
<1>8. \E k \in 0 .. n - 1 : (k * (Radix % n)) % n = v % n
  <2>1. (k0 * (Radix % n)) % n = v % n
    BY <1>1, <1>5, <1>6, <1>7
  <2> HIDE DEF n, k0
  <2>2. QED
    BY <1>6, <2>1
<1> DEFINE r == ResidueOf(v)
<1>9. r \in 0 .. n - 1 /\ (r * (Radix % n)) % n = v % n
  <2> HIDE DEF q
  <2>1. QED
    BY <1>8 DEF ResidueOf
<1> HIDE DEF r
<1>10. r \in Nat /\ r % n = r
  <2> HIDE DEF n
  <2>1. QED
    BY <1>1, <1>9
<1>11. (r * R) % n = v
  <2>1. (r * (Radix % n)) % n = (r * R) % n
    BY <1>5, <1>10
  <2>2. QED
    BY <1>1, <1>9, <2>1
<1>12. ASSUME NEW k \in Nat, (k * R) % n = v
       PROVE  r = k % n
  <2> HIDE DEF n, R
  <2>1. (r * R) % n = (k * R) % n
    BY <1>11, <1>12
  <2>2. \A u, w \in Nat : (u * R) % n = (w * R) % n => u % n = w % n
    BY <1>1, <1>2, <1>3, ScaleCancels
  <2>3. r % n = k % n
    BY <1>10, <1>12, <2>1, <2>2
  <2>4. QED
    BY <1>10, <2>3
<1>13. QED
  BY <1>9, <1>11, <1>12 DEF r

\* Before and after a step
LEMMA ResidueOfX ==
  /\ Residue = ResidueOf(x)
  /\ state' = state => Residue' = ResidueOf(x') /\ q' = q
<1>1. Residue = ResidueOf(x)
  BY DEF Residue, ResidueOf
<1>2. ASSUME state' = state
      PROVE  Residue' = ResidueOf(x') /\ q' = q
  <2>1. q' = q
    BY <1>2 DEF q
  <2>2. Radix' = Radix
    BY <1>2 DEF Radix
  <2>3. Residue' = ResidueOf(x')
    BY <2>1, <2>2 DEF Residue, ResidueOf
  <2>4. QED
    BY <2>1, <2>3
<1>3. QED
  BY <1>1, <1>2

-----------------------------------------------------------------------------

\* The inductive invariant: the constants of the setup, and residues in both
\* registers
Sound ==
  /\ Provided(state)
  /\ state.q \in Moduli
  /\ x \in 0 .. q - 1
  /\ out \in 0 .. q - 1

\* The setups provide what the operations need.
LEMMA SoundInitially ==
  ASSUME WordBits <= 192, Init
  PROVE  Sound
<1>1. PICK m \in Moduli :
        \/ state = [q |-> m, arith |-> "utils"]
        \/ /\ m < Base \div 2
           /\ \/ \E version \in {"toy", "naive"} : state = [q |-> m, arith |-> version]
              \/ \E reduction \in {"barrett", "montgomery"}, portable \in BOOLEAN :
                   state = ScalarState(m, reduction, portable)
  BY DEF Init
<1>2. m \in 3 .. Base - 1 /\ m % 2 = 1
  BY ArithmeticAssumption
<1>3. Base \in Nat /\ Base >= 4
  BY WordFacts
<1>4. m \in Nat /\ m >= 3 /\ m < Base /\ m \in 2 .. Base - 1
  BY <1>2, <1>3
<1>5. m < Base \div 2 => 2 * m <= Base
  BY <1>3, <1>4
<1>6. state.q = m /\ Provided(state)
  <2>1. CASE state = [q |-> m, arith |-> "utils"]
    <3>1. state.q = m /\ state.arith = "utils"
      BY <2>1
    <3>2. Suits("utils", m)
      BY <1>4 DEF Suits
    <3>3. QED
      BY <1>4, <3>1, <3>2 DEF Provided
  <2>2. CASE /\ m < Base \div 2
             /\ \E version \in {"toy", "naive"} : state = [q |-> m, arith |-> version]
    <3>1. PICK version \in {"toy", "naive"} : state = [q |-> m, arith |-> version]
      BY <2>2
    <3>2. state.q = m /\ state.arith = version
      BY <3>1
    <3>3. Suits(version, m)
      BY <1>4, <1>5, <2>2 DEF Suits
    <3>4. version \notin {"barrett", "montgomery"}
      OBVIOUS
    <3>5. QED
      BY <1>4, <3>2, <3>3, <3>4 DEF Provided
  <2>3. CASE /\ m < Base \div 2
             /\ \E reduction \in {"barrett", "montgomery"}, portable \in BOOLEAN :
                  state = ScalarState(m, reduction, portable)
    <3>1. PICK reduction \in {"barrett", "montgomery"}, portable \in BOOLEAN :
            state = ScalarState(m, reduction, portable)
      BY <2>3
    <3>2. state.q = m /\ state.arith = reduction
      BY <3>1 DEF ScalarState
    <3>3. Equipped(ScalarState(m, reduction, portable))
      BY <1>2, <1>4, <1>5, <2>3, SetupEquips
    <3>4. QED
      BY <1>4, <3>1, <3>2, <3>3 DEF Provided
  <2>4. QED
    BY <1>1, <2>1, <2>2, <2>3
<1>7. x = 0 /\ out = 0 /\ 0 \in 0 .. q - 1
  <2>1. q = m
    BY <1>6 DEF q
  <2>2. QED
    BY <1>4, <2>1 DEF Init
<1>8. QED
  BY <1>6, <1>7 DEF Sound

\* What the operations do to the registers
LEMMA StepsAre ==
  ASSUME Sound
  PROVE  /\ \A a \in Values : Fits(a) =>
              /\ EncodeValue(a) = (a * ScaleOf(state)) % q /\ EncodeValue(a) \in 0 .. q - 1
              /\ Reduce(a) = a % q /\ Reduce(a) \in 0 .. q - 1
         /\ EncodeValue(out) = (out * ScaleOf(state)) % q /\ EncodeValue(out) \in 0 .. q - 1
         /\ DecodeValue(x) \in 0 .. q - 1 /\ (DecodeValue(x) * ScaleOf(state)) % q = x
<1>1. Provided(state) /\ x \in 0 .. q - 1 /\ out \in 0 .. q - 1
  BY DEF Sound
<1>2. ASSUME NEW a \in Values, Fits(a)
      PROVE  /\ EncodeValue(a) = (a * ScaleOf(state)) % q /\ EncodeValue(a) \in 0 .. q - 1
             /\ Reduce(a) = a % q /\ Reduce(a) \in 0 .. q - 1
  <2>1. a \in Word
    BY ArithmeticAssumption
  <2>2. QED
    BY <1>1, <1>2, <2>1, EncodeIs, ReduceIs
<1>3. EncodeValue(out) = (out * ScaleOf(state)) % q /\ EncodeValue(out) \in 0 .. q - 1
  <2>1. out \in Word /\ Fits(out)
    BY <1>1, ResiduesFit
  <2>2. QED
    BY <1>1, <2>1, EncodeIs
<1>4. DecodeValue(x) \in 0 .. q - 1 /\ (DecodeValue(x) * ScaleOf(state)) % q = x
  BY <1>1, DecodeIs
<1>5. QED
  BY <1>2, <1>3, <1>4

\* Every operation leaves residues.
LEMMA SoundKept ==
  ASSUME Sound, [Next]_vars
  PROVE  Sound'
<1> DEFINE e == EncodeValue(out)
<1>1. Provided(state) /\ x \in 0 .. q - 1 /\ out \in 0 .. q - 1 /\ state.q \in Moduli
  BY DEF Sound
<1>2. q \in Nat \ {0} /\ q \in Nat
  BY <1>1, ModulusFacts
<1>3. e \in 0 .. q - 1
  BY StepsAre
<1> HIDE DEF e
<1>4. SUFFICES state' = state /\ x' \in 0 .. q - 1 /\ out' \in 0 .. q - 1
  <2>1. ASSUME state' = state, x' \in 0 .. q - 1, out' \in 0 .. q - 1
        PROVE  Sound'
    <3>1. q' = q
      BY <2>1 DEF q
    <3>2. QED
      BY <1>1, <2>1, <3>1 DEF Sound
  <2>2. QED
    BY <2>1
<1>5. \A k \in Nat : k % q \in 0 .. q - 1
  <2> HIDE DEF q
  <2>1. QED
    BY <1>2, DivMod
<1>6. x \in Nat /\ e \in Nat /\ x + e \in Nat /\ x + q - e \in Nat
  <2>1. x \in Nat /\ e \in Nat /\ e < q
    BY <1>1, <1>2, <1>3
  <2> HIDE DEF q
  <2>2. QED
    BY <1>2, <2>1
<1>7. CASE \E a \in Values : Fits(a) /\ (Encode(a) \/ Canonicalize(a))
  <2>1. PICK a \in Values : Fits(a) /\ (Encode(a) \/ Canonicalize(a))
    BY <1>7
  <2>2. EncodeValue(a) \in 0 .. q - 1 /\ Reduce(a) \in 0 .. q - 1
    BY <2>1, StepsAre
  <2>3. CASE Encode(a)
    BY <1>1, <2>2, <2>3 DEF Encode
  <2>4. CASE Canonicalize(a)
    BY <1>1, <2>2, <2>4 DEF Canonicalize
  <2>5. QED
    BY <2>1, <2>3, <2>4
<1>8. CASE Add
  <2>1. Plus(x, e) = (x + e) % q
    BY <1>1, <1>3, PlusIs
  <2>2. (x + e) % q \in 0 .. q - 1
    BY <1>5, <1>6
  <2>3. QED
    BY <1>1, <1>8, <2>1, <2>2 DEF Add, e
<1>9. CASE Subtract
  <2>1. Minus(x, e) = (x + q - e) % q
    BY <1>1, <1>3, <1>9, MinusIs DEF Subtract
  <2>2. (x + q - e) % q \in 0 .. q - 1
    BY <1>5, <1>6
  <2>3. QED
    BY <1>1, <1>9, <2>1, <2>2 DEF Subtract, e
<1>10. CASE Multiply
  <2>1. Times(x, e) \in 0 .. q - 1
    BY <1>1, <1>3, TimesIs
  <2>2. QED
    BY <1>1, <1>10, <2>1 DEF Multiply, e
<1>11. CASE Decode
  <2>1. DecodeValue(x) \in 0 .. q - 1
    BY StepsAre
  <2>2. QED
    BY <1>1, <1>11, <2>1 DEF Decode
<1>12. CASE Invert
  <2> DEFINE k == q - 2
  <2>1. k \in Nat
    <3>1. q \in Nat /\ q >= 3
      BY <1>1, ModulusFacts
    <3>2. QED
      BY <3>1
  <2> HIDE DEF k
  <2>2. PowerOf(out, k) = Pow(out, k) % q
    BY <1>1, <2>1, PowerOfCorrect
  <2>3. Pow(out, k) \in Nat
    <3>1. out \in Nat
      BY <1>1, <1>2
    <3>2. QED
      BY <2>1, <3>1, PowNat
  <2>4. PowerOf(out, k) \in 0 .. q - 1
    BY <1>5, <2>2, <2>3
  <2>5. QED
    BY <1>1, <1>12, <2>4 DEF Invert, k
<1>13. CASE UNCHANGED vars
  BY <1>1, <1>13 DEF vars
<1>14. QED
  BY <1>7, <1>8, <1>9, <1>10, <1>11, <1>12, <1>13 DEF Next

\* Always
LEMMA SoundAlways ==
  ASSUME WordBits <= 192
  PROVE  Spec => []Sound
<1>1. Init => Sound
  BY SoundInitially
<1>2. Sound /\ [Next]_vars => Sound'
  BY SoundKept
<1>3. QED
  BY <1>1, <1>2, PTL DEF Spec

\* Every value in between is a canonical residue.
THEOREM ArithmeticTypes ==
  ASSUME WordBits <= 192
  PROVE  Spec => []TypeOK
<1>1. Sound => TypeOK
  BY DEF Sound, TypeOK
<1>2. QED
  BY <1>1, SoundAlways, PTL

\* The constants are what the reductions take them for, and no operation
\* disturbs them.
THEOREM ConstantsAreRight ==
  ASSUME WordBits <= 192
  PROVE  Spec => []ConstantsRight
<1>1. ASSUME Sound
      PROVE  ConstantsRight
  <2>1. Provided(state)
    BY <1>1 DEF Sound
  <2>2. q \in Nat \ {0, 1} /\ q \in Nat \ {0} /\ state.q = q
    BY <2>1, ModulusFacts
  <2>3. CASE state.arith = "montgomery"
    <3> DEFINE radix == IF state.q32 THEN Half ELSE Base
    <3>1. Equipped(state)
      BY <2>1, <2>3 DEF Provided
    <3>2. radix = RadixOf(state.q32) /\ radix \in Nat
      BY WordFacts DEF RadixOf
    <3>3. (state.qinv * q) % radix = radix - 1 /\ state.r2 = (radix * radix) % q
      BY <2>2, <2>3, <3>1, <3>2 DEF Equipped
    <3> HIDE DEF radix
    <3>4. ((radix % q) * (radix % q)) % q = (radix * radix) % q
      <4> HIDE DEF q
      <4>1. QED
        BY <2>2, <3>2, ModMulBoth
    <3>5. QED
      BY <2>3, <3>3, <3>4 DEF ConstantsRight, radix
  <2>4. CASE state.arith = "barrett"
    <3>1. Equipped(state)
      BY <2>1, <2>4 DEF Provided
    <3>2. 2 * q <= Base /\ (state.q32 => state.mu = BarrettMu(q))
          /\ (~state.q32 => state.muWide = BarrettMuWide(q, state.portable))
      BY <2>2, <2>4, <3>1 DEF Equipped
    <3>3. BarrettMu(q) = Base \div q
      <4> HIDE DEF q
      <4>1. Base \in Nat \ {0}
        BY WordFacts
      <4>2. QED
        BY <2>2, <4>1, BarrettMuCorrect
    <3>4. Number(BarrettMuWide(q, state.portable)) = (Base * Base) \div q
      <4> HIDE DEF q
      <4>1. QED
        BY <2>2, <3>2, BarrettMuWideCorrect
    <3>5. QED
      BY <2>4, <3>2, <3>3, <3>4 DEF ConstantsRight, Number
  <2>5. CASE state.arith \notin {"barrett", "montgomery"}
    BY <2>5 DEF ConstantsRight
  <2>6. QED
    BY <2>3, <2>4, <2>5
<1>2. QED
  BY <1>1, SoundAlways, PTL

-----------------------------------------------------------------------------

\* A summand can be cancelled.
LEMMA SumCancels ==
  ASSUME NEW n \in Nat \ {0}, NEW u \in 0 .. n - 1, NEW v \in 0 .. n - 1, NEW w \in 0 .. n - 1,
         (u + w) % n = (v + w) % n
  PROVE  u = v
<1>1. u + w \in 0 .. 2 * n - 1 /\ v + w \in 0 .. 2 * n - 1
  OBVIOUS
<1> DEFINE s == u + w
           t == v + w
<1>2. s \in 0 .. 2 * n - 1 /\ t \in 0 .. 2 * n - 1 /\ s % n = t % n
  BY <1>1
<1> HIDE DEF s, t
<1>3. (s % n = IF s < n THEN s ELSE s - n) /\ (t % n = IF t < n THEN t ELSE t - n)
  BY <1>2, ModOnce
<1>4. s = t \/ s = t + n \/ t = s + n
  BY <1>2, <1>3
<1>5. QED
  BY <1>4 DEF s, t

\* Residues of sums
LEMMA SumOfResidues ==
  ASSUME NEW n \in Nat \ {0}, NEW a \in Nat, NEW b \in Nat
  PROVE  ((a % n) + (b % n)) % n = (a + b) % n
<1> DEFINE u == a % n
           v == b % n
<1>1. u \in Nat /\ v \in Nat /\ u % n = a % n /\ v % n = b % n
  <2>1. u \in 0 .. n - 1 /\ v \in 0 .. n - 1
    BY DivMod
  <2>2. u % n = u /\ v % n = v
    <3> HIDE DEF u, v
    <3>1. QED
      BY <2>1
  <2>3. QED
    BY <2>1, <2>2
<1> HIDE DEF u, v
<1>2. Congruent(u, a, n) /\ Congruent(v, b, n)
  BY <1>1 DEF Congruent
<1>3. Congruent(u + v, a + b, n)
  BY <1>1, <1>2, SumCongruent
<1>4. QED
  BY <1>3 DEF Congruent, u, v

-----------------------------------------------------------------------------

\* What the residue of x becomes, when its new value is known: the form in which
\* the operations below use it.
LEMMA NewResidue ==
  ASSUME Sound, state' = state, x' \in 0 .. q - 1
  PROVE  /\ q' = q
         /\ Residue' \in 0 .. q - 1
         /\ (Residue' * ScaleOf(state)) % q = x'
         /\ \A k \in Nat : (k * ScaleOf(state)) % q = x' => Residue' = k % q
<1>1. Provided(state)
  BY DEF Sound
<1>2. Residue' = ResidueOf(x') /\ q' = q
  BY ResidueOfX
<1>3. /\ ResidueOf(x') \in 0 .. q - 1
      /\ (ResidueOf(x') * ScaleOf(state)) % q = x'
      /\ \A k \in Nat : (k * ScaleOf(state)) % q = x' => ResidueOf(x') = k % q
  BY <1>1, ResidueIs
<1>4. QED
  BY <1>2, <1>3

\* and what it is.
LEMMA OldResidue ==
  ASSUME Sound
  PROVE  /\ Residue \in 0 .. q - 1
         /\ (Residue * ScaleOf(state)) % q = x
         /\ \A k \in Nat : (k * ScaleOf(state)) % q = x => Residue = k % q
<1>1. Provided(state) /\ x \in 0 .. q - 1
  BY DEF Sound
<1>2. QED
  BY <1>1, ResidueIs, ResidueOfX

\* Encoding gives the residue of the number.
LEMMA EncodeInRing ==
  ASSUME Sound, NEW a \in Values, Fits(a), Encode(a)
  PROVE  Ring!Encode(a)
<1>1. state' = state /\ out' = out /\ x' = EncodeValue(a)
  BY DEF Encode
<1>2. x' = (a * ScaleOf(state)) % q /\ x' \in 0 .. q - 1
  BY <1>1, StepsAre
<1>3. a \in Nat
  BY ArithmeticAssumption, WordFacts
<1>4. Residue' = a % q /\ q' = q
  BY <1>1, <1>2, <1>3, NewResidue
<1>5. QED
  BY <1>1, <1>4 DEF Ring!Encode

\* Canonicalizing does so in public.
LEMMA CanonicalizeInRing ==
  ASSUME Sound, NEW a \in Values, Fits(a), Canonicalize(a)
  PROVE  Ring!Canonicalize(a)
<1>1. state' = state /\ x' = x /\ out' = Reduce(a)
  BY DEF Canonicalize
<1>2. Reduce(a) = a % q
  BY StepsAre
<1>3. Residue' = Residue /\ q' = q
  BY <1>1, ResidueOfX
<1>4. QED
  BY <1>1, <1>2, <1>3 DEF Ring!Canonicalize

\* Sums are sums of residues.
LEMMA AddInRing ==
  ASSUME Sound, Add
  PROVE  Ring!Add
<1> DEFINE n == q
           R == ScaleOf(state)
           r == Residue
           e == EncodeValue(out)
<1>1. Provided(state) /\ x \in 0 .. n - 1 /\ out \in 0 .. n - 1
  BY DEF Sound
<1>2. n \in Nat \ {0} /\ R \in Nat /\ out \in Nat /\ x \in Nat
  BY <1>1, ModulusFacts, ScaleFacts
<1>3. e = (out * R) % n /\ e \in 0 .. n - 1
  BY StepsAre
<1>4. state' = state /\ out' = out /\ x' = (x + e) % n
  <2>1. Plus(x, EncodeValue(out)) = (x + EncodeValue(out)) % q
    BY <1>1, <1>3, PlusIs
  <2>2. QED
    BY <2>1 DEF Add
<1>5. r \in 0 .. n - 1 /\ (r * R) % n = x
  BY OldResidue
<1> HIDE DEF e, n, R, r
<1>6. r \in Nat /\ e \in Nat
  BY <1>2, <1>3, <1>5
<1> DEFINE rR == r * R
           oR == out * R
           k == r + out
<1>7. rR \in Nat /\ oR \in Nat /\ k \in Nat /\ k * R = rR + oR
  BY <1>2, <1>6
<1>8. x = rR % n /\ e = oR % n
  BY <1>3, <1>5
<1> HIDE DEF rR, oR
<1>9. (k * R) % n = (x + e) % n
  BY <1>2, <1>7, <1>8, SumOfResidues
<1>10. x' \in 0 .. n - 1
  <2> DEFINE s == x + e
  <2>1. s \in Nat
    BY <1>2, <1>6
  <2> HIDE DEF s
  <2>2. s % n \in 0 .. n - 1
    BY <1>2, <2>1, DivMod
  <2>3. QED
    BY <1>4, <2>2 DEF s
<1> HIDE DEF k
<1>11. Residue' = k % n /\ q' = q
  BY <1>4, <1>7, <1>9, <1>10, NewResidue DEF n, R
<1>12. QED
  BY <1>4, <1>11 DEF Ring!Add, n, k, r

\* Differences are differences.
LEMMA SubtractInRing ==
  ASSUME Sound, Subtract
  PROVE  Ring!Subtract
<1> DEFINE n == q
           R == ScaleOf(state)
           r == Residue
           e == EncodeValue(out)
<1>1. Provided(state) /\ x \in 0 .. n - 1 /\ out \in 0 .. n - 1 /\ state.arith # "utils"
  BY DEF Sound, Subtract
<1>2. n \in Nat \ {0} /\ n \in Nat /\ R \in Nat /\ out \in Nat /\ out < n /\ x \in Nat
  BY <1>1, ModulusFacts, ScaleFacts
<1>3. e = (out * R) % n /\ e \in 0 .. n - 1
  BY StepsAre
<1>4. state' = state /\ out' = out /\ x' = (x + n - e) % n
  <2>1. Minus(x, EncodeValue(out)) = (x + q - EncodeValue(out)) % q
    BY <1>1, <1>3, MinusIs
  <2>2. QED
    BY <2>1 DEF Subtract
<1>5. r \in 0 .. n - 1 /\ (r * R) % n = x /\ x \in 0 .. n - 1
  BY <1>1, OldResidue
<1> HIDE DEF e, n, R, r
<1>6. r \in Nat /\ e \in Nat /\ e < n
  BY <1>2, <1>3, <1>5
<1> DEFINE s == x + n - e
           d == s % n
           k == r + n - out
           kR == k * R
           oR == out * R
<1>7. s \in Nat /\ k \in Nat /\ s + e = x + n /\ k + out = r + n
  BY <1>2, <1>6
<1> HIDE DEF s, k
<1>8. d \in 0 .. n - 1
  BY <1>2, <1>7, DivMod
\* the new value and the operand add up to the old value,
<1>9. (d + e) % n = x
  <2>1. e % n = e
    BY <1>2, <1>3
  <2>2. ((s % n) + (e % n)) % n = (s + e) % n
    BY <1>2, <1>6, <1>7, SumOfResidues
  <2>3. x + n = 1 * n + x
    BY <1>2
  <2>4. (1 * n + x) % n = x % n
    BY <1>2, ModAdd
  <2>5. x % n = x
    BY <1>2, <1>5
  <2>6. QED
    BY <1>7, <2>1, <2>2, <2>3, <2>4, <2>5
\* and so do the difference of the residues and the operand.
<1>10. kR \in Nat /\ oR \in Nat /\ (kR + oR) % n = x
  <2>1. kR \in Nat /\ oR \in Nat
    BY <1>2, <1>7
  <2> DEFINE rR == r * R
  <2>2. rR \in Nat
    BY <1>2, <1>6
  <2>3. kR + oR = R * n + rR
    <3>1. kR + oR = (k + out) * R
      BY <1>2, <1>7
    <3>2. (r + n) * R = R * n + rR
      BY <1>2, <1>6
    <3>3. QED
      BY <1>7, <3>1, <3>2
  <2>4. rR % n = x
    BY <1>5
  <2> HIDE DEF rR, kR, oR
  <2>5. (R * n + rR) % n = rR % n
    BY <1>2, <2>2, ModAdd
  <2>6. QED
    BY <2>1, <2>3, <2>4, <2>5
<1>11. kR % n = d
  <2>1. oR % n = e
    BY <1>3
  <2> HIDE DEF kR, oR, d
  <2> DEFINE u == kR % n
  <2>2. u \in 0 .. n - 1
    BY <1>2, <1>10, DivMod
  <2>3. (u + e) % n = x
    <3>1. ((kR % n) + (oR % n)) % n = (kR + oR) % n
      BY <1>2, <1>10, SumOfResidues
    <3>2. QED
      BY <1>10, <2>1, <3>1
  <2> HIDE DEF u
  <2>4. u = d
    BY <1>2, <1>3, <1>8, <1>9, <2>2, <2>3, SumCancels
  <2>5. QED
    BY <2>4 DEF u
<1>12. x' = d
  BY <1>4 DEF s
<1> HIDE DEF d
<1>13. Residue' = k % n /\ q' = q
  <2>1. (k * R) % n = x'
    BY <1>11, <1>12
  <2>2. x' \in 0 .. n - 1
    BY <1>8, <1>12
  <2>3. QED
    BY <1>4, <1>7, <2>1, <2>2, NewResidue DEF n, R
<1>14. QED
  BY <1>4, <1>13 DEF Ring!Subtract, n, k, r

\* Products are products.
LEMMA MultiplyInRing ==
  ASSUME Sound, Multiply
  PROVE  Ring!Multiply
<1> DEFINE n == q
           R == ScaleOf(state)
           r == Residue
           e == EncodeValue(out)
           y == Times(x, e)
<1>1. Provided(state) /\ x \in 0 .. n - 1 /\ out \in 0 .. n - 1
  BY DEF Sound
<1>2. n \in Nat \ {0, 1} /\ n \in Nat \ {0} /\ R \in Nat /\ out \in Nat /\ x \in Nat
  BY <1>1, ModulusFacts, ScaleFacts
<1>3. e = (out * R) % n /\ e \in 0 .. n - 1
  BY StepsAre
<1>4. y \in 0 .. n - 1 /\ (y * R) % n = (x * e) % n
  BY <1>1, <1>3, TimesIs
<1>5. state' = state /\ out' = out /\ x' = y
  BY DEF Multiply
<1>6. r \in 0 .. n - 1 /\ (r * R) % n = x
  BY OldResidue
<1>7. PICK c \in Nat : Undoes(c, R, n)
  BY <1>1, ScaleFacts DEF Undoes
<1> HIDE DEF e, y, n, R, r
<1>8. r \in Nat /\ e \in Nat /\ y \in Nat /\ y % n = y
  BY <1>2, <1>3, <1>4, <1>6
<1> DEFINE rR == r * R
           oR == out * R
           k == r * out
           kR == k * R
<1>9. rR \in Nat /\ oR \in Nat /\ k \in Nat /\ kR \in Nat
  BY <1>2, <1>8
<1>10. rR * oR = kR * R
  BY <1>2, <1>8
<1>11. x = rR % n /\ e = oR % n
  BY <1>3, <1>6
<1>12. (kR * R) % n = (x * e) % n
  <2> HIDE DEF rR, oR, kR
  <2>1. ((rR % n) * (oR % n)) % n = (rR * oR) % n
    BY <1>2, <1>9, ModMulBoth
  <2>2. QED
    BY <1>10, <1>11, <2>1
<1>13. kR % n = y
  <2> HIDE DEF kR
  <2>1. \A u, v \in Nat : (u * R) % n = (v * R) % n => u % n = v % n
    BY <1>2, <1>7, ScaleCancels
  <2>2. (kR * R) % n = (y * R) % n
    BY <1>4, <1>12
  <2>3. kR % n = y % n
    BY <1>8, <1>9, <2>1, <2>2
  <2>4. QED
    BY <1>8, <2>3
<1> HIDE DEF k
<1>14. Residue' = k % n /\ q' = q
  <2>1. (k * R) % n = x' /\ x' \in 0 .. n - 1
    BY <1>4, <1>5, <1>13
  <2>2. QED
    BY <1>5, <1>9, <2>1, NewResidue DEF n, R
<1>15. QED
  BY <1>5, <1>14 DEF Ring!Multiply, n, k, r

\* Decoding gives the residue.
LEMMA DecodeInRing ==
  ASSUME Sound, Decode
  PROVE  Ring!Decode
<1> DEFINE d == DecodeValue(x)
<1>1. state' = state /\ x' = x /\ out' = d
  BY DEF Decode
<1>2. d \in 0 .. q - 1 /\ (d * ScaleOf(state)) % q = x
  BY StepsAre
<1> HIDE DEF d
<1>3. d \in Nat /\ d % q = d
  BY <1>2, ModulusFacts DEF Sound
<1>4. Residue = d
  BY <1>2, <1>3, OldResidue
<1>5. Residue' = Residue /\ q' = q
  BY <1>1, ResidueOfX
<1>6. QED
  BY <1>1, <1>4, <1>5 DEF Ring!Decode

\* By Fermat's little theorem the power is the inverse, if the modulus is prime.
LEMMA InvertInRing ==
  ASSUME Sound, \A p \in Moduli : Prime(p), Invert
  PROVE  Ring!Invert
<1> DEFINE n == q
           l == n - 2
           y == Pow(out, l)
           k == y % n
<1>1. Provided(state) /\ out \in 0 .. n - 1 /\ Prime(n)
  BY ModulusFacts DEF Sound
<1>2. n \in Nat /\ n >= 3 /\ n \in Nat \ {0, 1} /\ n \in Nat \ {0} /\ out \in Nat
      /\ out % n = out
  BY <1>1, ModulusFacts
<1>3. state' = state /\ x' = x /\ out # 0 /\ out' = PowerOf(out, q - 2)
  BY DEF Invert
<1>4. l \in Nat /\ l + 1 = n - 1
  <2> HIDE DEF n
  <2>1. QED
    BY <1>2
<1>5. out' = k
  <2>1. PowerOf(out, q - 2) = Pow(out, q - 2) % q
    BY <1>1, <1>4, PowerOfCorrect
  <2>2. QED
    BY <1>3, <2>1
<1> HIDE DEF n, l
<1>6. y \in Nat /\ Pow(out, n - 1) = out * y
  <2>1. y \in Nat /\ Pow(out, l + 1) = out * y
    BY <1>2, <1>4, PowStep
  <2>2. QED
    BY <1>4, <2>1
<1>7. Pow(out, n - 1) % n = 1
  BY <1>1, <1>2, <1>3, FermatsLittleTheorem
<1> HIDE DEF y
<1>8. k \in 0 .. n - 1 /\ (k * out) % n = (y * out) % n
  BY <1>2, <1>6, DivMod, ModMul
<1>9. (k * out) % n = 1
  <2>1. y * out = out * y
    BY <1>2, <1>6
  <2>2. QED
    BY <1>6, <1>7, <1>8, <2>1
<1>10. k # 0
  <2>1. 0 * out = 0 /\ 0 % n = 0
    BY <1>2
  <2>2. QED
    BY <1>9, <2>1
<1> HIDE DEF k
<1>11. k \in 1 .. n - 1
  BY <1>2, <1>8, <1>10
<1>12. Residue' = Residue /\ q' = q
  BY <1>3, ResidueOfX
<1>13. QED
  BY <1>3, <1>5, <1>9, <1>11, <1>12 DEF Ring!Invert, n

\* However the operations follow one another, every arithmetic and both kinds of
\* build compute in the ring of residues modulo a prime.
THEOREM ArithmeticIsRing ==
  ASSUME WordBits <= 192, \A p \in Moduli : Prime(p)
  PROVE  Spec => ComputesInRing
<1>1. ASSUME Init
      PROVE  Ring!Init
  <2>1. Sound
    BY <1>1, SoundInitially
  <2>2. Provided(state) /\ q \in Moduli /\ x = 0 /\ out = 0
    BY <1>1, <2>1 DEF Sound, Init, q
  <2>3. 0 * ScaleOf(state) = 0 /\ 0 % q = 0
    BY <2>2, ScaleFacts, ModulusFacts
  <2>4. Residue = 0
    BY <2>1, <2>2, <2>3, OldResidue
  <2>5. QED
    BY <2>2, <2>4 DEF Ring!Init
<1>2. ASSUME Sound, [Next]_vars
      PROVE  [ /\ \A a \in {v \in Values : Fits(v)} :
                    (Encode(a) => Ring!Encode(a)) /\ (Canonicalize(a) => Ring!Canonicalize(a))
               /\ Add => Ring!Add
               /\ Subtract => Ring!Subtract
               /\ Multiply => Ring!Multiply
               /\ Decode => Ring!Decode
               /\ Invert => Ring!Invert ]_vars
  BY <1>2, EncodeInRing, CanonicalizeInRing, AddInRing, SubtractInRing, MultiplyInRing,
     DecodeInRing, InvertInRing
<1>3. QED
  BY <1>1, <1>2, SoundAlways, PTL DEF Spec, ComputesInRing

=============================================================================
