--------------------------- MODULE ResolutionProofs ---------------------------
(***************************************************************************)
(* Proofs about the resolution of the roots, for any requests and          *)
(* witnesses: the primality test, the factoring, the square root and       *)
(* ntt__resolve_roots, which calls them.  The sections follow the modules; *)
(* each states what makes the properties of its module inductive, and      *)
(* that every step keeps it.                                               *)
(***************************************************************************)
EXTENDS RootResolution, NumberTheoryProofs, SequenceTheorems

-----------------------------------------------------------------------------
(***************************************************************************)
(* The primality test                                                      *)
(***************************************************************************)

TestFrames ==
  [pc : {"idle", "start", "split", "witness", "square", "done"}, q : Nat, d : Nat, s : Nat,
   i : 1 .. Len(Witnesses) + 1, x : Nat, r : Nat \ {0}, prime : BOOLEAN]

(***************************************************************************)
(* What makes SquaringInvariant and NoPrimeRejected inductive: the split   *)
(* so far, and that modulo a prime x is neither 1 nor -1 while the loop    *)
(* squares it, so that its last value would be a third root of one.        *)
(***************************************************************************)
TestInvariant ==
  /\ mr \in TestFrames
  /\ MillerRabinTypeOK
  /\ mr.pc = "start" => mr.s = 0
  /\ mr.pc \in {"start", "split"} => mr.r = 1
  /\ mr.pc \in {"split", "witness", "square"} =>
       mr.q > 3 /\ mr.q % 2 = 1 /\ mr.d # 0 /\ SplitOf(mr.q, mr.d, mr.s)
  /\ mr.pc \in {"witness", "square"} => mr.d % 2 = 1
  /\ mr.pc = "square" =>
       /\ mr.i <= Len(Witnesses) /\ Witnesses[mr.i] < mr.q
       /\ mr.x # mr.q - 1 /\ (Prime(mr.q) => mr.x # 1)
  /\ mr.pc = "done" /\ mr.q = 3 => mr.prime
  /\ SquaringInvariant
  /\ NoPrimeRejected

\* A call starts in it.
LEMMA TestCalled ==
  ASSUME NEW k \in Nat, CallMillerRabin(k) \/ mr' = NoTest
  PROVE  TestInvariant'
<1>1. Len(Witnesses) \in Nat
  BY PrimalityAssumption
<1>2. CASE CallMillerRabin(k)
  <2>1. mr' = [pc |-> "start", q |-> k, d |-> 0, s |-> 0, i |-> 1, x |-> 0, r |-> 1,
               prime |-> FALSE]
    BY <1>2 DEF CallMillerRabin, NoTest
  <2>2. QED
    BY <1>1, <2>1 DEF TestInvariant, TestFrames, MillerRabinTypeOK, SquaringInvariant,
                      NoPrimeRejected, MillerRabinDone
<1>3. CASE mr' = NoTest
  BY <1>1, <1>3 DEF NoTest, TestInvariant, TestFrames, MillerRabinTypeOK, SquaringInvariant,
                    NoPrimeRejected, MillerRabinDone
<1>4. QED
  BY <1>2, <1>3

\* The witnesses
LEMMA WitnessType ==
  ASSUME NEW i \in 1 .. Len(Witnesses) + 1, i <= Len(Witnesses)
  PROVE  Witnesses[i] \in Nat \ {0, 1}
BY PrimalityAssumption

\* Each iteration of the test preserves it.
LEMMA TestStep ==
  ASSUME TestInvariant, MillerRabinStep
  PROVE  TestInvariant'
<1>1. mr \in TestFrames /\ MillerRabinTypeOK /\ Len(Witnesses) \in Nat
  BY PrimalityAssumption DEF TestInvariant
<1>2. CASE DecideSmall
  <2>1. PICK yes \in BOOLEAN : /\ mr' = [mr EXCEPT !.pc = "done", !.prime = yes]
                               /\ yes <=> mr.q \in {2, 3}
    <3>1. mr' = [mr EXCEPT !.pc = "done", !.prime = (mr.q \in {2, 3})]
      BY <1>2 DEF DecideSmall, Answer
    <3>2. (mr.q \in {2, 3}) \in BOOLEAN
      OBVIOUS
    <3> DEFINE b == mr.q \in {2, 3}
    <3>3. b \in BOOLEAN /\ mr' = [mr EXCEPT !.pc = "done", !.prime = b]
      BY <3>1
    <3>4. b <=> mr.q \in {2, 3}
      OBVIOUS
    <3> HIDE DEF b
    <3>5. QED
      BY <3>3, <3>4
  <2>2. mr.q \notin {2, 3} => ~Prime(mr.q)
    <3>1. mr.q \in Nat /\ (mr.q < 4 \/ mr.q % 2 = 0)
      BY <1>1, <1>2 DEF DecideSmall, TestFrames
    <3>2. QED
      BY <3>1, SmallPrimes
  <2>3. mr' \in TestFrames
    BY <1>1, <2>1 DEF TestFrames
  <2>4. mr'.pc = "done" /\ mr'.q = mr.q /\ mr'.d = mr.d /\ mr'.s = mr.s /\ mr'.x = mr.x
        /\ mr'.i = mr.i /\ mr'.r = mr.r /\ mr'.prime = yes
    BY <1>1, <2>1 DEF TestFrames
  <2>5. NoPrimeRejected' /\ (mr'.q = 3 => mr'.prime)
    BY <2>1, <2>2, <2>4 DEF NoPrimeRejected
  <2>6. QED
    BY <1>1, <2>3, <2>4, <2>5 DEF TestInvariant, MillerRabinTypeOK, SquaringInvariant
<1>3. CASE StartSplit
  <2>1. mr' = [mr EXCEPT !.pc = "split", !.d = mr.q - 1] /\ mr.q > 3 /\ mr.q % 2 = 1
    BY <1>3 DEF StartSplit
  <2>2. mr.q - 1 \in Nat \ {0} /\ mr.q \in Nat
    BY <1>1, <2>1 DEF TestFrames
  <2>3. mr' \in TestFrames /\ mr'.pc = "split" /\ mr'.d = mr.q - 1 /\ mr'.q = mr.q
        /\ mr'.s = mr.s /\ mr'.x = mr.x /\ mr'.i = mr.i /\ mr'.r = mr.r
    BY <1>1, <2>1, <2>2 DEF TestFrames
  <2>4. mr.s = 0
    BY <1>3 DEF StartSplit, TestInvariant
  <2>5. SplitOf(mr'.q, mr'.d, mr'.s)
    <3>1. 2^0 = 1
      BY PowersOfTwo
    <3>2. QED
      BY <2>2, <2>3, <2>4, <3>1 DEF SplitOf
  <2>6. MillerRabinTypeOK'
    BY <1>1, <2>2, <2>3, <2>4 DEF MillerRabinTypeOK, TestFrames
  <2>7. mr'.d # 0 /\ mr'.r = 1
    <3>1. mr.r = 1
      BY <1>3 DEF StartSplit, TestInvariant
    <3>2. QED
      BY <2>2, <2>3, <3>1
  <2>8. QED
    BY <2>1, <2>3, <2>5, <2>6, <2>7
       DEF TestInvariant, SquaringInvariant, NoPrimeRejected, MillerRabinDone
<1>4. CASE Halve
  <2> DEFINE h == mr.d \div 2
             t == mr.s + 1
  <2>1. mr' = [mr EXCEPT !.d = h, !.s = t] /\ mr.d % 2 = 0 /\ mr.pc = "split"
    BY <1>4 DEF Halve
  <2>2. mr.d \in Nat \ {0} /\ mr.s \in Nat /\ mr.q \in Nat /\ SplitOf(mr.q, mr.d, mr.s)
        /\ mr.q > 3 /\ mr.q % 2 = 1 /\ mr.r = 1
    BY <2>1 DEF TestInvariant, TestFrames
  <2>3. h \in Nat \ {0} /\ t \in Nat /\ SplitOf(mr.q, h, t) /\ h <= mr.q /\ t <= mr.q
    BY <2>1, <2>2, HalfSplit DEF SplitOf
  <2> HIDE DEF h, t
  <2>4. mr' \in TestFrames /\ mr'.pc = "split" /\ mr'.d = h /\ mr'.q = mr.q
        /\ mr'.s = t /\ mr'.x = mr.x /\ mr'.i = mr.i /\ mr'.r = mr.r
    BY <1>1, <2>1, <2>3 DEF TestFrames
  <2>5. MillerRabinTypeOK'
    BY <1>1, <2>2, <2>3, <2>4 DEF MillerRabinTypeOK, TestFrames
  <2>6. QED
    BY <2>2, <2>3, <2>4, <2>5
       DEF TestInvariant, SquaringInvariant, NoPrimeRejected, MillerRabinDone
<1>5. CASE EndSplit
  <2>1. mr' = [mr EXCEPT !.pc = "witness"] /\ mr.d % 2 = 1 /\ mr.pc = "split"
    BY <1>5 DEF EndSplit
  <2>2. mr' \in TestFrames /\ mr'.pc = "witness" /\ mr'.d = mr.d /\ mr'.q = mr.q
        /\ mr'.s = mr.s /\ mr'.x = mr.x /\ mr'.i = mr.i /\ mr'.r = mr.r
    BY <1>1, <2>1 DEF TestFrames
  <2>3. MillerRabinTypeOK'
    BY <1>1, <2>2 DEF MillerRabinTypeOK, TestFrames
  <2>4. QED
    BY <2>1, <2>2, <2>3
       DEF TestInvariant, SquaringInvariant, NoPrimeRejected, MillerRabinDone
<1>6. CASE SkipWitness \/ WitnessPasses
  <2>1. mr' = [mr EXCEPT !.i = mr.i + 1] /\ mr.pc = "witness" /\ mr.i <= Len(Witnesses)
    BY <1>6 DEF SkipWitness, WitnessPasses, Trying
  <2>2. mr' \in TestFrames /\ mr'.pc = "witness" /\ mr'.d = mr.d /\ mr'.q = mr.q
        /\ mr'.s = mr.s /\ mr'.x = mr.x /\ mr'.i = mr.i + 1 /\ mr'.r = mr.r
    BY <1>1, <2>1 DEF TestFrames
  <2>3. MillerRabinTypeOK'
    BY <1>1, <2>2 DEF MillerRabinTypeOK, TestFrames
  <2>4. QED
    BY <2>1, <2>2, <2>3
       DEF TestInvariant, SquaringInvariant, NoPrimeRejected, MillerRabinDone
<1>7. CASE StartSquaring
  <2> DEFINE a == Witnesses[mr.i]
             x == ModPow(a, mr.d, mr.q)
  <2>1. mr' = [mr EXCEPT !.pc = "square", !.x = x, !.r = 1] /\ mr.pc = "witness"
        /\ mr.i <= Len(Witnesses) /\ a < mr.q /\ x \notin {1, mr.q - 1}
    BY <1>7 DEF StartSquaring, Trying, FirstPower
  <2>2. mr.d \in Nat /\ mr.s \in Nat /\ mr.q \in Nat /\ SplitOf(mr.q, mr.d, mr.s)
        /\ mr.d % 2 = 1 /\ mr.q > 3 /\ mr.q % 2 = 1 /\ mr.i \in 1 .. Len(Witnesses) + 1
    BY <2>1 DEF TestInvariant, TestFrames
  <2>3. a \in Nat /\ mr.q \in Nat \ {0, 1}
    BY <2>1, <2>2, WitnessType
  <2>4. x \in 0 .. mr.q - 1 /\ mr.s # 0
    BY <2>2, <2>3, FirstSquare, ModPowType DEF SplitOf
  <2>0. x = ModPow(a, mr.d * 2^(1 - 1), mr.q)
    BY <2>2, <2>3, FirstSquare DEF SplitOf
  <2> HIDE DEF x, a
  <2>5. mr' \in TestFrames /\ mr'.pc = "square" /\ mr'.d = mr.d /\ mr'.q = mr.q
        /\ mr'.s = mr.s /\ mr'.x = x /\ mr'.i = mr.i /\ mr'.r = 1
    <3>1. x \in Nat /\ 1 \in Nat \ {0}
      BY <2>2, <2>4
    <3>2. mr \in TestFrames /\ mr' = [mr EXCEPT !.pc = "square", !.x = x, !.r = 1]
      BY <1>1, <2>1
    <3>3. QED
      BY <3>1, <3>2 DEF TestFrames
  <2>6. MillerRabinTypeOK'
    BY <1>1, <2>2, <2>4, <2>5 DEF MillerRabinTypeOK, TestFrames
  <2>7. SquaringInvariant'
    <3>1. 1 <= mr.s
      BY <2>2, <2>4
    <3>2. mr'.x = ModPow(Witnesses[mr'.i], mr'.d * 2^(mr'.r - 1), mr'.q)
      BY <2>0, <2>5, Zenon DEF a
    <3>3. QED
      BY <2>2, <2>5, <3>1, <3>2 DEF SquaringInvariant, SplitOf
  <2>8. QED
    BY <2>1, <2>2, <2>3, <2>4, <2>5, <2>6, <2>7
       DEF TestInvariant, NoPrimeRejected, MillerRabinDone, a
<1>8. CASE Square
  <2> DEFINE a == Witnesses[mr.i]
             y == MulMod(mr.x, mr.x, mr.q)
             t == mr.r + 1
  <2>1. mr.pc = "square" /\ mr.r < mr.s
        /\ \/ /\ y = mr.q - 1
              /\ mr' = [mr EXCEPT !.x = y, !.r = t, !.i = mr.i + 1, !.pc = "witness"]
           \/ /\ y # mr.q - 1
              /\ mr' = [mr EXCEPT !.x = y, !.r = t]
    BY <1>8 DEF Square
  <2>2. mr.d \in Nat \ {0} /\ mr.s \in Nat /\ mr.q \in Nat /\ mr.r \in Nat \ {0}
        /\ mr.i \in 1 .. Len(Witnesses) + 1
    BY <1>1, <2>1 DEF TestInvariant, TestFrames
  <2>3. /\ mr.i <= Len(Witnesses) /\ a < mr.q /\ mr.q > 3 /\ mr.q % 2 = 1
        /\ mr.d % 2 = 1 /\ SplitOf(mr.q, mr.d, mr.s)
        /\ mr.x # mr.q - 1 /\ (Prime(mr.q) => mr.x # 1)
    BY <2>1 DEF TestInvariant
  <2>0. IsPower(mr.x, a, mr.d * 2^(mr.r - 1), mr.q)
    BY <2>1 DEF TestInvariant, SquaringInvariant, IsPower
  <2>4. a \in Nat \ {0, 1} /\ mr.q \in Nat \ {0, 1}
    BY <2>2, <2>3, WitnessType
  <2>5. mr.x \in 0 .. mr.q - 1 /\ y \in 0 .. mr.q - 1 /\ y = ModPow(a, mr.d * 2^mr.r, mr.q)
    <3> HIDE DEF a
    <3>1. a \in Nat /\ mr.d \in Nat
      BY <2>2, <2>4
    <3>2. mr.q \in Nat \ {0, 1} /\ mr.r \in Nat \ {0}
      BY <2>2, <2>4
    <3> HIDE DEF y
    <3>3. /\ mr.x \in 0 .. mr.q - 1
          /\ MulMod(mr.x, mr.x, mr.q) \in 0 .. mr.q - 1
          /\ IsPower(MulMod(mr.x, mr.x, mr.q), a, mr.d * 2^mr.r, mr.q)
      BY <2>0, <3>1, <3>2, NextSquare
    <3>4. QED
      BY <3>3 DEF y, IsPower
  <2>6. Prime(mr.q) => y # 1
    <3>1. Prime(mr.q) /\ MulMod(mr.x, mr.x, mr.q) = 1 => mr.x \in {1, mr.q - 1}
      BY <2>2, <2>5, SquareIsOne
    <3>2. QED
      BY <2>3, <3>1
  <2> HIDE DEF y
  <2>7. mr' \in TestFrames /\ mr'.d = mr.d /\ mr'.q = mr.q /\ mr'.s = mr.s /\ mr'.x = y
        /\ mr'.r = t /\ mr'.i \in {mr.i, mr.i + 1} /\ mr'.pc \in {"square", "witness"}
        /\ (mr'.pc = "square" => mr'.i = mr.i /\ y # mr.q - 1)
    <3> HIDE DEF a
    <3>1. y \in Nat /\ t \in Nat \ {0} /\ mr.i + 1 \in 1 .. Len(Witnesses) + 1
      <4>1. y \in Nat
        BY <2>2, <2>5
      <4>2. t \in Nat \ {0}
        BY <2>2
      <4>3. mr.i \in 1 .. Len(Witnesses) + 1 /\ mr.i <= Len(Witnesses)
        BY <2>2, <2>3
      <4>4. Len(Witnesses) \in Nat
        BY <1>1
      <4>5. QED
        BY <4>1, <4>2, <4>3, <4>4
    <3> HIDE DEF t
    <3>2. QED
      BY <1>1, <2>1, <3>1 DEF TestFrames
  <2>8. MillerRabinTypeOK'
    <3>1. y \in 0 .. mr.q /\ t \in 1 .. mr.s + 1
      BY <2>1, <2>2, <2>5
    <3> HIDE DEF t
    <3>2. QED
      BY <1>1, <2>7, <3>1 DEF MillerRabinTypeOK, TestFrames
  <2>9. SquaringInvariant'
    <3>1. t - 1 = mr.r /\ t <= mr.s
      BY <2>1, <2>2
    <3> HIDE DEF t
    <3> SUFFICES ASSUME mr'.pc = "square"
                 PROVE  mr'.x = ModPow(Witnesses[mr'.i], mr'.d * 2^(mr'.r - 1), mr'.q)
      BY <2>3, <2>7, <3>1 DEF SquaringInvariant, SplitOf
    <3>2. mr'.r - 1 = mr.r /\ mr'.i = mr.i
      BY <2>7, <3>1
    <3>3. QED
      BY <2>5, <2>7, <3>2
  <2>10. QED
    BY <2>2, <2>3, <2>6, <2>7, <2>8, <2>9 DEF TestInvariant, NoPrimeRejected, MillerRabinDone
<1>9. CASE WitnessFails
  <2> DEFINE a == Witnesses[mr.i]
  <2>1. mr.pc = "square" /\ mr.r >= mr.s
        /\ mr' = [mr EXCEPT !.pc = "done", !.prime = FALSE]
    BY <1>9 DEF WitnessFails, Answer
  <2>2. mr.d \in Nat \ {0} /\ mr.s \in Nat /\ mr.q \in Nat /\ mr.r \in Nat \ {0}
        /\ mr.i \in 1 .. Len(Witnesses) + 1
    BY <1>1, <2>1 DEF TestInvariant, TestFrames
  <2>3. /\ mr.i <= Len(Witnesses) /\ a < mr.q /\ mr.q > 3 /\ mr.r <= mr.s
        /\ SplitOf(mr.q, mr.d, mr.s)
        /\ mr.x # mr.q - 1 /\ (Prime(mr.q) => mr.x # 1)
    BY <2>1 DEF TestInvariant, SquaringInvariant
  <2>0. mr.x = ModPow(a, mr.d * 2^(mr.r - 1), mr.q)
    BY <2>1 DEF TestInvariant, SquaringInvariant
  <2>4. ~Prime(mr.q)
    <3>1. a \in Nat \ {0, 1}
      BY <2>2, <2>3, WitnessType
    <3> HIDE DEF a
    <3>2. mr.r = mr.s /\ mr.s \in Nat \ {0}
      BY <2>1, <2>2, <2>3
    <3>3. a \in 1 .. mr.q - 1
      BY <2>2, <2>3, <3>1
    <3>4. mr.x = ModPow(a, mr.d * 2^(mr.s - 1), mr.q)
      BY <2>0, <3>2
    <3>5. Prime(mr.q) => ModPow(a, mr.d * 2^(mr.s - 1), mr.q) \in {1, mr.q - 1}
      BY <2>2, <2>3, <3>2, <3>3, LastSquare DEF SplitOf
    <3>6. QED
      BY <2>3, <3>4, <3>5
  <2>5. mr' \in TestFrames /\ mr'.pc = "done" /\ mr'.d = mr.d /\ mr'.q = mr.q
        /\ mr'.s = mr.s /\ mr'.x = mr.x /\ mr'.i = mr.i /\ mr'.r = mr.r
    BY <1>1, <2>1 DEF TestFrames
  <2>6. MillerRabinTypeOK'
    BY <1>1, <2>5 DEF MillerRabinTypeOK, TestFrames
  <2>7. QED
    BY <2>3, <2>4, <2>5, <2>6
       DEF TestInvariant, SquaringInvariant, NoPrimeRejected, MillerRabinDone
<1>10. CASE AllWitnessesPass
  <2>1. mr.pc = "witness" /\ mr' = [mr EXCEPT !.pc = "done", !.prime = TRUE]
    BY <1>10 DEF AllWitnessesPass, Answer
  <2>2. mr' \in TestFrames /\ mr'.pc = "done" /\ mr'.d = mr.d /\ mr'.q = mr.q
        /\ mr'.s = mr.s /\ mr'.x = mr.x /\ mr'.i = mr.i /\ mr'.r = mr.r /\ mr'.prime = TRUE
    BY <1>1, <2>1 DEF TestFrames
  <2>3. MillerRabinTypeOK'
    BY <1>1, <2>2 DEF MillerRabinTypeOK, TestFrames
  <2>4. QED
    BY <2>2, <2>3
       DEF TestInvariant, SquaringInvariant, NoPrimeRejected, MillerRabinDone
<1>11. QED
  BY <1>2, <1>3, <1>4, <1>5, <1>6, <1>7, <1>8, <1>9, <1>10 DEF MillerRabinStep

\* The candidate stays, and the test does not go back to idle.
LEMMA TestKeepsCandidate ==
  ASSUME TestInvariant, MillerRabinStep
  PROVE  mr'.q = mr.q /\ mr'.pc # "idle"
<1>1. mr \in TestFrames
  BY DEF TestInvariant
<1>2. mr.pc # "idle"
  BY DEF MillerRabinStep, DecideSmall, StartSplit, Halve, EndSplit, SkipWitness, WitnessPasses,
         StartSquaring, Square, WitnessFails, AllWitnessesPass, Trying
<1>3. QED
  BY <1>1, <1>2
     DEF TestFrames, MillerRabinStep, DecideSmall, StartSplit, Halve, EndSplit, SkipWitness,
         WitnessPasses, StartSquaring, Square, WitnessFails, AllWitnessesPass, Answer

-----------------------------------------------------------------------------
(***************************************************************************)
(* The factoring                                                           *)
(***************************************************************************)

\* Gcd divides both numbers.
LEMMA GcdIs ==
  ASSUME NEW a \in Nat, NEW b \in Nat \ {0}
  PROVE  Gcd(a, b) \in Nat \ {0} /\ a % Gcd(a, b) = 0 /\ b % Gcd(a, b) = 0
<1> DEFINE f == CHOOSE h : h = [p \in Nat \X Nat |->
                   IF p[2] = 0 THEN p[1] ELSE h[<<p[2], p[1] % p[2]>>]]
<1>1. Gcd(a, b) = f[<<a, b>>]
  BY DEF Gcd
<1>2. IsGcdLoop(f)
  BY GcdLoopExists DEF IsGcdLoop
<1> HIDE DEF f
<1>3. QED
  BY <1>1, <1>2, GcdLoopDivides

\* OddPart strips the factors of two.
LEMMA OddPartIs ==
  ASSUME NEW k \in Nat \ {0}
  PROVE  /\ OddPart(k) \in 1 .. k /\ OddPart(k) % 2 = 1
         /\ \E s \in Nat : OddPart(k) * 2^s = k
<1> DEFINE f == CHOOSE h : h = [j \in Nat |-> IF j % 2 = 0 THEN h[j \div 2] ELSE j]
<1>1. OddPart(k) = f[k]
  BY DEF OddPart
<1>2. IsOddLoop(f)
  BY OddLoopExists DEF IsOddLoop
<1> HIDE DEF f
<1>3. QED
  BY <1>1, <1>2, OddLoopIs, Zenon

\* What goes on the stack
PartsOf(x) == {k \in 2 .. x : k % 2 = 1 /\ x % k = 0}

FactorFrames ==
  [pc : {"idle", "start", "loop", "test", "rho", "done", "failed"}, x : Nat,
   factors : SUBSET Nat, stack : Seq(Nat), n : Nat, c : Nat, u : Nat, v : Nat, depth : Nat]

(***************************************************************************)
(* The parts are odd divisors of x, a part that goes to Pollard's rho is   *)
(* larger than its first value 2, and the factor two is not forgotten.     *)
(***************************************************************************)
FactorInvariant ==
  /\ fac \in FactorFrames
  /\ FactoringTypeOK
  /\ fac.pc = "start" => fac.stack = <<>> /\ fac.factors = {}
  /\ fac.pc \in {"loop", "test", "rho"} => fac.x > 1 /\ fac.stack \in Seq(PartsOf(fac.x))
  /\ fac.pc \in {"test", "rho"} => fac.n \in PartsOf(fac.x)
  /\ fac.pc = "rho" => fac.n > 3
  /\ fac.pc \in {"loop", "test", "rho", "done"} /\ fac.x % 2 = 0 => 2 \in fac.factors

\* The test that is running is the test of the part.
PartUnderTest == fac.pc = "test" => mr.q = fac.n /\ mr.pc # "idle"

\* A collision shows a divisor of n.
LEMMA CollisionIs ==
  ASSUME fac.n \in Nat \ {0}, fac.c \in Nat, fac.u \in Nat, fac.v \in Nat
  PROVE  /\ Collision \in Nat \ {0} /\ fac.n % Collision = 0
         /\ F(fac.u) \in 0 .. fac.n - 1 /\ F(F(fac.v)) \in 0 .. fac.n - 1
<1>1. ASSUME NEW k \in Nat
      PROVE  F(k) \in 0 .. fac.n - 1
  <2> DEFINE y == MulMod(k, k, fac.n) + fac.c
  <2>1. y \in Nat
    <3>1. MulMod(k, k, fac.n) \in 0 .. fac.n - 1
      BY MulModType
    <3>2. QED
      BY <3>1
  <2> HIDE DEF y
  <2>2. y % fac.n \in 0 .. fac.n - 1
    BY <2>1, DivMod
  <2>3. QED
    BY <2>2 DEF F, y
<1>2. \A k \in Nat : F(k) \in 0 .. fac.n - 1 /\ F(k) \in Nat
  BY <1>1
<1>3. F(fac.u) \in Nat /\ F(F(fac.v)) \in Nat
  BY <1>2
<1>4. Distance(F(fac.u), F(F(fac.v))) \in Nat
  BY <1>3 DEF Distance
<1>5. QED
  BY <1>2, <1>4, GcdIs DEF Collision

\* Both halves of a split are parts.
LEMMA SplitParts ==
  ASSUME NEW x \in Nat, NEW n \in PartsOf(x), NEW d \in Nat \ {0, 1, n}, n % d = 0
  PROVE  d \in PartsOf(x) /\ n \div d \in PartsOf(x) /\ n = (n \div d) * d
<1> DEFINE e == n \div d
<1>1. n \in Nat \ {0} /\ n % 2 = 1 /\ x % n = 0 /\ x # 0
  BY DEF PartsOf
<1>2. e \in Nat \ {0} /\ n = e * d /\ n % e = 0
  BY <1>1, ExactQuotient
<1> HIDE DEF e
<1>3. e # 1
  BY <1>2
<1>4. ASSUME NEW k \in {d, e}
      PROVE  k \in PartsOf(x)
  <2>1. k \in Nat \ {0, 1} /\ n % k = 0
    BY <1>2, <1>3, <1>4
  <2>2. x % k = 0 /\ k <= x
    BY <1>1, <2>1, DividesTransitive
  <2>3. k % 2 = 1
    <3>1. ASSUME k % 2 = 0
          PROVE  FALSE
      <4>1. 2 \in Nat \ {0} /\ k \in Nat \ {0} /\ n \in Nat
        BY <1>1, <2>1
      <4>2. n % 2 = 0
        BY <2>1, <3>1, <4>1, DividesTransitive
      <4>3. QED
        BY <1>1, <4>2
    <3>2. QED
      BY <2>1, <3>1
  <2>4. QED
    BY <2>1, <2>2, <2>3 DEF PartsOf
<1>5. QED
  BY <1>2, <1>4 DEF e

\* The odd part of x is a part of it.
LEMMA OddPartOf ==
  ASSUME NEW x \in Nat, x > 1, OddPart(x) # 1
  PROVE  OddPart(x) \in PartsOf(x)
<1> DEFINE o == OddPart(x)
<1>1. PICK s \in Nat : o * 2^s = x
  BY OddPartIs
<1>2. o \in 2 .. x /\ o % 2 = 1
  BY OddPartIs
<1> HIDE DEF o
<1> DEFINE w == 2^s
<1>3. w \in Nat /\ w * o = x
  BY <1>1, <1>2, PowersOfTwo
<1> HIDE DEF w
<1>4. x % o = 0
  <2>1. o \in Nat \ {0} /\ x = w * o
    BY <1>2, <1>3
  <2>2. \E k \in Nat : x = k * o
    BY <1>3, <2>1
  <2>3. QED
    BY <2>1, <2>2, Multiple
<1>5. QED
  BY <1>2, <1>4 DEF PartsOf, o

\* A call starts in the invariant.
LEMMA FactoringCalled ==
  ASSUME NEW k \in Nat, CallDistinctPrimeFactors(k) \/ fac' = NoFactoring
  PROVE  FactorInvariant' /\ PartUnderTest' /\ fac'.pc \in {"start", "idle"}
         /\ fac'.x \in {0, k}
<1>1. MaxSeeds \in Nat
  BY FactoringAssumption
<1>2. <<>> \in Seq(Nat) /\ <<>> \in Seq(1 .. fac'.x)
  BY EmptySeq
<1>3. PICK p \in {"start", "idle"}, y \in {0, k} :
        fac' = [pc |-> p, x |-> y, factors |-> {}, stack |-> <<>>, n |-> 0, c |-> 0, u |-> 0,
                v |-> 0, depth |-> 0]
  <2>1. CASE CallDistinctPrimeFactors(k)
    BY <2>1 DEF CallDistinctPrimeFactors, NoFactoring
  <2>2. CASE fac' = NoFactoring
    BY <2>2 DEF NoFactoring
  <2>3. QED
    BY <2>1, <2>2
<1>4. fac' \in FactorFrames /\ fac'.pc \in {"start", "idle"} /\ fac'.factors = {}
      /\ fac'.stack = <<>> /\ fac'.c = 0 /\ fac'.x \in {0, k}
  BY <1>2, <1>3 DEF FactorFrames
<1>5. FactoringTypeOK'
  BY <1>1, <1>2, <1>4 DEF FactoringTypeOK
<1>6. QED
  BY <1>4, <1>5 DEF FactorInvariant, PartUnderTest

\* Each step of the factoring preserves it.
LEMMA FactoringStepInvariant ==
  ASSUME FactorInvariant, TestInvariant, PartUnderTest, FactoringStep
  PROVE  FactorInvariant' /\ TestInvariant' /\ PartUnderTest' /\ fac'.x = fac.x
<1>1. fac \in FactorFrames /\ FactoringTypeOK /\ MaxSeeds \in Nat \ {0}
  BY FactoringAssumption DEF FactorInvariant
<1> DEFINE Kept == mr' = mr /\ fac'.pc # "test"
<1>2. ASSUME Kept
      PROVE  TestInvariant' /\ PartUnderTest'
  BY <1>2 DEF TestInvariant, MillerRabinTypeOK, SquaringInvariant, NoPrimeRejected,
              MillerRabinDone, PartUnderTest
<1>3. CASE RejectInput
  <2>1. fac' = [fac EXCEPT !.pc = "failed"] /\ mr' = mr
    BY <1>3 DEF RejectInput
  <2>2. fac' \in FactorFrames /\ fac'.pc = "failed" /\ fac'.x = fac.x /\ fac'.stack = fac.stack
        /\ fac'.factors = fac.factors /\ fac'.c = fac.c
    BY <1>1, <2>1 DEF FactorFrames
  <2>3. QED
    BY <1>1, <1>2, <2>1, <2>2 DEF FactorInvariant, FactoringTypeOK
<1>4. CASE PowerOfTwoOnly
  <2> DEFINE fs == {2}
  <2>1. fac' = [fac EXCEPT !.pc = "done", !.factors = fs] /\ mr' = mr /\ fac.x > 1
    BY <1>4 DEF PowerOfTwoOnly
  <2>2. fac.x \in Nat /\ fs \in SUBSET Nat
    BY <1>1 DEF FactorFrames
  <2>3. fs \subseteq 1 .. fac.x /\ 2 \in fs
    BY <2>1, <2>2
  <2> HIDE DEF fs
  <2>4. fac' \in FactorFrames /\ fac'.pc = "done" /\ fac'.x = fac.x /\ fac'.stack = fac.stack
        /\ fac'.factors = fs /\ fac'.c = fac.c
    BY <1>1, <2>1, <2>2 DEF FactorFrames
  <2>5. QED
    BY <1>1, <1>2, <2>1, <2>3, <2>4 DEF FactorInvariant, FactoringTypeOK
<1>5. CASE StripTwo
  <2> DEFINE o == OddPart(fac.x)
  <2>1. PICK fs :
          /\ fs \in {{}, {2}}
          /\ fac' = [fac EXCEPT !.pc = "loop", !.factors = fs, !.stack = <<o>>, !.depth = 1]
          /\ fac.x % 2 = 0 => 2 \in fs
    BY <1>5 DEF StripTwo, Even
  <2>2. mr' = mr /\ fac.x \in Nat /\ fac.x > 1 /\ o # 1
    BY <1>1, <1>5 DEF StripTwo, FactorFrames
  <2>3. o \in PartsOf(fac.x)
    BY <2>2, OddPartOf
  <2> HIDE DEF o
  <2>4. o \in Nat /\ o \in 1 .. fac.x
    BY <2>2, <2>3 DEF PartsOf
  <2> DEFINE stack == <<o>>
  <2>5. stack \in Seq(Nat) /\ stack \in Seq(1 .. fac.x) /\ stack \in Seq(PartsOf(fac.x))
    BY <2>3, <2>4
  <2> HIDE DEF stack
  <2>6. fac' \in FactorFrames /\ fac'.pc = "loop" /\ fac'.x = fac.x /\ fac'.stack = stack
        /\ fac'.factors = fs /\ fac'.c = fac.c
    <3>1. fs \in SUBSET Nat /\ 1 \in Nat
      BY <2>1
    <3>2. fac' = [fac EXCEPT !.pc = "loop", !.factors = fs, !.stack = stack, !.depth = 1]
      BY <2>1 DEF stack
    <3>3. QED
      BY <1>1, <2>5, <3>1, <3>2 DEF FactorFrames
  <2>7. FactoringTypeOK'
    <3>1. fs \subseteq 1 .. fac.x
      BY <2>1, <2>2
    <3>2. QED
      BY <1>1, <2>5, <2>6, <3>1 DEF FactoringTypeOK
  <2>8. QED
    BY <1>2, <2>1, <2>2, <2>5, <2>6, <2>7 DEF FactorInvariant
<1>6. CASE PopPart
  <2> DEFINE top == fac.stack[Len(fac.stack)]
             rest == SubSeq(fac.stack, 1, Len(fac.stack) - 1)
  <2>1. fac' = [fac EXCEPT !.pc = "test", !.n = top, !.stack = rest] /\ CallMillerRabin(top)
        /\ fac.stack # <<>> /\ fac.pc = "loop"
    BY <1>6 DEF PopPart
  <2>2. fac.x > 1 /\ fac.x \in Nat /\ fac.stack \in Seq(PartsOf(fac.x))
        /\ (fac.x % 2 = 0 => 2 \in fac.factors)
    BY <2>1 DEF FactorInvariant, FactorFrames
  <2>3. top \in PartsOf(fac.x) /\ rest \in Seq(PartsOf(fac.x))
    <3>1. Len(fac.stack) \in Nat \ {0}
      BY <2>1, <2>2, EmptySeq
    <3>2. \A i \in 1 .. Len(fac.stack) : fac.stack[i] \in PartsOf(fac.x)
      BY <2>2, ElementOfSeq
    <3>3. 1 \in Int /\ Len(fac.stack) - 1 \in Int
          /\ \A i \in 1 .. Len(fac.stack) - 1 : fac.stack[i] \in PartsOf(fac.x)
      BY <3>1, <3>2
    <3>4. rest \in Seq(PartsOf(fac.x))
      BY <3>3, SubSeqProperties
    <3>5. QED
      BY <3>1, <3>2, <3>4
  <2> HIDE DEF top, rest
  <2>4. top \in Nat
    BY <2>3 DEF PartsOf
  <2>5. PartsOf(fac.x) \subseteq Nat /\ PartsOf(fac.x) \subseteq 1 .. fac.x
    BY <2>2 DEF PartsOf
  <2>6. rest \in Seq(Nat) /\ rest \in Seq(1 .. fac.x)
    BY <2>3, <2>5, SeqMonotonic
  <2>7. fac' \in FactorFrames /\ fac'.pc = "test" /\ fac'.x = fac.x /\ fac'.stack = rest
        /\ fac'.factors = fac.factors /\ fac'.c = fac.c /\ fac'.n = top
    BY <1>1, <2>1, <2>4, <2>6 DEF FactorFrames
  <2>8. FactoringTypeOK'
    BY <1>1, <2>6, <2>7 DEF FactoringTypeOK
  <2>9. TestInvariant' /\ PartUnderTest'
    <3>1. TestInvariant'
      BY <2>1, <2>4, TestCalled
    <3>2. mr'.q = top /\ mr'.pc = "start"
      BY <2>1 DEF CallMillerRabin, NoTest
    <3>3. QED
      BY <2>7, <3>1, <3>2 DEF PartUnderTest
  <2>10. QED
    BY <2>2, <2>3, <2>7, <2>8, <2>9 DEF FactorInvariant
<1>7. CASE TestPart
  <2>1. TestInvariant'
    BY <1>7, TestStep DEF TestPart
  <2>2. mr'.q = mr.q /\ mr'.pc # "idle"
    BY <1>7, TestKeepsCandidate DEF TestPart
  <2>3. fac' = fac
    BY <1>7 DEF TestPart
  <2>4. QED
    BY <2>1, <2>2, <2>3 DEF FactorInvariant, FactoringTypeOK, PartUnderTest
<1>8. CASE RecordPrime
  <2> DEFINE fs == fac.factors \union {fac.n}
  <2>1. mr' = NoTest /\ mr.prime /\ mr.pc = "done" /\ fac.pc = "test"
        /\ \/ fac' = [fac EXCEPT !.pc = "failed"]
           \/ fac' = [fac EXCEPT !.pc = "loop", !.factors = fs]
    BY <1>8 DEF RecordPrime, MillerRabinDone
  <2>2. fac.n \in 1 .. fac.x /\ fac.n \in Nat /\ fac.x > 1 /\ fac.stack \in Seq(PartsOf(fac.x))
        /\ (fac.x % 2 = 0 => 2 \in fac.factors)
    BY <2>1 DEF FactorInvariant, FactorFrames, PartsOf
  <2>3. fac' \in FactorFrames /\ fac'.pc \in {"failed", "loop"} /\ fac'.x = fac.x
        /\ fac'.stack = fac.stack /\ fac'.factors \in {fac.factors, fs} /\ fac'.c = fac.c
    <3>1. fs \in SUBSET Nat
      BY <1>1, <2>2 DEF FactorFrames
    <3> HIDE DEF fs
    <3>2. CASE fac' = [fac EXCEPT !.pc = "failed"]
      BY <1>1, <3>2 DEF FactorFrames
    <3>3. CASE fac' = [fac EXCEPT !.pc = "loop", !.factors = fs]
      BY <1>1, <3>1, <3>3 DEF FactorFrames
    <3>4. QED
      BY <2>1, <3>2, <3>3
  <2>4. FactoringTypeOK'
    BY <1>1, <2>2, <2>3 DEF FactoringTypeOK
  <2>5. TestInvariant'
    <3>1. 0 \in Nat
      OBVIOUS
    <3>2. QED
      BY <2>1, <3>1, TestCalled
  <2>6. QED
    BY <2>2, <2>3, <2>4, <2>5 DEF FactorInvariant, PartUnderTest
<1>9. CASE StartRho
  <2>1. mr' = NoTest /\ ~mr.prime /\ mr.pc = "done" /\ fac.pc = "test"
        /\ fac' = [fac EXCEPT !.pc = "rho", !.c = 1, !.u = 2, !.v = 2]
    BY <1>9 DEF StartRho, MillerRabinDone
  <2>2. fac.x > 1 /\ fac.stack \in Seq(PartsOf(fac.x)) /\ fac.n \in PartsOf(fac.x)
        /\ (fac.x % 2 = 0 => 2 \in fac.factors)
    BY <2>1 DEF FactorInvariant
  <2>3. fac.n # 3
    BY <2>1 DEF PartUnderTest, TestInvariant
  <2>4. fac.n \in Nat /\ fac.n > 3
    BY <2>2, <2>3 DEF PartsOf
  <2>5. fac' \in FactorFrames /\ fac'.pc = "rho" /\ fac'.x = fac.x /\ fac'.c = 1
        /\ fac'.stack = fac.stack /\ fac'.factors = fac.factors /\ fac'.n = fac.n
        /\ fac'.u = 2 /\ fac'.v = 2
    BY <1>1, <2>1 DEF FactorFrames
  <2>6. FactoringTypeOK'
    BY <1>1, <2>4, <2>5 DEF FactoringTypeOK
  <2>7. TestInvariant'
    <3>1. 0 \in Nat
      OBVIOUS
    <3>2. QED
      BY <2>1, <3>1, TestCalled
  <2>8. QED
    BY <2>2, <2>4, <2>5, <2>6, <2>7 DEF FactorInvariant, PartUnderTest
<1>10. CASE RhoStep \/ NextSeed
  <2> DEFINE u == F(fac.u)
             v == F(F(fac.v))
             c == fac.c + 1
  <2>1. fac.pc = "rho" /\ mr' = mr
        /\ \/ fac' = [fac EXCEPT !.u = u, !.v = v]
           \/ c <= MaxSeeds /\ fac' = [fac EXCEPT !.c = c, !.u = 2, !.v = 2]
           \/ fac' = [fac EXCEPT !.pc = "failed"]
    BY <1>10 DEF RhoStep, NextSeed
  <2>2. fac.x > 1 /\ fac.stack \in Seq(PartsOf(fac.x)) /\ fac.n \in PartsOf(fac.x) /\ fac.n > 3
        /\ (fac.x % 2 = 0 => 2 \in fac.factors) /\ fac.c \in Nat /\ fac.u \in Nat /\ fac.v \in Nat
    BY <2>1 DEF FactorInvariant, FactorFrames
  <2>3. fac.n \in Nat \ {0} /\ u \in 0 .. fac.n - 1 /\ v \in 0 .. fac.n - 1
    <3>1. fac.n \in Nat \ {0}
      BY <2>2 DEF PartsOf
    <3>2. QED
      BY <2>2, <3>1, CollisionIs
  <2>4. c \in Nat /\ u \in Nat /\ v \in Nat
    BY <2>2, <2>3
  <2> HIDE DEF u, v, c
  <2>5. fac' \in FactorFrames /\ fac'.pc \in {"rho", "failed"} /\ fac'.x = fac.x
        /\ fac'.stack = fac.stack /\ fac'.factors = fac.factors /\ fac'.n = fac.n
        /\ (fac'.c = fac.c \/ (fac'.c = c /\ c <= MaxSeeds))
        /\ fac'.u \in {fac.u, u, 2} /\ fac'.v \in {fac.v, v, 2}
    <3>1. CASE fac' = [fac EXCEPT !.u = u, !.v = v]
      BY <1>1, <2>1, <2>4, <3>1 DEF FactorFrames
    <3>2. CASE c <= MaxSeeds /\ fac' = [fac EXCEPT !.c = c, !.u = 2, !.v = 2]
      BY <1>1, <2>1, <2>4, <3>2 DEF FactorFrames
    <3>3. CASE fac' = [fac EXCEPT !.pc = "failed"]
      BY <1>1, <3>3 DEF FactorFrames
    <3>4. QED
      BY <2>1, <3>1, <3>2, <3>3
  <2>6. FactoringTypeOK'
    BY <1>1, <2>1, <2>2, <2>3, <2>5 DEF FactoringTypeOK
  <2>7. QED
    BY <1>2, <2>1, <2>2, <2>5, <2>6 DEF FactorInvariant
<1>11. CASE Split
  <2> DEFINE d == Collision
             stack == fac.stack \o <<d, fac.n \div d>>
  <2>1. fac.pc = "rho" /\ mr' = mr /\ d \notin {1, fac.n}
        /\ \E depth \in {Len(stack), fac.depth} :
             fac' = [fac EXCEPT !.pc = "loop", !.stack = stack, !.depth = depth]
    BY <1>11 DEF Split, Push
  <2>2. fac.x > 1 /\ fac.stack \in Seq(PartsOf(fac.x)) /\ fac.n \in PartsOf(fac.x) /\ fac.n > 3
        /\ (fac.x % 2 = 0 => 2 \in fac.factors) /\ fac.c \in Nat /\ fac.u \in Nat /\ fac.v \in Nat
        /\ fac.x \in Nat /\ fac.depth \in Nat
    BY <1>1, <2>1 DEF FactorInvariant, FactorFrames
  <2>3. d \in Nat \ {0} /\ fac.n % d = 0
    <3>1. fac.n \in Nat \ {0}
      BY <2>2 DEF PartsOf
    <3>2. QED
      BY <2>2, <3>1, CollisionIs
  <2> HIDE DEF d
  <2>4. d \in PartsOf(fac.x) /\ fac.n \div d \in PartsOf(fac.x)
    BY <2>1, <2>2, <2>3, SplitParts
  <2>5. stack \in Seq(PartsOf(fac.x)) /\ Len(stack) \in Nat
    <3>1. <<d, fac.n \div d>> \in Seq(PartsOf(fac.x))
      BY <2>4
    <3>2. QED
      BY <2>2, <3>1, ConcatProperties, LenProperties
  <2>6. PartsOf(fac.x) \subseteq Nat /\ PartsOf(fac.x) \subseteq 1 .. fac.x
    BY <2>2 DEF PartsOf
  <2> HIDE DEF stack
  <2>7. stack \in Seq(Nat) /\ stack \in Seq(1 .. fac.x)
    BY <2>5, <2>6, SeqMonotonic
  <2>8. fac' \in FactorFrames /\ fac'.pc = "loop" /\ fac'.x = fac.x /\ fac'.stack = stack
        /\ fac'.factors = fac.factors /\ fac'.c = fac.c
    <3>1. PICK depth \in Nat :
            fac' = [fac EXCEPT !.pc = "loop", !.stack = stack, !.depth = depth]
      BY <2>1, <2>2, <2>5
    <3>2. QED
      BY <1>1, <2>7, <3>1 DEF FactorFrames
  <2>9. FactoringTypeOK'
    BY <1>1, <2>7, <2>8 DEF FactoringTypeOK
  <2>10. QED
    BY <1>2, <2>1, <2>2, <2>5, <2>8, <2>9 DEF FactorInvariant
<1>12. CASE Finish
  <2>1. fac' = [fac EXCEPT !.pc = "done"] /\ mr' = mr /\ fac.pc = "loop"
    BY <1>12 DEF Finish
  <2>2. fac' \in FactorFrames /\ fac'.pc = "done" /\ fac'.x = fac.x /\ fac'.stack = fac.stack
        /\ fac'.factors = fac.factors /\ fac'.c = fac.c
    BY <1>1, <2>1 DEF FactorFrames
  <2>3. QED
    BY <1>1, <1>2, <2>1, <2>2 DEF FactorInvariant, FactoringTypeOK
<1>13. QED
  BY <1>3, <1>4, <1>5, <1>6, <1>7, <1>8, <1>9, <1>10, <1>11, <1>12 DEF FactoringStep

-----------------------------------------------------------------------------
(***************************************************************************)
(* The square root                                                         *)
(***************************************************************************)

RootFrames ==
  [pc : {"idle", "start", "test", "order", "raise", "done", "failed"}, q : Nat \ {0}, a : Nat,
   M : Nat, c : Nat, t : Nat, R : Nat, i : Nat, tt : Nat, b : Nat, e : Nat, out : Nat]

\* R^2 = a * t
RootOf == IsRootOf(sq.R, sq.a, sq.t, sq.q)

\* What a prime modulus adds
Orders ==
  Prime(sq.q) =>
    IsPower(1, sq.t, 2^(sq.M - 1), sq.q) /\ IsPower(sq.q - 1, sq.c, 2^(sq.M - 1), sq.q)

(***************************************************************************)
(* Between the corrections too: the inner loop knows t^(2^i), and that     *)
(* t^(2^(i-1)) was not one, and b is c squared e times.                    *)
(***************************************************************************)
SqrtInvariant ==
  /\ sq \in RootFrames
  /\ SqrtModTypeOK
  /\ sq.pc = "start" => sq.i = 0
  /\ sq.pc # "idle" => sq.q > 2 /\ sq.q % 2 = 1
  /\ sq.pc \in {"test", "order", "raise"} => sq.M > 0 /\ RootOf /\ Orders
  /\ sq.pc = "order" => /\ sq.i < sq.M /\ (sq.i = 0 => sq.tt # 1)
                        /\ IsPower(sq.tt, sq.t, 2^sq.i, sq.q)
                        /\ sq.i # 0 => ~IsPower(1, sq.t, 2^(sq.i - 1), sq.q)
  /\ sq.pc = "raise" => /\ sq.i < sq.M /\ sq.i # 0
                        /\ IsPower(1, sq.t, 2^sq.i, sq.q)
                        /\ ~IsPower(1, sq.t, 2^(sq.i - 1), sq.q)
                        /\ IsPower(sq.b, sq.c, 2^sq.e, sq.q) /\ sq.e <= sq.M - sq.i - 1
  /\ RootIfAny

\* A call starts in it.
LEMMA SqrtCalled ==
  ASSUME NEW q \in Nat, q > 2, q % 2 = 1, NEW k \in Nat, CallSqrtMod(k, q) \/ sq' = NoRoot
  PROVE  SqrtInvariant'
<1>1. CASE CallSqrtMod(k, q)
  <2> DEFINE a == k % q
  <2>1. a \in 0 .. q - 1
    BY DivMod
  <2>2. sq' = [pc |-> "start", q |-> q, a |-> a, M |-> 0, c |-> 0, t |-> 0, R |-> 0,
               i |-> 0, tt |-> 0, b |-> 0, e |-> 0, out |-> 0]
    BY <1>1 DEF CallSqrtMod, NoRoot
  <2> HIDE DEF a
  <2>3. QED
    BY <2>1, <2>2 DEF SqrtInvariant, RootFrames, SqrtModTypeOK, RootIfAny
<1>2. CASE sq' = NoRoot
  BY <1>2 DEF SqrtInvariant, RootFrames, SqrtModTypeOK, RootIfAny, NoRoot
<1>3. QED
  BY <1>1, <1>2

\* The odd part of q - 1, and how often two divides it
LEMMA OddOfPhiIs ==
  ASSUME sq \in RootFrames, sq.q > 2, sq.q % 2 = 1
  PROVE  /\ OddOfPhi \in Nat /\ OddOfPhi % 2 = 1
         /\ TwoAdic \in 1 .. sq.q /\ SplitOf(sq.q, OddOfPhi, TwoAdic)
<1> DEFINE f == CHOOSE h : h = [j \in Nat |-> IF j % 2 = 0 THEN h[j \div 2] ELSE j]
           l == sq.q - 1
           o == OddOfPhi
<1>1. sq.q \in Nat /\ l \in Nat \ {0} /\ l % 2 = 0
  BY DEF RootFrames
<1>2. OddOfPhi = f[l]
  BY DEF OddOfPhi
<1>3. IsOddLoop(f)
  BY OddLoopExists DEF IsOddLoop
<1> HIDE DEF f, l
<1>4. o \in 1 .. l /\ o % 2 = 1 /\ \E s \in Nat : o * 2^s = l
  BY <1>1, <1>2, <1>3, OddLoopIs, Zenon
<1>5. PICK s \in Nat : o * 2^s = l
  BY <1>4
<1>6. o \in Nat \ {0}
  BY <1>1, <1>4
<1> HIDE DEF o
<1>7. s # 0
  <2>1. ASSUME s = 0 PROVE FALSE
    <3>1. 2^0 = 1 /\ o * 1 = o
      BY <1>6, PowersOfTwo
    <3>2. o = l
      BY <1>5, <2>1, <3>1
    <3>3. QED
      BY <1>1, <1>4, <3>2
  <2>2. QED
    BY <2>1
<1>8. s <= sq.q
  <2> DEFINE w == 2^s
  <2>1. w \in Nat /\ s < w /\ o * w = l
    BY <1>5, ExponentBound, PowersOfTwo
  <2> HIDE DEF w
  <2>2. w <= o * w
    BY <1>6, <2>1
  <2>3. l <= sq.q /\ l \in Nat
    BY <1>1 DEF l
  <2>4. QED
    BY <1>1, <2>1, <2>2, <2>3
<1>9. s \in 1 .. sq.q /\ OddOfPhi * 2^s = sq.q - 1
  BY <1>1, <1>5, <1>7, <1>8 DEF o, l
<1>10. TwoAdic \in 1 .. sq.q /\ OddOfPhi * 2^TwoAdic = sq.q - 1
  BY <1>9, Zenon DEF TwoAdic
<1>11. QED
  BY <1>4, <1>6, <1>10 DEF o, SplitOf

\* The first non-residue
LEMMA FirstNonResidueIs ==
  ASSUME sq \in RootFrames, NonResidues # {}
  PROVE  FirstNonResidue \in NonResidues /\ FirstNonResidue \in Nat
<1>1. NonResidues \in SUBSET Nat
  BY DEF NonResidues, RootFrames
<1>2. \E z \in NonResidues : \A y \in NonResidues : z <= y
  BY <1>1, LeastElement
<1>3. FirstNonResidue \in NonResidues
  BY <1>2 DEF FirstNonResidue
<1>4. QED
  BY <1>1, <1>3

\* Each step of the search preserves it.
LEMMA SqrtStep ==
  ASSUME SqrtInvariant, SqrtModStep
  PROVE  SqrtInvariant' /\ sq'.q = sq.q /\ sq'.a = sq.a
<1>1. sq \in RootFrames /\ SqrtModTypeOK /\ RootIfAny
  BY DEF SqrtInvariant
<1>2. sq.pc # "idle"
  BY DEF SqrtModStep, SqrtOfZero, SqrtDirect, SqrtRefused, StartTonelli, LoopTest, SquareT,
         OrderFound, RaiseB, Correct
<1>3. sq.q \in Nat \ {0, 1} /\ sq.q > 2 /\ sq.q % 2 = 1 /\ sq.a \in 0 .. sq.q - 1
      /\ sq.R \in 0 .. sq.q - 1 /\ sq.t \in 0 .. sq.q - 1 /\ sq.c \in 0 .. sq.q - 1
      /\ sq.b \in 0 .. sq.q - 1 /\ sq.tt \in 0 .. sq.q - 1
  BY <1>1, <1>2 DEF SqrtInvariant, SqrtModTypeOK, RootFrames
<1>4. sq.a \in Nat /\ sq.R \in Nat /\ sq.t \in Nat /\ sq.c \in Nat /\ sq.b \in Nat
      /\ sq.tt \in Nat /\ sq.M \in Nat /\ sq.i \in Nat /\ sq.e \in Nat
  BY <1>1 DEF RootFrames
<1>5. sq.M \in 0 .. sq.q /\ sq.i \in 0 .. sq.M /\ sq.e \in 0 .. sq.q
  BY <1>1 DEF SqrtModTypeOK
\* A root that is returned
<1>6. ASSUME NEW root \in 0 .. sq.q - 1, Succeed(root), MulMod(root, root, sq.q) = sq.a
      PROVE  SqrtInvariant' /\ sq'.q = sq.q /\ sq'.a = sq.a
  <2>1. sq' = [sq EXCEPT !.pc = "done", !.out = root]
    BY <1>6 DEF Succeed
  <2>2. root \in Nat
    BY <1>3
  <2>3. sq' \in RootFrames /\ sq'.pc = "done" /\ sq'.out = root /\ sq'.q = sq.q /\ sq'.a = sq.a
        /\ sq'.R = sq.R /\ sq'.t = sq.t /\ sq'.c = sq.c /\ sq'.b = sq.b /\ sq'.tt = sq.tt
        /\ sq'.M = sq.M /\ sq'.i = sq.i /\ sq'.e = sq.e
    BY <1>1, <2>1, <2>2 DEF RootFrames
  <2>4. SqrtModTypeOK'
    BY <1>1, <1>6, <2>3 DEF SqrtModTypeOK
  <2>5. RootIfAny'
    BY <1>6, <2>3 DEF RootIfAny
  <2>6. QED
    BY <1>3, <2>3, <2>4, <2>5 DEF SqrtInvariant
\* A refusal
<1>7. ASSUME sq' = [sq EXCEPT !.pc = "failed"], Prime(sq.q) => sq.a \notin Squares(sq.q)
      PROVE  SqrtInvariant' /\ sq'.q = sq.q /\ sq'.a = sq.a
  <2>1. sq' \in RootFrames /\ sq'.pc = "failed" /\ sq'.out = sq.out /\ sq'.q = sq.q
        /\ sq'.a = sq.a /\ sq'.R = sq.R /\ sq'.t = sq.t /\ sq'.c = sq.c /\ sq'.b = sq.b
        /\ sq'.tt = sq.tt /\ sq'.M = sq.M /\ sq'.i = sq.i /\ sq'.e = sq.e
    BY <1>1, <1>7 DEF RootFrames
  <2>2. SqrtModTypeOK'
    BY <1>1, <2>1 DEF SqrtModTypeOK
  <2>3. RootIfAny'
    BY <1>7, <2>1 DEF RootIfAny
  <2>4. QED
    BY <1>3, <2>1, <2>2, <2>3 DEF SqrtInvariant
<1>8. CASE SqrtOfZero
  <2>1. sq.a = 0 /\ Succeed(0) /\ 0 \in 0 .. sq.q - 1
    BY <1>3, <1>8 DEF SqrtOfZero
  <2>2. MulMod(0, 0, sq.q) = 0
    <3>1. 0 * 0 = 0 /\ 0 % sq.q = 0
      BY <1>3
    <3>2. QED
      BY <3>1 DEF MulMod
  <2>3. QED
    BY <1>6, <2>1, <2>2
<1>9. CASE SqrtDirect
  <2> DEFINE root == ModPow(sq.a, (sq.q + 1) \div 4, sq.q)
  <2>1. Succeed(root) /\ sq.q % 4 = 3 /\ ModPow(sq.a, (sq.q - 1) \div 2, sq.q) = 1
    BY <1>9 DEF SqrtDirect, Euler
  <2>2. root \in 0 .. sq.q - 1
    <3>1. (sq.q + 1) \div 4 \in Nat
      BY <1>3
    <3>2. QED
      BY <1>3, <1>4, <3>1, ModPowType
  <2>3. MulMod(root, root, sq.q) = sq.a
    BY <1>3, <2>1, DirectRoot
  <2> HIDE DEF root
  <2>4. QED
    BY <1>6, <2>1, <2>2, <2>3
<1>10. CASE SqrtRefused
  <2>1. sq' = [sq EXCEPT !.pc = "failed"] /\ sq.a # 0
        /\ (Euler(sq.a) # 1 \/ NonResidues = {})
    BY <1>10 DEF SqrtRefused
  <2>2. ASSUME Prime(sq.q)
        PROVE  sq.a \notin Squares(sq.q)
    <3>1. sq.q \in Nat /\ sq.q # 2
      BY <1>3
    <3>2. NonResidues # {}
      BY <2>2, <3>1, NonResidueExists DEF NonResidues, Euler
    <3>3. ASSUME NEW s \in 0 .. sq.q - 1, sq.a = MulMod(s, s, sq.q)
          PROVE  Euler(sq.a) = 1
      BY <2>1, <2>2, <3>1, <3>3, SquareHasEuler DEF Euler
    <3>4. QED
      BY <2>1, <3>2, <3>3 DEF Squares
  <2>3. QED
    BY <1>7, <2>1, <2>2
<1>11. CASE StartTonelli
  <2> DEFINE o == OddOfPhi
             s == TwoAdic
             z == FirstNonResidue
             h == (o + 1) \div 2
             c == ModPow(z, o, sq.q)
             t == ModPow(sq.a, o, sq.q)
             R == ModPow(sq.a, h, sq.q)
  <2>1. sq' = [sq EXCEPT !.pc = "test", !.M = s, !.c = c, !.t = t, !.R = R]
        /\ Euler(sq.a) = 1 /\ NonResidues # {}
    BY <1>11 DEF StartTonelli
  <2>2. z \in Nat /\ Euler(z) = sq.q - 1
    BY <1>1, <2>1, FirstNonResidueIs DEF NonResidues
  <2>3. o \in Nat /\ o % 2 = 1 /\ s \in 1 .. sq.q /\ SplitOf(sq.q, o, s)
    BY <1>1, <1>3, OddOfPhiIs
  <2>4. s \in Nat \ {0} /\ h \in Nat /\ h + h = o + 1
    <3> HIDE DEF o, s
    <3>1. s \in Nat \ {0}
      BY <1>3, <2>3
    <3>2. h \in Nat /\ h + h = o + 1
      BY <2>3
    <3>3. QED
      BY <3>1, <3>2
  <2> HIDE DEF o, s, z, h
  <2>5. c \in 0 .. sq.q - 1 /\ t \in 0 .. sq.q - 1 /\ R \in 0 .. sq.q - 1
    BY <1>3, <1>4, <2>2, <2>3, <2>4, ModPowType
  <2>6. IsRootOf(R, sq.a, t, sq.q)
    BY <1>3, <2>3, <2>4, HalfPower DEF IsRootOf
  <2>7. IsPower(1, t, 2^(s - 1), sq.q) /\ IsPower(sq.q - 1, c, 2^(s - 1), sq.q)
    <3>1. \A y \in Nat : IsPower(Euler(y), ModPow(y, o, sq.q), 2^(s - 1), sq.q)
      BY <1>3, <2>3, <2>4, EulerOfOddPower DEF Euler
    <3>2. QED
      BY <1>4, <2>1, <2>2, <3>1
  <2> HIDE DEF c, t, R
  <2>8. sq' \in RootFrames /\ sq'.pc = "test" /\ sq'.out = sq.out /\ sq'.q = sq.q
        /\ sq'.a = sq.a /\ sq'.R = R /\ sq'.t = t /\ sq'.c = c /\ sq'.b = sq.b
        /\ sq'.tt = sq.tt /\ sq'.M = s /\ sq'.i = sq.i /\ sq'.e = sq.e
    <3>1. c \in Nat /\ t \in Nat /\ R \in Nat /\ s \in Nat
      BY <1>3, <2>4, <2>5
    <3>2. QED
      BY <1>1, <2>1, <3>1 DEF RootFrames
  <2>9. SqrtModTypeOK'
    <3>1. sq.i = 0
      BY <1>11 DEF SqrtInvariant, StartTonelli
    <3>2. 0 \in 0 .. s /\ s \in 0 .. sq.q
      BY <1>3, <2>3, <2>4
    <3>3. QED
      BY <1>1, <2>5, <2>8, <3>1, <3>2 DEF SqrtModTypeOK
  <2>10. QED
    BY <1>3, <2>4, <2>6, <2>7, <2>8, <2>9
       DEF SqrtInvariant, RootOf, IsRootOf, Orders, RootIfAny
<1>12. CASE LoopTest
  <2>1. sq.pc = "test" /\ RootOf /\ Orders /\ sq.M > 0
    BY <1>12 DEF LoopTest, SqrtInvariant
  <2>2. CASE sq.t = 1
    <3>1. Succeed(sq.R)
      BY <1>12, <2>2 DEF LoopTest
    <3>2. MulMod(sq.a, 1, sq.q) = sq.a
      <4>1. sq.a % sq.q = sq.a
        BY <1>3
      <4>2. QED
        BY <1>3, <1>4, <4>1, MulModRing
    <3>3. MulMod(sq.R, sq.R, sq.q) = sq.a
      BY <2>1, <2>2, <3>2 DEF RootOf, IsRootOf
    <3>4. QED
      BY <1>3, <1>6, <3>1, <3>3
  <2>3. CASE sq.t # 1
    <3>1. sq' = [sq EXCEPT !.pc = "order", !.i = 0, !.tt = sq.t]
      BY <1>12, <2>3 DEF LoopTest
    <3>2. sq' \in RootFrames /\ sq'.pc = "order" /\ sq'.out = sq.out /\ sq'.q = sq.q
          /\ sq'.a = sq.a /\ sq'.R = sq.R /\ sq'.t = sq.t /\ sq'.c = sq.c /\ sq'.b = sq.b
          /\ sq'.tt = sq.t /\ sq'.M = sq.M /\ sq'.i = 0 /\ sq'.e = sq.e
      BY <1>1, <1>4, <3>1 DEF RootFrames
    <3>3. SqrtModTypeOK'
      BY <1>1, <1>3, <1>4, <3>2 DEF SqrtModTypeOK
    <3>4. IsPower(sq.t, sq.t, 2^0, sq.q)
      <4>1. 2^0 = 1
        BY PowersOfTwo
      <4>2. ModPow(sq.t, 1, sq.q) = sq.t
        <5>1. sq.t % sq.q = sq.t
          BY <1>3
        <5>2. QED
          BY <1>3, <1>4, <5>1, ModPowType
      <4>3. QED
        BY <4>1, <4>2 DEF IsPower
    <3>5. QED
      BY <1>3, <2>1, <2>3, <3>2, <3>3, <3>4 DEF SqrtInvariant, RootOf, Orders, RootIfAny
  <2>4. QED
    BY <2>2, <2>3
<1>13. CASE SquareT
  <2> DEFINE y == MulMod(sq.tt, sq.tt, sq.q)
             k == sq.i + 1
  <2>1. sq.pc = "order" /\ sq.tt # 1 /\ RootOf /\ Orders /\ sq.M > 0 /\ sq.i < sq.M
        /\ IsPower(sq.tt, sq.t, 2^sq.i, sq.q)
    BY <1>13 DEF SquareT, SqrtInvariant
  <2>2. y \in 0 .. sq.q - 1 /\ IsPower(y, sq.t, 2^k, sq.q)
    <3>1. y \in 0 .. sq.q - 1
      BY <1>3, <1>4, MulModType
    <3>2. IsPower(MulMod(sq.tt, sq.tt, sq.q), sq.t, 2^(sq.i + 1), sq.q)
      BY <1>3, <1>4, <2>1, TwoPowerSquared
    <3>3. QED
      BY <3>1, <3>2
  <2>3. ~IsPower(1, sq.t, 2^sq.i, sq.q)
    BY <2>1 DEF IsPower
  <2>4. k \in Nat /\ k - 1 = sq.i /\ k # 0 /\ k <= sq.M
    BY <1>4, <2>1
  <2>5. PICK p \in {"order", "failed"} :
          /\ sq' = [sq EXCEPT !.tt = y, !.i = k, !.pc = p]
          /\ p = "failed" <=> k = sq.M
    BY <1>13, <2>1 DEF SquareT, Squared
  <2> HIDE DEF y, k
  <2>6. sq' \in RootFrames /\ sq'.pc = p /\ sq'.out = sq.out /\ sq'.q = sq.q
        /\ sq'.a = sq.a /\ sq'.R = sq.R /\ sq'.t = sq.t /\ sq'.c = sq.c /\ sq'.b = sq.b
        /\ sq'.tt = y /\ sq'.M = sq.M /\ sq'.i = k /\ sq'.e = sq.e
    <3>1. y \in Nat
      BY <1>3, <2>2
    <3>2. QED
      BY <1>1, <2>4, <2>5, <3>1 DEF RootFrames
  <2>7. SqrtModTypeOK'
    <3>1. k \in 0 .. sq.M
      BY <1>4, <2>4
    <3>2. QED
      BY <1>1, <2>2, <2>5, <2>6, <3>1 DEF SqrtModTypeOK
  <2>8. CASE p = "failed"
    <3>1. sq.M - 1 = sq.i
      BY <2>4, <2>5, <2>8
    <3>2. ~Prime(sq.q)
      BY <2>1, <2>3, <3>1 DEF Orders
    <3>3. QED
      BY <1>3, <2>6, <2>7, <2>8, <3>2 DEF SqrtInvariant, RootIfAny
  <2>9. CASE p = "order"
    <3>1. k < sq.M
      BY <1>4, <2>4, <2>5, <2>9
    <3>2. QED
      BY <1>3, <2>1, <2>2, <2>3, <2>4, <2>6, <2>7, <2>9, <3>1
         DEF SqrtInvariant, RootOf, Orders, RootIfAny
  <2>10. QED
    BY <2>5, <2>8, <2>9
<1>14. CASE OrderFound
  <2>1. sq.pc = "order" /\ sq.tt = 1 /\ RootOf /\ Orders /\ sq.M > 0 /\ sq.i < sq.M
        /\ IsPower(sq.tt, sq.t, 2^sq.i, sq.q) /\ sq.i # 0
        /\ ~IsPower(1, sq.t, 2^(sq.i - 1), sq.q)
    BY <1>14 DEF OrderFound, SqrtInvariant
  <2>2. sq' = [sq EXCEPT !.pc = "raise", !.b = sq.c, !.e = 0]
    BY <1>14 DEF OrderFound
  <2>3. sq' \in RootFrames /\ sq'.pc = "raise" /\ sq'.out = sq.out /\ sq'.q = sq.q
        /\ sq'.a = sq.a /\ sq'.R = sq.R /\ sq'.t = sq.t /\ sq'.c = sq.c /\ sq'.b = sq.c
        /\ sq'.tt = sq.tt /\ sq'.M = sq.M /\ sq'.i = sq.i /\ sq'.e = 0
    BY <1>1, <1>4, <2>2 DEF RootFrames
  <2>4. SqrtModTypeOK'
    BY <1>1, <1>3, <2>1, <2>3 DEF SqrtModTypeOK
  <2>5. IsPower(sq.c, sq.c, 2^0, sq.q)
    <3>1. 2^0 = 1
      BY PowersOfTwo
    <3>2. ModPow(sq.c, 1, sq.q) = sq.c
      <4>1. sq.c % sq.q = sq.c
        BY <1>3
      <4>2. QED
        BY <1>3, <1>4, <4>1, ModPowType
    <3>3. QED
      BY <3>1, <3>2 DEF IsPower
  <2>6. 0 <= sq.M - sq.i - 1
    BY <1>4, <2>1
  <2>7. QED
    BY <1>3, <2>1, <2>3, <2>4, <2>5, <2>6 DEF SqrtInvariant, RootOf, Orders, RootIfAny
<1>15. CASE RaiseB
  <2> DEFINE y == MulMod(sq.b, sq.b, sq.q)
             k == sq.e + 1
  <2>1. sq.pc = "raise" /\ RootOf /\ Orders /\ sq.M > 0 /\ sq.i < sq.M /\ sq.i # 0
        /\ IsPower(1, sq.t, 2^sq.i, sq.q) /\ ~IsPower(1, sq.t, 2^(sq.i - 1), sq.q)
        /\ IsPower(sq.b, sq.c, 2^sq.e, sq.q) /\ sq.e < sq.M - sq.i - 1
    BY <1>15 DEF RaiseB, SqrtInvariant
  <2>2. sq' = [sq EXCEPT !.b = y, !.e = k]
    BY <1>15 DEF RaiseB, Squared
  <2>3. y \in 0 .. sq.q - 1 /\ IsPower(y, sq.c, 2^k, sq.q)
    <3>1. y \in 0 .. sq.q - 1
      BY <1>3, <1>4, MulModType
    <3>2. IsPower(MulMod(sq.b, sq.b, sq.q), sq.c, 2^(sq.e + 1), sq.q)
      BY <1>3, <1>4, <2>1, TwoPowerSquared
    <3>3. QED
      BY <3>1, <3>2
  <2>4. k \in Nat /\ k <= sq.M - sq.i - 1 /\ k \in 0 .. sq.q
    <3>1. sq.e < sq.M - sq.i - 1
      BY <2>1
    <3>2. sq.M <= sq.q
      BY <1>5
    <3>3. sq.q \in Nat
      BY <1>3
    <3>4. QED
      BY <1>4, <3>1, <3>2, <3>3
  <2> HIDE DEF y, k
  <2>5. sq' \in RootFrames /\ sq'.pc = "raise" /\ sq'.out = sq.out /\ sq'.q = sq.q
        /\ sq'.a = sq.a /\ sq'.R = sq.R /\ sq'.t = sq.t /\ sq'.c = sq.c /\ sq'.b = y
        /\ sq'.tt = sq.tt /\ sq'.M = sq.M /\ sq'.i = sq.i /\ sq'.e = k
    <3>1. y \in Nat
      BY <1>3, <2>3
    <3>2. QED
      BY <1>1, <2>1, <2>2, <2>4, <3>1 DEF RootFrames
  <2>6. SqrtModTypeOK'
    BY <1>1, <2>1, <2>3, <2>4, <2>5 DEF SqrtModTypeOK
  <2>7. QED
    BY <1>3, <2>1, <2>3, <2>4, <2>5, <2>6 DEF SqrtInvariant, RootOf, Orders, RootIfAny
<1>16. CASE Correct
  <2> DEFINE B == MulMod(sq.b, sq.b, sq.q)
             t == MulMod(sq.t, B, sq.q)
             R == MulMod(sq.R, sq.b, sq.q)
  <2>1. sq.pc = "raise" /\ RootOf /\ Orders /\ sq.M > 0 /\ sq.i < sq.M /\ sq.i # 0
        /\ IsPower(1, sq.t, 2^sq.i, sq.q) /\ ~IsPower(1, sq.t, 2^(sq.i - 1), sq.q)
        /\ IsPower(sq.b, sq.c, 2^sq.e, sq.q)
    BY <1>16 DEF Correct, SqrtInvariant
  <2>2. sq' = [sq EXCEPT !.pc = "test", !.M = sq.i, !.c = B, !.t = t, !.R = R]
    BY <1>16 DEF Correct, Squared
  <2>3. sq.e = sq.M - sq.i - 1
    <3>1. sq.e >= sq.M - sq.i - 1 /\ sq.e <= sq.M - sq.i - 1
      BY <1>16 DEF Correct, SqrtInvariant
    <3>2. QED
      BY <1>4, <3>1
  <2>4. B \in 0 .. sq.q - 1 /\ B \in Nat
    <3>1. B \in 0 .. sq.q - 1
      BY <1>3, <1>4, MulModType
    <3>2. QED
      BY <1>3, <3>1
  <2>5. t \in 0 .. sq.q - 1 /\ R \in 0 .. sq.q - 1
    <3> HIDE DEF B
    <3>1. QED
      BY <1>3, <1>4, <2>4, MulModType
  <2>6. IsRootOf(R, sq.a, t, sq.q)
    <3>1. IsRootOf(sq.R, sq.a, sq.t, sq.q)
      BY <2>1 DEF RootOf
    <3>2. sq.q \in Nat \ {0}
      BY <1>3
    <3>3. QED
      BY <1>4, <3>1, <3>2, CorrectionKeeps, Zenon
  <2>7. Prime(sq.q) => IsPower(1, t, 2^(sq.i - 1), sq.q)
                       /\ IsPower(sq.q - 1, B, 2^(sq.i - 1), sq.q)
    <3> SUFFICES ASSUME Prime(sq.q)
                 PROVE  IsPower(1, t, 2^(sq.i - 1), sq.q)
                        /\ IsPower(sq.q - 1, B, 2^(sq.i - 1), sq.q)
      OBVIOUS
    <3>1. IsPower(sq.b, sq.c, 2^(sq.M - sq.i - 1), sq.q)
      BY <2>1, <2>3
    <3>2. IsPower(sq.q - 1, sq.c, 2^(sq.M - 1), sq.q)
      BY <2>1 DEF Orders
    <3>3. sq.i \in Nat \ {0} /\ sq.q \in Nat
      BY <1>3, <1>4, <2>1
    <3>4. QED
      BY <1>4, <2>1, <3>1, <3>2, <3>3, CorrectionOrders
  <2> HIDE DEF B, t, R
  <2>8. sq' \in RootFrames /\ sq'.pc = "test" /\ sq'.out = sq.out /\ sq'.q = sq.q
        /\ sq'.a = sq.a /\ sq'.R = R /\ sq'.t = t /\ sq'.c = B /\ sq'.b = sq.b
        /\ sq'.tt = sq.tt /\ sq'.M = sq.i /\ sq'.i = sq.i /\ sq'.e = sq.e
    <3>1. t \in Nat /\ R \in Nat
      BY <1>3, <2>5
    <3>2. QED
      BY <1>1, <1>4, <2>2, <2>4, <3>1 DEF RootFrames
  <2>9. SqrtModTypeOK'
    <3>1. sq.i \in 0 .. sq.i /\ sq.i \in 0 .. sq.q
      BY <1>3, <1>4, <1>5
    <3>2. QED
      BY <1>1, <2>4, <2>5, <2>8, <3>1 DEF SqrtModTypeOK
  <2>10. sq.i > 0
    BY <1>4, <2>1
  <2>11. QED
    BY <1>3, <2>6, <2>7, <2>8, <2>9, <2>10 DEF SqrtInvariant, RootOf, Orders, RootIfAny
<1>17. QED
  BY <1>8, <1>9, <1>10, <1>11, <1>12, <1>13, <1>14, <1>15, <1>16 DEF SqrtModStep

-----------------------------------------------------------------------------
(***************************************************************************)
(* The resolution                                                          *)
(***************************************************************************)

FramesInvariant == TestInvariant /\ FactorInvariant /\ PartUnderTest /\ SqrtInvariant

\* What is known at each point of the resolution
Progress ==
  /\ pc \in {"modulus", "prime", "domain", "resolve", "sqrt", "factors", "search", "done",
             "failed"}
  /\ g \in Nat \ {0, 1} /\ (g = 2 \/ g <= req.q)
  /\ pc \notin {"search", "done", "failed"} => g = 2
  /\ pc = "search" => g < req.q
  /\ pc \notin {"done", "failed"} => omega = req.omega /\ psi = req.psi
  /\ pc \in {"resolve", "sqrt", "factors", "search"} => Achievable
  /\ fac.pc = "test" => pc = "factors"
  /\ pc = "sqrt" => /\ Negacyclic /\ omega # 0 /\ psi = 0 /\ IsPrimitive(omega, req.n)
                    /\ sq.q = req.q /\ sq.a = omega % req.q
  /\ pc = "factors" => omega = 0 /\ psi = 0 /\ fac.x = req.q - 1
                       /\ req.q \notin DOMAIN KnownModuli
  /\ pc = "search" => /\ omega = 0 /\ psi = 0
                      /\ req.q % 2 = 1 => 2 \in FactorsOfPhi

(***************************************************************************)
(* The inductive invariant: the frames of the three calls, what is known   *)
(* at each point, and the properties themselves.                           *)
(***************************************************************************)
ResolutionInvariant ==
  /\ req \in Requests
  /\ omega \in 0 .. req.q - 1 \union {req.omega}
  /\ psi \in 0 .. req.q - 1 \union {req.psi}
  /\ FramesInvariant
  /\ Progress
  /\ RootsFit

\* The arguments
LEMMA RequestType ==
  ASSUME req \in Requests
  PROVE  /\ req.q \in Nat /\ req.n \in Nat /\ req.n < SizeBase /\ SizeBase \in Nat
         /\ req.omega \in Nat /\ req.psi \in Nat /\ req.adapter \in {"scalar", "toy"}
BY RootAssumption

\* The size is a power of two, and its double is one too unless it wraps to zero.
LEMMA SizeIs ==
  ASSUME req \in Requests, Achievable
  PROVE  /\ req.q \in Nat \ {0, 1, 2} /\ req.n \in Nat \ {0}
         /\ \E k \in Nat : req.n = 2^k
         /\ Double = 0 \/ Double = 2 * req.n
<1>1. req.q \in Nat /\ req.n \in Nat /\ req.n < SizeBase /\ req.q > 2
  BY RequestType DEF Achievable
<1>2. PICK k \in Nat : req.n = 2^k
  BY <1>1 DEF Achievable, PowerOfTwo
<1>3. req.n \in Nat \ {0}
  BY <1>2, PowersOfTwo
<1>4. PICK m \in Nat : SizeBase = 2^m
  BY RootAssumption
<1>5. SizeBase % (2 * req.n) = 0
  <2>1. k < m
    <3>1. ASSUME m <= k
          PROVE  FALSE
      <4>1. k - m \in Nat /\ m + (k - m) = k
        BY <3>1
      <4> DEFINE u == 2^m
                 v == 2^(k - m)
      <4>2. u \in Nat \ {0} /\ v \in Nat \ {0} /\ req.n = u * v
        BY <1>2, <4>1, PowersOfTwo, TwoPowSum
      <4>3. u = SizeBase
        BY <1>4
      <4> HIDE DEF u, v
      <4>4. u <= u * v
        BY <4>2
      <4>5. QED
        BY <1>1, <4>2, <4>3, <4>4
    <3>2. QED
      BY <3>1
  <2>2. m - (k + 1) \in Nat /\ k + 1 \in Nat /\ (m - (k + 1)) + (k + 1) = m
    BY <2>1
  <2> DEFINE u == 2^(m - (k + 1))
             v == 2^(k + 1)
  <2>3. SizeBase = u * v /\ u \in Nat
    BY <1>4, <2>2, TwoPowSum, PowersOfTwo
  <2>4. v = 2 * req.n
    BY <1>2, PowersOfTwo
  <2> HIDE DEF u, v
  <2>5. SizeBase = u * (2 * req.n) /\ 2 * req.n \in Nat \ {0} /\ SizeBase \in Nat
    BY <1>3, <2>3, <2>4, RootAssumption
  <2> DEFINE w == 2 * req.n
  <2> HIDE DEF w
  <2>6. SizeBase = u * w /\ w \in Nat \ {0} /\ SizeBase \in Nat
    BY <2>5 DEF w
  <2>7. SizeBase % w = 0
    BY <2>3, <2>6, Multiple
  <2>8. QED
    BY <2>7 DEF w
<1>6. 2 * req.n <= SizeBase
  <2> DEFINE w == 2 * req.n
  <2>1. w \in Nat \ {0} /\ SizeBase \in Nat /\ SizeBase # 0 /\ SizeBase % w = 0
    BY <1>1, <1>3, <1>5, RootAssumption
  <2> HIDE DEF w
  <2>2. w <= SizeBase
    BY <2>1
  <2>3. QED
    BY <2>2 DEF w
<1>7. Double = 0 \/ Double = 2 * req.n
  <2>1. 2 * req.n < SizeBase \/ 2 * req.n = SizeBase
    <3>1. 2 * req.n \in Nat /\ SizeBase \in Nat
      BY <1>1, RootAssumption
    <3>2. QED
      BY <1>6, <3>1
  <2>2. SizeBase \in Nat \ {0}
    BY <1>1, RootAssumption
  <2>3. QED
    BY <1>3, <2>1, <2>2 DEF Double
<1>8. QED
  BY <1>1, <1>2, <1>3, <1>7

\* A prime modulus above 2 is odd, and so is every modulus of a negacyclic transform.
LEMMA ModulusIsOdd ==
  ASSUME req \in Requests, Achievable, Prime(req.q) \/ Negacyclic
  PROVE  req.q % 2 = 1
<1>1. req.q \in Nat \ {0, 1, 2} /\ req.n \in Nat \ {0}
  BY SizeIs
<1>2. CASE Prime(req.q)
  BY <1>1, <1>2, SmallPrimes
<1>3. CASE Negacyclic
  <2> DEFINE o == 2 * req.n
             l == req.q - 1
  <2>1. o \in Nat \ {0} /\ l \in Nat /\ l % o = 0
    BY <1>1, <1>3 DEF Achievable, Order, Divides
  <2>2. o % 2 = 0
    BY <1>1
  <2> HIDE DEF o, l
  <2>3. l % 2 = 0
    <3>1. 2 \in Nat \ {0} /\ o \in Nat \ {0} /\ l \in Nat
      BY <2>1
    <3>2. QED
      BY <2>1, <2>2, <3>1, DividesTransitive
  <2>4. QED
    BY <1>1, <2>3 DEF l
<1>4. QED
  BY <1>2, <1>3

\* The start
LEMMA ResolutionStarts ==
  ASSUME Init
  PROVE  ResolutionInvariant
<1>1. /\ req \in Requests /\ omega = req.omega /\ psi = req.psi /\ g = 2 /\ pc = "modulus"
      /\ mr = [pc |-> "idle", q |-> 0, d |-> 0, s |-> 0, i |-> 1, x |-> 0, r |-> 1,
               prime |-> FALSE]
      /\ fac = [pc |-> "idle", x |-> 0, factors |-> {}, stack |-> <<>>, n |-> 0, c |-> 0,
                u |-> 0, v |-> 0, depth |-> 0]
      /\ sq = [pc |-> "idle", q |-> 1, a |-> 0, M |-> 0, c |-> 0, t |-> 0, R |-> 0, i |-> 0,
               tt |-> 0, b |-> 0, e |-> 0, out |-> 0]
  BY DEF Init, NoTest, NoFactoring, NoRoot
<1>2. Len(Witnesses) \in Nat /\ MaxSeeds \in Nat
  BY PrimalityAssumption, FactoringAssumption
<1>3. TestInvariant
  BY <1>1, <1>2 DEF TestInvariant, TestFrames, MillerRabinTypeOK, SquaringInvariant,
                    NoPrimeRejected, MillerRabinDone
<1>4. FactorInvariant /\ PartUnderTest
  <2>1. <<>> \in Seq(Nat) /\ <<>> \in Seq(1 .. 0) /\ {} \in SUBSET Nat
    BY EmptySeq
  <2>2. fac \in FactorFrames
    BY <1>1, <2>1 DEF FactorFrames
  <2>3. FactoringTypeOK
    BY <1>1, <1>2, <2>1 DEF FactoringTypeOK
  <2>4. QED
    BY <1>1, <2>2, <2>3 DEF FactorInvariant, PartUnderTest
<1>5. SqrtInvariant
  BY <1>1 DEF SqrtInvariant, RootFrames, SqrtModTypeOK, RootIfAny
<1>6. Progress
  BY <1>1 DEF Progress
<1>7. RootsFit
  BY <1>1 DEF RootsFit
<1>8. QED
  BY <1>1, <1>3, <1>4, <1>5, <1>6, <1>7 DEF ResolutionInvariant, FramesInvariant

\* Whoever leaves the frames alone keeps what is known of them.
LEMMA FramesKept ==
  ASSUME FramesInvariant, UNCHANGED frames
  PROVE  FramesInvariant'
<1>1. mr' = mr /\ fac' = fac /\ sq' = sq
  BY DEF frames
<1>2. TestInvariant'
  BY <1>1 DEF FramesInvariant, TestInvariant, MillerRabinTypeOK, SquaringInvariant,
              NoPrimeRejected, MillerRabinDone
<1>3. FactorInvariant' /\ PartUnderTest'
  BY <1>1 DEF FramesInvariant, FactorInvariant, FactoringTypeOK, PartUnderTest
<1>4. SqrtInvariant'
  BY <1>1 DEF FramesInvariant, SqrtInvariant, SqrtModTypeOK, RootIfAny, RootOf, Orders
<1>5. QED
  BY <1>2, <1>3, <1>4 DEF FramesInvariant

\* The same for a step that touches one of them
LEMMA OthersKept ==
  ASSUME FramesInvariant
  PROVE  /\ mr' = mr => TestInvariant'
         /\ fac' = fac => FactorInvariant' /\ (fac.pc # "test" => PartUnderTest')
         /\ sq' = sq => SqrtInvariant'
<1>1. mr' = mr => TestInvariant'
  BY DEF FramesInvariant, TestInvariant, MillerRabinTypeOK, SquaringInvariant,
         NoPrimeRejected, MillerRabinDone
<1>2. fac' = fac => FactorInvariant' /\ (fac.pc # "test" => PartUnderTest')
  BY DEF FramesInvariant, FactorInvariant, FactoringTypeOK, PartUnderTest
<1>3. sq' = sq => SqrtInvariant'
  BY DEF FramesInvariant, SqrtInvariant, SqrtModTypeOK, RootIfAny, RootOf, Orders
<1>4. QED
  BY <1>1, <1>2, <1>3

\* The steps up to ValidateDomain
LEMMA ValidationStep ==
  ASSUME ResolutionInvariant, ValidateModulus \/ ValidateDomain
  PROVE  ResolutionInvariant'
<1>1. /\ req \in Requests /\ FramesInvariant /\ Progress
      /\ req.q \in Nat
  BY RequestType DEF ResolutionInvariant
<1>2. /\ pc \in {"modulus", "prime", "domain"}
      /\ pc' \in {"prime", "domain", "resolve", "failed"}
      /\ UNCHANGED <<req, omega, psi, g, fac, sq>>
      /\ pc' = "resolve" => Achievable
      /\ \/ mr' = mr
         \/ pc = "modulus" /\ CallMillerRabin(req.q)
         \/ MillerRabinStep
         \/ mr' = NoTest
  <2>1. CASE ValidateModulusToy
    BY <2>1 DEF ValidateModulusToy, frames
  <2>2. CASE RefuseLargeModulus
    BY <2>2 DEF RefuseLargeModulus, frames
  <2>3. CASE TestModulus
    BY <2>3 DEF TestModulus
  <2>4. CASE RunTest
    BY <2>4 DEF RunTest
  <2>5. CASE ModulusTested
    BY <2>5 DEF ModulusTested
  <2>6. CASE ValidateDomain
    BY <2>6 DEF ValidateDomain, frames
  <2>7. QED
    BY <2>1, <2>2, <2>3, <2>4, <2>5, <2>6 DEF ValidateModulus
<1>3. fac.pc # "test"
  BY <1>1, <1>2 DEF Progress
<1>4. FactorInvariant' /\ PartUnderTest' /\ SqrtInvariant'
  BY <1>1, <1>2, <1>3, OthersKept
<1>5. TestInvariant'
  <2>1. TestInvariant /\ 0 \in Nat
    BY <1>1 DEF FramesInvariant
  <2>2. CASE mr' = mr
    BY <1>1, <2>2, OthersKept
  <2>3. CASE CallMillerRabin(req.q)
    BY <1>1, <2>3, TestCalled
  <2>4. CASE MillerRabinStep
    BY <2>1, <2>4, TestStep
  <2>5. CASE mr' = NoTest
    BY <2>1, <2>5, TestCalled
  <2>6. QED
    BY <1>2, <2>2, <2>3, <2>4, <2>5
<1>6. pc' = "resolve" => Achievable'
  BY <1>2 DEF Achievable, Order, Negacyclic
<1>7. Progress'
  BY <1>1, <1>2, <1>6 DEF Progress
<1>8. RootsFit'
  BY <1>2 DEF RootsFit
<1>9. QED
  BY <1>1, <1>2, <1>4, <1>5, <1>7, <1>8 DEF ResolutionInvariant, FramesInvariant

\* A given psi that passes the test fits, with its square.
LEMMA PsiFits ==
  ASSUME req \in Requests, Achievable, NEW p \in Nat, HasOrder(p, 2 * req.n, req.q)
  PROVE  /\ Fit(req, MulMod(p, p, req.q), p)
         /\ MulMod(p, p, req.q) \in 0 .. req.q - 1
<1>1. req.q \in Nat \ {0, 1} /\ req.n \in Nat \ {0}
  BY SizeIs
<1> DEFINE w == MulMod(p, p, req.q)
<1>2. HasOrder(w, req.n, req.q)
  BY <1>1, SquareHasHalfOrder
<1>3. w \in 0 .. req.q - 1
  BY <1>1, MulModType
<1> HIDE DEF w
<1>4. w % req.q = w
  BY <1>1, <1>3
<1>5. MulMod(p, p, req.q) = w % req.q
  BY <1>4 DEF w
<1>6. Fit(req, w, p)
  BY <1>2, <1>5 DEF Fit
<1>7. QED
  BY <1>3, <1>6 DEF w

\* The test of the code shows the order.
LEMMA GivenPsi ==
  ASSUME req \in Requests, Achievable, NEW p \in Nat, IsPrimitive(p, Double)
  PROVE  HasOrder(p, 2 * req.n, req.q)
<1>1. req.q \in Nat \ {0, 1} /\ Double = 2 * req.n
  BY SizeIs DEF IsPrimitive
<1>2. PICK k \in Nat : req.n = 2^k
  BY SizeIs
<1>3. k + 1 \in Nat /\ 2 * req.n = 2^(k + 1)
  BY <1>2, PowersOfTwo
<1> DEFINE o == 2 * req.n
<1>4. Primitive(p, o, req.q) /\ o = 2^(k + 1)
  BY <1>1, <1>3 DEF IsPrimitive, Primitive
<1> HIDE DEF o
<1>5. HasOrder(p, o, req.q)
  BY <1>1, <1>3, <1>4, PrimitiveHasOrder
<1>6. QED
  BY <1>5 DEF o

\* A root that is given has the order it was tested for.
LEMMA GivenOmega ==
  ASSUME req \in Requests, Achievable, NEW w \in Nat, IsPrimitive(w, req.n)
  PROVE  HasOrder(w, req.n, req.q)
<1>1. req.q \in Nat \ {0, 1}
  BY SizeIs
<1>2. PICK k \in Nat : req.n = 2^k
  BY SizeIs
<1>3. Primitive(w, req.n, req.q)
  BY DEF IsPrimitive, Primitive
<1>4. QED
  BY <1>1, <1>2, <1>3, PrimitiveHasOrder

\* Roots are given, and kept or completed.
LEMMA CompletionStep ==
  ASSUME ResolutionInvariant, CompleteRoots
  PROVE  ResolutionInvariant'
<1>1. /\ req \in Requests /\ FramesInvariant /\ Progress
      /\ req.q \in Nat /\ req.omega \in Nat /\ req.psi \in Nat
      /\ omega \in 0 .. req.q - 1 \union {req.omega}
      /\ psi \in 0 .. req.q - 1 \union {req.psi}
  BY RequestType DEF ResolutionInvariant
<1>2. /\ pc \in {"resolve", "sqrt"} /\ omega = req.omega /\ psi = req.psi /\ Achievable
      /\ g = 2 /\ fac.pc # "test"
  BY <1>1 DEF Progress, CompleteRoots, RefuseGiven, KeepGiven, OmegaFromPsi, SearchPsi, RunSqrt,
              PsiFound
<1>3. req.q \in Nat \ {0, 1, 2} /\ omega \in Nat /\ psi \in Nat
  BY <1>1, <1>2, SizeIs
<1>4. CASE RefuseGiven
  <2>1. pc' = "failed" /\ UNCHANGED <<req, omega, psi, g>> /\ UNCHANGED frames
    BY <1>4 DEF RefuseGiven
  <2>2. FramesInvariant' /\ fac' = fac
    BY <1>1, <2>1, FramesKept DEF frames
  <2>3. QED
    BY <1>1, <1>2, <2>1, <2>2 DEF ResolutionInvariant, Progress, RootsFit
<1>5. CASE KeepGiven
  <2>1. pc' = "done" /\ UNCHANGED <<req, omega, psi, g>> /\ UNCHANGED frames
        /\ GivenRootsFit /\ omega # 0 /\ (Negacyclic => psi # 0)
    BY <1>5 DEF KeepGiven
  <2>2. FramesInvariant' /\ fac' = fac
    BY <1>1, <2>1, FramesKept DEF frames
  <2>3. CASE Negacyclic
    <3>1. MulMod(psi, psi, req.q) = omega /\ IsPrimitive(psi, Double)
      BY <2>1, <2>3 DEF GivenRootsFit
    <3>2. Fit(req, omega, psi)
      BY <1>1, <1>2, <1>3, <3>1, GivenPsi, PsiFits
    <3>3. QED
      BY <1>1, <1>2, <2>1, <2>2, <3>2 DEF ResolutionInvariant, Progress, RootsFit
  <2>4. CASE ~Negacyclic
    <3>1. IsPrimitive(omega, req.n)
      BY <2>1, <2>4 DEF GivenRootsFit
    <3>2. Fit(req, omega, psi)
      BY <1>1, <1>2, <1>3, <2>4, <3>1, GivenOmega DEF Fit, Negacyclic
    <3>3. QED
      BY <1>1, <1>2, <2>1, <2>2, <3>2 DEF ResolutionInvariant, Progress, RootsFit
  <2>5. QED
    BY <2>3, <2>4
<1>6. CASE OmegaFromPsi
  <2> DEFINE w == MulMod(psi, psi, req.q)
  <2>1. pc' = "done" /\ UNCHANGED <<req, psi, g>> /\ UNCHANGED frames /\ omega' = w
        /\ GivenRootsFit /\ Negacyclic /\ psi # 0 /\ omega = 0
    BY <1>6 DEF OmegaFromPsi
  <2>2. FramesInvariant' /\ fac' = fac
    BY <1>1, <2>1, FramesKept DEF frames
  <2>3. IsPrimitive(psi, Double)
    BY <2>1 DEF GivenRootsFit
  <2>4. Fit(req, w, psi) /\ w \in 0 .. req.q - 1
    BY <1>1, <1>2, <1>3, <2>3, GivenPsi, PsiFits
  <2> HIDE DEF w
  <2>5. QED
    BY <1>1, <1>2, <2>1, <2>2, <2>4 DEF ResolutionInvariant, Progress, RootsFit
<1>7. CASE SearchPsi
  <2>1. pc' = "sqrt" /\ UNCHANGED <<req, omega, psi, g, mr, fac>> /\ CallSqrtMod(omega, req.q)
        /\ GivenRootsFit /\ Negacyclic /\ omega # 0 /\ psi = 0
    BY <1>7 DEF SearchPsi
  <2>2. req.q % 2 = 1
    BY <1>1, <1>2, <2>1, ModulusIsOdd
  <2>3. SqrtInvariant'
    BY <1>3, <2>1, <2>2, SqrtCalled
  <2>4. sq'.q = req.q /\ sq'.a = omega % req.q
    BY <2>1 DEF CallSqrtMod, NoRoot
  <2>5. TestInvariant' /\ FactorInvariant' /\ PartUnderTest'
    BY <1>1, <1>2, <2>1, OthersKept
  <2>6. Achievable' /\ Negacyclic' /\ IsPrimitive(omega, req.n)'
    BY <1>2, <2>1 DEF Achievable, Order, Negacyclic, GivenRootsFit, IsPrimitive
  <2>7. Progress'
    BY <1>1, <1>2, <2>1, <2>4, <2>6 DEF Progress
  <2>8. RootsFit'
    BY <2>1 DEF RootsFit
  <2>9. QED
    BY <1>1, <2>1, <2>3, <2>5, <2>7, <2>8 DEF ResolutionInvariant, FramesInvariant
<1>8. CASE RunSqrt
  <2>1. pc = "sqrt" /\ SqrtModStep /\ UNCHANGED <<req, omega, psi, g, pc, mr, fac>>
    BY <1>8 DEF RunSqrt
  <2>2. SqrtInvariant' /\ sq'.q = sq.q /\ sq'.a = sq.a
    BY <1>1, <2>1, SqrtStep DEF FramesInvariant
  <2>3. TestInvariant' /\ FactorInvariant' /\ PartUnderTest'
    BY <1>1, <1>2, <2>1, OthersKept
  <2>4. Negacyclic /\ omega # 0 /\ psi = 0 /\ IsPrimitive(omega, req.n) /\ sq.q = req.q
        /\ sq.a = omega % req.q
    BY <1>1, <2>1 DEF Progress
  <2>5. Achievable' /\ Negacyclic' /\ IsPrimitive(omega, req.n)'
    BY <1>2, <2>1, <2>4 DEF Achievable, Order, Negacyclic, IsPrimitive
  <2>6. Progress'
    BY <1>1, <1>2, <2>1, <2>2, <2>4, <2>5 DEF Progress
  <2>7. RootsFit'
    BY <2>1 DEF RootsFit
  <2>8. QED
    BY <1>1, <2>1, <2>2, <2>3, <2>6, <2>7 DEF ResolutionInvariant, FramesInvariant
<1>9. CASE PsiFound
  <2>1. pc = "sqrt" /\ sq' = NoRoot /\ UNCHANGED <<req, omega, g, mr, fac>>
        /\ \/ sq.pc = "done" /\ psi' = sq.out /\ pc' = "done"
           \/ pc' = "failed" /\ psi' = psi
    BY <1>9 DEF PsiFound
  <2>2. SqrtInvariant'
    <3>1. 3 \in Nat /\ 3 > 2 /\ 3 % 2 = 1 /\ 0 \in Nat
      OBVIOUS
    <3>2. QED
      BY <2>1, <3>1, SqrtCalled
  <2>3. TestInvariant' /\ FactorInvariant' /\ PartUnderTest'
    BY <1>1, <1>2, <2>1, OthersKept
  <2>4. Negacyclic /\ omega # 0 /\ psi = 0 /\ IsPrimitive(omega, req.n) /\ sq.q = req.q
        /\ sq.a = omega % req.q
    BY <1>1, <2>1 DEF Progress
  <2>5. CASE pc' = "failed" /\ psi' = psi
    BY <1>1, <1>2, <2>1, <2>2, <2>3, <2>5
       DEF ResolutionInvariant, FramesInvariant, Progress, RootsFit
  <2>6. CASE sq.pc = "done" /\ psi' = sq.out /\ pc' = "done"
    <3> DEFINE p == sq.out
    <3>1. p \in 0 .. req.q - 1 /\ MulMod(p, p, req.q) = omega % req.q
      BY <1>1, <2>4, <2>6 DEF FramesInvariant, SqrtInvariant, SqrtModTypeOK, RootIfAny
    <3>2. p \in Nat
      BY <1>3, <3>1
    <3> HIDE DEF p
    <3>3. Fit(req, omega, p) \/ Degenerate
      <4>1. CASE req.n = 1
        BY <1>2, <2>4, <4>1 DEF Degenerate
      <4>2. CASE req.n # 1
        <5>1. PICK k \in Nat : req.n = 2^k
          BY <1>1, <1>2, SizeIs
        <5>2. Primitive(omega, req.n, req.q)
          BY <2>4 DEF IsPrimitive, Primitive
        <5>3. req.q \in Nat \ {0, 1}
          BY <1>3
        <5>4. HasOrder(p, 2 * req.n, req.q)
          BY <1>3, <3>1, <3>2, <4>2, <5>1, <5>2, <5>3, RootHasDoubleOrder
        <5>5. HasOrder(omega, req.n, req.q)
          BY <1>1, <1>2, <1>3, <2>4, GivenOmega
        <5>6. QED
          BY <3>1, <5>4, <5>5 DEF Fit
      <4>3. QED
        BY <4>1, <4>2
    <3>4. RootsFit'
      BY <1>2, <2>1, <2>4, <2>6, <3>3 DEF RootsFit, Degenerate, Negacyclic, p
    <3>5. Progress'
      BY <1>1, <1>2, <2>1, <2>6 DEF Progress
    <3>6. psi' \in 0 .. req'.q - 1
      BY <2>1, <2>6, <3>1 DEF p
    <3>7. QED
      BY <1>1, <2>1, <2>2, <2>3, <3>4, <3>5, <3>6 DEF ResolutionInvariant, FramesInvariant
  <2>7. QED
    BY <2>1, <2>5, <2>6
<1>10. QED
  BY <1>4, <1>5, <1>6, <1>7, <1>8, <1>9 DEF CompleteRoots

\* The table knows that q - 1 is even.
LEMMA TableHasTwo == \A q \in DOMAIN KnownModuli : 2 \in KnownModuli[q]
BY DEF KnownModuli

\* The roots are derived from a generator.
LEMMA DerivationStep ==
  ASSUME ResolutionInvariant, DeriveRoots
  PROVE  ResolutionInvariant'
<1>1. /\ req \in Requests /\ FramesInvariant /\ Progress
      /\ req.q \in Nat
      /\ omega \in 0 .. req.q - 1 \union {req.omega}
      /\ psi \in 0 .. req.q - 1 \union {req.psi}
  BY RequestType DEF ResolutionInvariant
<1>2. /\ pc \in {"resolve", "factors", "search"} /\ omega = 0 /\ psi = 0
      /\ req.omega = 0 /\ req.psi = 0 /\ Achievable
      /\ g \in Nat \ {0, 1} /\ (g = 2 \/ g <= req.q) /\ (fac.pc = "test" => pc = "factors")
      /\ pc # "search" => g = 2
  BY <1>1 DEF Progress, DeriveRoots, FactorPhi, RunFactoring, PhiFactored, LookUpPhi,
              NextCandidate, RootsFromGenerator, NoRootsGiven
<1>3. req.q \in Nat \ {0, 1, 2} /\ req.n \in Nat \ {0}
  BY <1>1, <1>2, SizeIs
<1>4. ASSUME req' = req
      PROVE  Achievable' /\ (Negacyclic' <=> Negacyclic)
  BY <1>2, <1>4 DEF Achievable, Order, Negacyclic
<1>5. CASE FactorPhi
  <2>1. pc' = "factors" /\ UNCHANGED <<req, omega, psi, g, mr, sq>> /\ pc = "resolve"
        /\ CallDistinctPrimeFactors(req.q - 1) /\ req.q \notin DOMAIN KnownModuli
    BY <1>5 DEF FactorPhi, NoRootsGiven
  <2>2. req.q - 1 \in Nat
    BY <1>3
  <2>3. FactorInvariant' /\ PartUnderTest'
    BY <2>1, <2>2, FactoringCalled
  <2>4. fac'.x = req.q - 1
    BY <2>1 DEF CallDistinctPrimeFactors, NoFactoring
  <2>5. TestInvariant' /\ SqrtInvariant'
    BY <1>1, <2>1, OthersKept
  <2>6. Progress'
    BY <1>2, <1>4, <2>1, <2>4 DEF Progress
  <2>7. RootsFit'
    BY <2>1 DEF RootsFit
  <2>8. QED
    BY <1>1, <2>1, <2>3, <2>5, <2>6, <2>7 DEF ResolutionInvariant, FramesInvariant
<1>6. CASE RunFactoring
  <2>1. pc = "factors" /\ FactoringStep /\ UNCHANGED <<req, omega, psi, g, pc, sq>>
    BY <1>6 DEF RunFactoring
  <2>2. FactorInvariant' /\ TestInvariant' /\ PartUnderTest' /\ fac'.x = fac.x
    BY <1>1, <2>1, FactoringStepInvariant DEF FramesInvariant
  <2>3. SqrtInvariant'
    BY <1>1, <2>1, OthersKept
  <2>4. Progress'
    BY <1>1, <1>2, <1>4, <2>1, <2>2 DEF Progress
  <2>5. RootsFit'
    BY <2>1 DEF RootsFit
  <2>6. QED
    BY <1>1, <2>1, <2>2, <2>3, <2>4, <2>5 DEF ResolutionInvariant, FramesInvariant
<1>7. CASE PhiFactored
  <2>1. pc = "factors" /\ fac.pc \in {"done", "failed"} /\ pc' \in {"search", "failed"}
        /\ (pc' = "search" => fac.pc = "done")
        /\ UNCHANGED <<req, omega, psi, g>> /\ UNCHANGED frames
    BY <1>7 DEF PhiFactored, FactoringDone
  <2>2. FramesInvariant' /\ fac' = fac
    BY <1>1, <2>1, FramesKept DEF frames
  <2>3. req.q \notin DOMAIN KnownModuli /\ fac.x = req.q - 1
    BY <1>1, <2>1 DEF Progress
  <2>4. ASSUME pc' = "search", req.q % 2 = 1
        PROVE  2 \in FactorsOfPhi
    <3>1. fac.x % 2 = 0
      BY <1>3, <2>3, <2>4
    <3>2. 2 \in fac.factors
      BY <1>1, <2>1, <2>4, <3>1 DEF FramesInvariant, FactorInvariant
    <3>3. QED
      BY <2>3, <3>2 DEF FactorsOfPhi
  <2>5. FactorsOfPhi' = FactorsOfPhi
    BY <2>1, <2>2 DEF FactorsOfPhi
  <2>6. g = 2 /\ g < req.q
    BY <1>2, <1>3, <2>1
  <2>7. Progress'
    BY <1>2, <1>4, <2>1, <2>2, <2>4, <2>5, <2>6 DEF Progress
  <2>8. RootsFit'
    BY <2>1 DEF RootsFit
  <2>9. QED
    BY <1>1, <2>1, <2>2, <2>7, <2>8 DEF ResolutionInvariant
<1>8. CASE LookUpPhi
  <2>1. pc = "resolve" /\ pc' = "search" /\ req.q \in DOMAIN KnownModuli
        /\ UNCHANGED <<req, omega, psi, g>> /\ UNCHANGED frames
    BY <1>8 DEF LookUpPhi, NoRootsGiven
  <2>2. FramesInvariant' /\ fac' = fac
    BY <1>1, <2>1, FramesKept DEF frames
  <2>3. 2 \in FactorsOfPhi
    BY <2>1, TableHasTwo DEF FactorsOfPhi
  <2>4. FactorsOfPhi' = FactorsOfPhi
    BY <2>1, <2>2 DEF FactorsOfPhi
  <2>5. g = 2 /\ g < req.q
    BY <1>2, <1>3, <2>1
  <2>6. Progress'
    BY <1>2, <1>4, <2>1, <2>2, <2>3, <2>4, <2>5 DEF Progress
  <2>7. RootsFit'
    BY <2>1 DEF RootsFit
  <2>8. QED
    BY <1>1, <2>1, <2>2, <2>6, <2>7 DEF ResolutionInvariant
<1>9. CASE NextCandidate
  <2>1. pc = "search" /\ g' = g + 1 /\ pc' = (IF g' = req.q THEN "failed" ELSE pc)
        /\ UNCHANGED <<req, omega, psi>> /\ UNCHANGED frames
    BY <1>9 DEF NextCandidate
  <2>2. FramesInvariant' /\ fac' = fac
    BY <1>1, <2>1, FramesKept DEF frames
  <2>3. g < req.q
    BY <1>1, <1>3, <2>1 DEF Progress
  <2>4. g' \in Nat \ {0, 1} /\ g' <= req.q /\ pc' \in {"search", "failed"}
        /\ (pc' = "search" => g' < req.q)
    BY <1>2, <1>3, <2>1, <2>3
  <2>5. FactorsOfPhi' = FactorsOfPhi
    BY <2>1, <2>2 DEF FactorsOfPhi
  <2>6. req.q % 2 = 1 => 2 \in FactorsOfPhi
    BY <1>1, <2>1 DEF Progress
  <2>7. Progress'
    BY <1>2, <1>4, <2>1, <2>2, <2>4, <2>5, <2>6 DEF Progress
  <2>8. RootsFit'
    BY <2>4 DEF RootsFit
  <2>9. QED
    BY <1>1, <2>1, <2>2, <2>7, <2>8 DEF ResolutionInvariant
<1>10. CASE RootsFromGenerator
  <2>1. pc = "search" /\ pc' = "done" /\ Generates(g) /\ UNCHANGED <<req, g>>
        /\ UNCHANGED frames
    BY <1>10 DEF RootsFromGenerator
  <2>2. FramesInvariant' /\ fac' = fac
    BY <1>1, <2>1, FramesKept DEF frames
  <2>3. g < req.q /\ g % req.q # 0 /\ g \in Nat
    <3>1. g < req.q
      BY <1>1, <1>3, <2>1 DEF Progress
    <3>2. QED
      BY <1>2, <1>3, <3>1
  <2>4. ASSUME Prime(req.q)
        PROVE  ModPow(g, (req.q - 1) \div 2, req.q) # 1
    <3>1. req.q % 2 = 1
      BY <1>1, <1>2, <2>4, ModulusIsOdd
    <3>2. 2 \in FactorsOfPhi
      BY <1>1, <2>1, <3>1 DEF Progress
    <3>3. QED
      BY <2>1, <3>2 DEF Generates
  <2>5. PICK k \in Nat : req.n = 2^k
    BY <1>1, <1>2, SizeIs
  <2>6. CASE Negacyclic
    <3> DEFINE o == 2 * req.n
               p == ModPow(g, (req.q - 1) \div (2 * req.n), req.q)
               w == MulMod(p, p, req.q)
    <3>1. psi' = p /\ omega' = w
      BY <1>10, <2>6 DEF RootsFromGenerator
    <3>2. k + 1 \in Nat /\ o = 2^(k + 1)
      BY <2>5, PowersOfTwo
    <3>3. (req.q - 1) % o = 0
      BY <1>2, <2>6 DEF Achievable, Order, Divides
    <3>4. p \in 0 .. req.q - 1 /\ p \in Nat
      <4>1. (req.q - 1) \div (2 * req.n) \in Nat
        <5>1. req.q - 1 \in Nat /\ o \in Nat \ {0}
          BY <1>3
        <5> HIDE DEF o
        <5>2. (req.q - 1) \div o \in Nat
          BY <5>1, DivMod
        <5>3. QED
          BY <5>2 DEF o
      <4> DEFINE e == (req.q - 1) \div (2 * req.n)
      <4> HIDE DEF e
      <4>2. req.q \in Nat \ {0, 1} /\ e \in Nat
        BY <1>3, <4>1 DEF e
      <4>3. ModPow(g, e, req.q) \in 0 .. req.q - 1
        BY <2>3, <4>2, ModPowType
      <4>4. p \in 0 .. req.q - 1
        BY <4>3 DEF e
      <4> HIDE DEF p
      <4>5. QED
        BY <1>3, <4>4
    <3>5. Prime(req.q) => Fit(req, w, p)
      <4> SUFFICES ASSUME Prime(req.q)
                   PROVE  Fit(req, w, p)
        OBVIOUS
      <4>1. ModPow(g, (req.q - 1) \div 2, req.q) # 1
        BY <2>4
      <4> HIDE DEF o
      <4>2. HasOrder(ModPow(g, (req.q - 1) \div o, req.q), o, req.q)
        BY <1>1, <2>3, <3>2, <3>3, <4>1, GeneratorRoot
      <4>3. HasOrder(p, 2 * req.n, req.q)
        BY <4>2 DEF o
      <4> HIDE DEF p
      <4>4. QED
        BY <1>1, <1>2, <3>4, <4>3, PsiFits
    <3>6. w \in 0 .. req.q - 1
      <4> HIDE DEF p
      <4>1. QED
        BY <1>3, <3>4, MulModType
    <3> HIDE DEF p, w
    <3>7. RootsFit'
      BY <1>2, <2>1, <3>1, <3>5 DEF RootsFit
    <3>8. Progress'
      BY <1>2, <2>1, <2>2 DEF Progress
    <3>9. QED
      BY <1>1, <2>1, <2>2, <3>1, <3>4, <3>6, <3>7, <3>8 DEF ResolutionInvariant
  <2>7. CASE ~Negacyclic
    <3> DEFINE w == ModPow(g, (req.q - 1) \div req.n, req.q)
    <3>1. psi' = psi /\ omega' = w
      BY <1>10, <2>7 DEF RootsFromGenerator
    <3>2. (req.q - 1) % req.n = 0
      BY <1>2, <2>7 DEF Achievable, Order, Divides
    <3>3. w \in 0 .. req.q - 1
      <4> DEFINE e == (req.q - 1) \div req.n
      <4>1. req.q - 1 \in Nat
        BY <1>3
      <4>2. req.q \in Nat \ {0, 1} /\ e \in Nat
        BY <1>3, <4>1, DivMod
      <4> HIDE DEF e
      <4>3. ModPow(g, e, req.q) \in 0 .. req.q - 1
        BY <2>3, <4>2, ModPowType
      <4>4. QED
        BY <4>3 DEF e
    <3>4. Prime(req.q) => Fit(req, w, psi)
      <4> SUFFICES ASSUME Prime(req.q)
                   PROVE  Fit(req, w, psi)
        OBVIOUS
      <4>1. ModPow(g, (req.q - 1) \div 2, req.q) # 1
        BY <2>4
      <4>2. HasOrder(w, req.n, req.q)
        BY <1>1, <2>3, <2>5, <3>2, <4>1, GeneratorRoot
      <4>3. QED
        BY <2>7, <4>2 DEF Fit, Negacyclic
    <3> HIDE DEF w
    <3>5. RootsFit'
      BY <1>2, <2>1, <3>1, <3>4 DEF RootsFit
    <3>6. Progress'
      BY <1>2, <2>1, <2>2 DEF Progress
    <3>7. QED
      BY <1>1, <2>1, <2>2, <3>1, <3>3, <3>5, <3>6 DEF ResolutionInvariant
  <2>8. QED
    BY <2>6, <2>7
<1>11. QED
  BY <1>5, <1>6, <1>7, <1>8, <1>9, <1>10 DEF DeriveRoots

\* Every step preserves the invariant.
LEMMA ResolutionStep ==
  ASSUME ResolutionInvariant, [Next]_vars
  PROVE  ResolutionInvariant'
<1>1. CASE ValidateModulus \/ ValidateDomain
  BY <1>1, ValidationStep
<1>2. CASE CompleteRoots
  BY <1>2, CompletionStep
<1>3. CASE DeriveRoots
  BY <1>3, DerivationStep
<1>4. CASE UNCHANGED vars
  <2>1. UNCHANGED <<req, omega, psi, g, pc>> /\ UNCHANGED frames
    BY <1>4 DEF vars
  <2>2. FramesInvariant' /\ fac' = fac /\ sq' = sq
    BY <2>1, FramesKept DEF ResolutionInvariant, frames
  <2>3. Progress'
    BY <2>1, <2>2 DEF ResolutionInvariant, Progress, Achievable, Order, Negacyclic,
                      IsPrimitive, FactorsOfPhi
  <2>4. RootsFit'
    BY <2>1 DEF ResolutionInvariant, RootsFit, Degenerate, Negacyclic
  <2>5. QED
    BY <2>1, <2>2, <2>3, <2>4 DEF ResolutionInvariant
<1>5. QED
  BY <1>1, <1>2, <1>3, <1>4 DEF Next

(***************************************************************************)
(* The inductive invariant of the resolution holds throughout.             *)
(***************************************************************************)
THEOREM ResolutionCorrect == Spec => []ResolutionInvariant
<1>1. Init => ResolutionInvariant
  BY ResolutionStarts
<1>2. ResolutionInvariant /\ [Next]_vars => ResolutionInvariant'
  BY ResolutionStep
<1>3. QED
  BY <1>1, <1>2, PTL DEF Spec

(***************************************************************************)
(* The variables and the frames of the three calls keep their types; in    *)
(* particular no root leaves the range below the modulus, and M - i - 1 of *)
(* the square root does not wrap.                                          *)
(***************************************************************************)
THEOREM ResolutionTypes == Spec => []TypeOK
<1>1. ResolutionInvariant => TypeOK
  <2> SUFFICES ASSUME ResolutionInvariant
               PROVE  TypeOK
    OBVIOUS
  <2>1. MillerRabinTypeOK /\ FactoringTypeOK /\ SqrtModTypeOK
    BY DEF ResolutionInvariant, FramesInvariant, TestInvariant, FactorInvariant, SqrtInvariant
  <2>2. g >= 2 /\ (g = 2 \/ g <= req.q)
    BY DEF ResolutionInvariant, Progress
  <2>3. QED
    BY <2>1, <2>2 DEF ResolutionInvariant, Progress, TypeOK
<1>2. QED
  BY <1>1, ResolutionCorrect, PTL

(***************************************************************************)
(* While ntt__miller_rabin squares a witness, x is the power that the loop *)
(* counter says and q - 1 = d * 2^s with d odd.                            *)
(***************************************************************************)
THEOREM SquaringCounts == Spec => []SquaringInvariant
<1>1. ResolutionInvariant => SquaringInvariant
  BY DEF ResolutionInvariant, FramesInvariant, TestInvariant
<1>2. QED
  BY <1>1, ResolutionCorrect, PTL

(***************************************************************************)
(* Whatever the witnesses, the primality test rejects no prime: a square   *)
(* root of 1 modulo a prime is 1 or -1, and by Fermat's little theorem the *)
(* last square is 1.                                                       *)
(***************************************************************************)
THEOREM PrimesPass == Spec => []NoPrimeRejected
<1>1. ResolutionInvariant => NoPrimeRejected
  BY DEF ResolutionInvariant, FramesInvariant, TestInvariant
<1>2. QED
  BY <1>1, ResolutionCorrect, PTL

(***************************************************************************)
(* The loop of Tonelli and Shanks keeps R^2 = a * t and, for a prime       *)
(* modulus, the orders of t and c that make it end.                        *)
(***************************************************************************)
THEOREM TonelliShanks == Spec => []LoopInvariant
<1>1. ResolutionInvariant => LoopInvariant
  <2> SUFFICES ASSUME ResolutionInvariant, sq.pc = "test"
               PROVE  LoopInvariant
    BY DEF LoopInvariant
  <2>1. sq.M > 0 /\ RootOf /\ Orders
    BY DEF ResolutionInvariant, FramesInvariant, SqrtInvariant
  <2>2. QED
    BY <2>1 DEF LoopInvariant, RootOf, IsRootOf, Orders, IsPower
<1>2. QED
  BY <1>1, ResolutionCorrect, PTL

(***************************************************************************)
(* ntt__sqrt_mod returns a root, whatever the modulus, and for a prime one *)
(* it fails only if there is none: the non-residue it searches exists.     *)
(***************************************************************************)
THEOREM SqrtIsRight == Spec => []RootIfAny
<1>1. ResolutionInvariant => RootIfAny
  BY DEF ResolutionInvariant, FramesInvariant, SqrtInvariant
<1>2. QED
  BY <1>1, ResolutionCorrect, PTL

(***************************************************************************)
(* ntt__resolve_roots succeeds for a prime modulus only with roots of the  *)
(* orders that the transform needs, and replaces none that the caller gave.*)
(***************************************************************************)
THEOREM ResolvedRootsFit == Spec => []RootsFit
<1>1. ResolutionInvariant => RootsFit
  BY DEF ResolutionInvariant
<1>2. QED
  BY <1>1, ResolutionCorrect, PTL

-----------------------------------------------------------------------------
(***************************************************************************)
(* Which values the primality test calls prime                             *)
(***************************************************************************)

(***************************************************************************)
(* k is a strong probable prime to the base a, where k - 1 = d * 2^s       *)
(***************************************************************************)
Passes(a, d, s, k) ==
  \/ ModPow(a, d, k) \in {1, k - 1}
  \/ \E r \in 1 .. s - 1 : ModPow(a, d * 2^r, k) = k - 1

\* To every base of the table that is below k
PassesAll(d, s, k) ==
  \A j \in 1 .. Len(Witnesses) : Witnesses[j] < k => Passes(Witnesses[j], d, s, k)

\* The values that the test calls prime
Claimed(k) ==
  \/ k \in {2, 3}
  \/ /\ k > 3 /\ k % 2 = 1
     /\ \E d \in Nat, s \in Nat : d % 2 = 1 /\ SplitOf(k, d, s) /\ PassesAll(d, s, k)

(***************************************************************************)
(* What the test has found out so far: the witnesses before i have passed, *)
(* and of the one being squared no power up to x has been -1.              *)
(***************************************************************************)
TestIsExact ==
  /\ mr.pc \in {"witness", "square"} =>
       \A j \in 1 .. mr.i - 1 :
         Witnesses[j] < mr.q => Passes(Witnesses[j], mr.d, mr.s, mr.q)
  /\ mr.pc \in {"start", "split"} => mr.i = 1
  /\ mr.pc = "square" =>
       /\ ModPow(Witnesses[mr.i], mr.d, mr.q) \notin {1, mr.q - 1}
       /\ \A r \in 1 .. mr.r - 1 : ModPow(Witnesses[mr.i], mr.d * 2^r, mr.q) # mr.q - 1
  /\ mr.pc = "done" => (mr.prime <=> Claimed(mr.q))

\* Each iteration of the test preserves it.
LEMMA ExactStep ==
  ASSUME TestInvariant, TestIsExact, MillerRabinStep
  PROVE  TestIsExact'
<1>1. mr \in TestFrames /\ MillerRabinTypeOK /\ Len(Witnesses) \in Nat
  BY PrimalityAssumption DEF TestInvariant
<1>2. CASE DecideSmall
  <2> DEFINE b == mr.q \in {2, 3}
  <2>1. b \in BOOLEAN /\ mr' = [mr EXCEPT !.pc = "done", !.prime = b]
    BY <1>2 DEF DecideSmall, Answer
  <2>2. mr.q \in Nat /\ (mr.q < 4 \/ mr.q % 2 = 0)
    BY <1>1, <1>2 DEF DecideSmall, TestFrames
  <2>3. b <=> Claimed(mr.q)
    BY <2>2 DEF Claimed
  <2> HIDE DEF b
  <2>4. mr'.pc = "done" /\ mr'.q = mr.q /\ mr'.prime = b
    BY <1>1, <2>1 DEF TestFrames
  <2>5. mr'.prime <=> Claimed(mr'.q)
    BY <2>3, <2>4
  <2>6. QED
    BY <2>4, <2>5 DEF TestIsExact
<1>3. CASE StartSplit \/ Halve
  <2>1. mr'.pc = "split" /\ mr'.i = mr.i /\ mr.i = 1
    BY <1>1, <1>3 DEF StartSplit, Halve, TestFrames, TestIsExact
  <2>2. QED
    BY <2>1 DEF TestIsExact
<1>4. CASE EndSplit
  <2>1. mr'.pc = "witness" /\ mr'.i = mr.i /\ mr.i = 1
    BY <1>1, <1>4 DEF EndSplit, TestFrames, TestIsExact
  <2>2. QED
    BY <2>1 DEF TestIsExact
<1>5. CASE SkipWitness \/ WitnessPasses
  <2>1. mr' = [mr EXCEPT !.i = mr.i + 1] /\ mr.pc = "witness" /\ mr.i \in 1 .. Len(Witnesses)
    BY <1>1, <1>5 DEF SkipWitness, WitnessPasses, Trying, TestFrames
  <2>2. Witnesses[mr.i] < mr.q => Passes(Witnesses[mr.i], mr.d, mr.s, mr.q)
    <3>1. Witnesses[mr.i] \in Nat /\ mr.q \in Nat
      BY <1>1, <2>1, WitnessType DEF TestFrames
    <3>2. QED
      BY <1>5, <3>1 DEF SkipWitness, WitnessPasses, Passes, FirstPower
  <2>3. mr'.pc = "witness" /\ mr'.i = mr.i + 1 /\ mr'.d = mr.d /\ mr'.s = mr.s /\ mr'.q = mr.q
    BY <1>1, <2>1 DEF TestFrames
  <2>4. \A j \in 1 .. mr.i : Witnesses[j] < mr.q => Passes(Witnesses[j], mr.d, mr.s, mr.q)
    <3>1. \A j \in 1 .. mr.i : j \in 1 .. mr.i - 1 \/ j = mr.i
      BY <2>1
    <3>2. QED
      BY <2>1, <2>2, <3>1 DEF TestIsExact
  <2>5. (mr.i + 1) - 1 = mr.i
    BY <2>1
  <2>6. QED
    BY <2>3, <2>4, <2>5 DEF TestIsExact
<1>6. CASE StartSquaring
  <2>1. mr'.pc = "square" /\ mr'.i = mr.i /\ mr'.r = 1 /\ mr'.d = mr.d /\ mr'.s = mr.s
        /\ mr'.q = mr.q /\ mr.pc = "witness"
    BY <1>1, <1>6 DEF StartSquaring, Trying, TestFrames
  <2>2. ModPow(Witnesses[mr.i], mr.d, mr.q) \notin {1, mr.q - 1}
    BY <1>6 DEF StartSquaring, FirstPower
  <2>3. 1 .. 1 - 1 = {}
    OBVIOUS
  <2>4. QED
    BY <2>1, <2>2, <2>3 DEF TestIsExact
<1>7. CASE Square
  <2> DEFINE y == MulMod(mr.x, mr.x, mr.q)
             a == Witnesses[mr.i]
  <2>1. mr.pc = "square" /\ mr.r < mr.s /\ mr.r \in Nat \ {0} /\ mr.s \in Nat
        /\ mr.i \in 1 .. Len(Witnesses)
    BY <1>1, <1>7 DEF Square, TestFrames, TestInvariant
  <2>2. mr.q \in Nat \ {0, 1} /\ mr.d \in Nat /\ a \in Nat
    BY <1>1, <2>1, WitnessType DEF TestInvariant, TestFrames
  <2>3. y = ModPow(a, mr.d * 2^mr.r, mr.q)
    <3>1. IsPower(mr.x, a, mr.d * 2^(mr.r - 1), mr.q)
      BY <2>1 DEF TestInvariant, SquaringInvariant, IsPower
    <3> HIDE DEF a
    <3>2. IsPower(MulMod(mr.x, mr.x, mr.q), a, mr.d * 2^mr.r, mr.q)
      BY <2>1, <2>2, <3>1, NextSquare
    <3>3. QED
      BY <3>2 DEF IsPower
  <2> HIDE DEF y
  <2>4. CASE y = mr.q - 1
    <3>1. mr' = [mr EXCEPT !.x = y, !.r = mr.r + 1, !.i = mr.i + 1, !.pc = "witness"]
      BY <1>7, <2>4 DEF Square, y
    <3>2. mr'.pc = "witness" /\ mr'.i = mr.i + 1 /\ mr'.d = mr.d /\ mr'.s = mr.s
          /\ mr'.q = mr.q
      BY <1>1, <3>1 DEF TestFrames
    <3>3. Passes(a, mr.d, mr.s, mr.q)
      <4>1. mr.r \in 1 .. mr.s - 1
        BY <2>1
      <4>2. QED
        BY <2>3, <2>4, <4>1 DEF Passes
    <3>4. \A j \in 1 .. mr.i : Witnesses[j] < mr.q => Passes(Witnesses[j], mr.d, mr.s, mr.q)
      <4>1. \A j \in 1 .. mr.i : j \in 1 .. mr.i - 1 \/ j = mr.i
        BY <2>1
      <4>2. QED
        BY <2>1, <3>3, <4>1 DEF TestIsExact
    <3>5. (mr.i + 1) - 1 = mr.i
      BY <2>1
    <3>6. QED
      BY <3>2, <3>4, <3>5 DEF TestIsExact
  <2>5. CASE y # mr.q - 1
    <3>1. mr' = [mr EXCEPT !.x = y, !.r = mr.r + 1]
      BY <1>7, <2>5 DEF Square, y
    <3>2. mr'.pc = "square" /\ mr'.i = mr.i /\ mr'.d = mr.d /\ mr'.s = mr.s
          /\ mr'.q = mr.q /\ mr'.r = mr.r + 1
      BY <1>1, <2>1, <3>1 DEF TestFrames
    <3>3. \A r \in 1 .. mr.r : ModPow(a, mr.d * 2^r, mr.q) # mr.q - 1
      <4>1. \A r \in 1 .. mr.r : r \in 1 .. mr.r - 1 \/ r = mr.r
        BY <2>1
      <4>2. QED
        BY <2>1, <2>3, <2>5, <4>1 DEF TestIsExact
    <3>4. (mr.r + 1) - 1 = mr.r
      BY <2>1
    <3>5. QED
      BY <2>1, <3>2, <3>3, <3>4 DEF TestIsExact
  <2>6. QED
    BY <2>4, <2>5
<1>8. CASE WitnessFails
  <2> DEFINE a == Witnesses[mr.i]
  <2>1. mr'.pc = "done" /\ mr'.q = mr.q /\ mr'.prime = FALSE
    BY <1>1, <1>8 DEF WitnessFails, Answer, TestFrames
  <2>2. mr.pc = "square" /\ mr.r = mr.s /\ mr.s \in Nat /\ mr.i \in 1 .. Len(Witnesses)
        /\ a < mr.q /\ mr.q > 3 /\ mr.d % 2 = 1 /\ SplitOf(mr.q, mr.d, mr.s) /\ mr.d \in Nat
    BY <1>1, <1>8 DEF WitnessFails, TestFrames, TestInvariant, SquaringInvariant
  <2>3. ~Passes(a, mr.d, mr.s, mr.q)
    BY <2>2 DEF TestIsExact, Passes
  <2> HIDE DEF a
  <2>4. \A d \in Nat, s \in Nat :
          d % 2 = 1 /\ SplitOf(mr.q, d, s) => ~PassesAll(d, s, mr.q)
    <3> SUFFICES ASSUME NEW d \in Nat, NEW s \in Nat, d % 2 = 1, SplitOf(mr.q, d, s)
                 PROVE  ~PassesAll(d, s, mr.q)
      OBVIOUS
    <3>1. d * 2^s = mr.d * 2^mr.s
      BY <2>2 DEF SplitOf
    <3>2. d = mr.d /\ s = mr.s
      BY <2>2, <3>1, SplitUnique
    <3>3. QED
      BY <2>2, <2>3, <3>2 DEF PassesAll, a
  <2>5. ~Claimed(mr.q)
    <3>1. mr.q \notin {2, 3}
      BY <2>2
    <3>2. QED
      BY <2>4, <3>1 DEF Claimed
  <2>6. QED
    BY <2>1, <2>5 DEF TestIsExact
<1>9. CASE AllWitnessesPass
  <2>1. mr'.pc = "done" /\ mr'.q = mr.q /\ mr'.prime = TRUE
    BY <1>1, <1>9 DEF AllWitnessesPass, Answer, TestFrames
  <2>2. mr.pc = "witness" /\ mr.i = Len(Witnesses) + 1 /\ mr.s \in Nat
        /\ mr.q > 3 /\ mr.q % 2 = 1 /\ mr.d % 2 = 1 /\ SplitOf(mr.q, mr.d, mr.s)
        /\ mr.d \in Nat
    BY <1>1, <1>9 DEF AllWitnessesPass, TestFrames, TestInvariant
  <2>3. mr.i - 1 = Len(Witnesses)
    BY <1>1, <2>2
  <2>4. PassesAll(mr.d, mr.s, mr.q)
    BY <2>2, <2>3 DEF TestIsExact, PassesAll
  <2>5. Claimed(mr.q)
    BY <2>2, <2>4 DEF Claimed
  <2>6. QED
    BY <2>1, <2>5 DEF TestIsExact
<1>10. QED
  BY <1>2, <1>3, <1>4, <1>5, <1>6, <1>7, <1>8, <1>9 DEF MillerRabinStep

\* Every candidate is the modulus or an odd divisor of q - 1.
Candidates(r) == {r.q} \union PartsOf(r.q - 1)

\* What the test of the resolution is about
TestAnswers == TestIsExact /\ (mr.pc # "idle" => mr.q \in Candidates(req))

\* A step of the factoring calls the test for a part or lets it go on.
LEMMA TestInFactoring ==
  ASSUME ResolutionInvariant, FactoringStep, pc = "factors"
  PROVE  \/ mr' = mr
         \/ MillerRabinStep
         \/ mr' = NoTest
         \/ \E k \in PartsOf(req.q - 1) : CallMillerRabin(k)
<1>1. fac \in FactorFrames /\ fac.x = req.q - 1
  BY DEF ResolutionInvariant, FramesInvariant, FactorInvariant, Progress
<1>2. CASE PopPart
  <2> DEFINE top == fac.stack[Len(fac.stack)]
  <2>1. fac.stack # <<>> /\ CallMillerRabin(top) /\ fac.pc = "loop"
    BY <1>2 DEF PopPart
  <2>2. fac.stack \in Seq(PartsOf(fac.x))
    BY <2>1 DEF ResolutionInvariant, FramesInvariant, FactorInvariant
  <2>3. top \in PartsOf(req.q - 1)
    BY <1>1, <2>1, <2>2
  <2>4. QED
    BY <2>1, <2>3
<1>3. CASE TestPart
  BY <1>3 DEF TestPart
<1>4. QED
  BY <1>2, <1>3 DEF FactoringStep, RejectInput, PowerOfTwoOnly, StripTwo, RecordPrime, StartRho,
                    RhoStep, Split, NextSeed, Finish

\* The other steps of the resolution too.
LEMMA TestInResolution ==
  ASSUME ResolutionInvariant, [Next]_vars
  PROVE  /\ req' = req
         /\ \/ mr' = mr
            \/ MillerRabinStep
            \/ mr' = NoTest
            \/ \E k \in Candidates(req) : CallMillerRabin(k)
<1>1. req' = req
  BY DEF Next, vars, ValidateModulus, ValidateModulusToy, RefuseLargeModulus,
         TestModulus, RunTest, ModulusTested, ValidateDomain, CompleteRoots, RefuseGiven,
         KeepGiven, OmegaFromPsi, SearchPsi, RunSqrt, PsiFound, DeriveRoots, PhiFactored,
         LookUpPhi, NextCandidate, RootsFromGenerator, FactorPhi, RunFactoring
<1>2. CASE RunFactoring
  <2>1. FactoringStep /\ pc = "factors"
    BY <1>2 DEF RunFactoring
  <2>2. QED
    BY <1>1, <2>1, TestInFactoring DEF Candidates
<1>3. CASE TestModulus
  BY <1>1, <1>3 DEF TestModulus, Candidates
<1>4. RunFactoring \/ TestModulus \/ mr' = mr \/ MillerRabinStep \/ mr' = NoTest
  BY DEF Next, vars, frames, ValidateModulus, ValidateModulusToy, RefuseLargeModulus,
         TestModulus, RunTest, ModulusTested, ValidateDomain, CompleteRoots, RefuseGiven,
         KeepGiven, OmegaFromPsi, SearchPsi, RunSqrt, PsiFound, DeriveRoots, PhiFactored,
         LookUpPhi, NextCandidate, RootsFromGenerator, FactorPhi
<1>5. QED
  BY <1>1, <1>2, <1>3, <1>4

\* Every step of the resolution preserves it.
LEMMA AnswersStep ==
  ASSUME ResolutionInvariant, TestAnswers, [Next]_vars
  PROVE  TestAnswers'
<1>1. /\ req' = req
      /\ \/ mr' = mr
         \/ MillerRabinStep
         \/ mr' = NoTest
         \/ \E k \in Candidates(req) : CallMillerRabin(k)
  BY TestInResolution
<1>2. CASE mr' = mr
  BY <1>1, <1>2 DEF TestAnswers, TestIsExact
<1>3. CASE MillerRabinStep
  <2>1. TestInvariant
    BY DEF ResolutionInvariant, FramesInvariant
  <2>2. TestIsExact' /\ mr'.q = mr.q /\ mr.pc # "idle"
    <3>1. mr.pc # "idle"
      BY <1>3 DEF MillerRabinStep, DecideSmall, StartSplit, Halve, EndSplit, SkipWitness,
                  WitnessPasses, StartSquaring, Square, WitnessFails, AllWitnessesPass, Trying
    <3>2. QED
      BY <1>3, <2>1, <3>1, ExactStep, TestKeepsCandidate DEF TestAnswers
  <2>3. QED
    BY <1>1, <2>2 DEF TestAnswers
<1>4. CASE mr' = NoTest
  <2>1. mr'.pc = "idle"
    BY <1>4 DEF NoTest
  <2>2. QED
    BY <2>1 DEF TestAnswers, TestIsExact
<1>5. ASSUME NEW k \in Candidates(req), CallMillerRabin(k)
      PROVE  TestAnswers'
  <2>1. mr'.pc = "start" /\ mr'.i = 1 /\ mr'.q = k
    BY <1>5 DEF CallMillerRabin, NoTest
  <2>2. QED
    BY <1>1, <2>1 DEF TestAnswers, TestIsExact
<1>6. QED
  BY <1>1, <1>2, <1>3, <1>4, <1>5

(***************************************************************************)
(* The test is exact: it answers yes for 2, 3 and the odd values that are  *)
(* strong probable primes to each witness below them, and for no others.   *)
(***************************************************************************)
THEOREM TestDecides == Spec => [](MillerRabinDone => (mr.prime <=> Claimed(mr.q)))
<1>1. Init => TestAnswers
  BY DEF Init, NoTest, TestAnswers, TestIsExact
<1>2. ResolutionInvariant /\ TestAnswers /\ [Next]_vars => TestAnswers'
  BY AnswersStep
<1>3. TestAnswers => (MillerRabinDone => (mr.prime <=> Claimed(mr.q)))
  BY DEF TestAnswers, TestIsExact, MillerRabinDone
<1>4. QED
  BY <1>1, <1>2, <1>3, ResolutionCorrect, PTL DEF Spec

\* No composite among the values a request has tested is a strong probable
\* prime to every witness below it.
WitnessesSuffice ==
  \A r \in Requests : \A k \in Candidates(r) : Claimed(k) => Prime(k)

(***************************************************************************)
(* If the witnesses suffice for the modulus and the odd divisors of q - 1, *)
(* a value is called prime only if it is.                                  *)
(***************************************************************************)
THEOREM CompositesRejected ==
  ASSUME WitnessesSuffice
  PROVE  Spec => []CompositeIsRejected
<1>1. Init => TestAnswers
  BY DEF Init, NoTest, TestAnswers, TestIsExact
<1>2. ResolutionInvariant /\ TestAnswers /\ [Next]_vars => TestAnswers'
  BY AnswersStep
<1>3. ResolutionInvariant /\ TestAnswers => CompositeIsRejected
  <2> SUFFICES ASSUME req \in Requests, TestAnswers, MillerRabinDone, mr.prime
               PROVE  Prime(mr.q)
    BY DEF ResolutionInvariant, CompositeIsRejected
  <2>1. mr.q \in Candidates(req) /\ Claimed(mr.q)
    BY DEF TestAnswers, TestIsExact, MillerRabinDone
  <2>2. QED
    BY <2>1 DEF WitnessesSuffice
<1>4. QED
  BY <1>1, <1>2, <1>3, ResolutionCorrect, PTL DEF Spec

-----------------------------------------------------------------------------
(***************************************************************************)
(* The primes of x are found, as far as the primality test calls no        *)
(* composite part prime.                                                   *)
(***************************************************************************)

Elements(s) == {s[k] : k \in 1 .. Len(s)}

PrimesIn(parts) == UNION {PrimeFactors(k) : k \in parts}

\* NothingLost, with what holds once the stack is empty
Accounted ==
  /\ fac.pc \in {"loop", "test", "rho"} =>
       PrimesIn(Parts) \union fac.factors = PrimeFactors(fac.x)
  /\ fac.pc = "done" => fac.factors = PrimeFactors(fac.x)

\* What a push of two parts does to the elements of the stack
LEMMA PushedParts ==
  ASSUME NEW stack \in Seq(Nat), NEW x \in Nat, NEW y \in Nat
  PROVE  Elements(stack \o <<x, y>>) = Elements(stack) \union {x, y}
<1> DEFINE n == Len(stack)
           long == stack \o <<x, y>>
<1>1. n \in Nat
  BY LenProperties
<1>2. Len(long) = n + 2 /\ long[n + 1] = x /\ long[n + 2] = y
      /\ \A k \in 1 .. n : long[k] = stack[k]
  BY <1>1
<1> HIDE DEF long
<1>3. 1 .. (n + 2) = (1 .. n) \union {n + 1, n + 2}
  BY <1>1
<1> HIDE DEF n
<1>4. {long[k] : k \in 1 .. (n + 2)} = {long[k] : k \in 1 .. n} \union {x, y}
  BY <1>2, <1>3
<1>5. {long[k] : k \in 1 .. n} = {stack[k] : k \in 1 .. n}
  BY <1>2
<1>6. QED
  BY <1>2, <1>4, <1>5 DEF long, n, Elements

\* What a pop does to them
LEMMA PoppedPart ==
  ASSUME NEW stack \in Seq(Nat), stack # <<>>
  PROVE  Elements(stack) = Elements(SubSeq(stack, 1, Len(stack) - 1))
                             \union {stack[Len(stack)]}
<1> DEFINE n == Len(stack)
           rest == SubSeq(stack, 1, n - 1)
<1>1. n \in Nat \ {0}
  BY LenProperties, EmptySeq
<1>2. Len(rest) = n - 1 /\ \A k \in 1 .. n - 1 : rest[k] = stack[k]
  <2>1. \A k \in 1 .. n - 1 : stack[k] \in Nat
    BY <1>1, ElementOfSeq
  <2>2. 1 \in Int /\ n - 1 \in Int
    BY <1>1
  <2> HIDE DEF n
  <2>3. /\ Len(rest) = IF 1 <= n - 1 THEN (n - 1) - 1 + 1 ELSE 0
        /\ \A i \in 1 .. (n - 1) - 1 + 1 : rest[i] = stack[1 + i - 1]
    BY <2>1, <2>2, SubSeqProperties
  <2> HIDE DEF rest
  <2>4. \A i \in 1 .. n - 1 : 1 + i - 1 = i /\ i \in 1 .. (n - 1) - 1 + 1
    BY <1>1
  <2>5. QED
    BY <1>1, <2>3, <2>4
<1> HIDE DEF rest
<1>3. 1 .. n = (1 .. n - 1) \union {n}
  BY <1>1
<1> HIDE DEF n
<1>4. {stack[k] : k \in 1 .. n} = {stack[k] : k \in 1 .. n - 1} \union {stack[n]}
  BY <1>3
<1>5. {stack[k] : k \in 1 .. n - 1} = {rest[k] : k \in 1 .. n - 1}
  BY <1>2
<1>6. QED
  BY <1>2, <1>4, <1>5 DEF n, rest, Elements

\* Half of x and its odd part have the primes of x.
LEMMA PrimesOfOddPart ==
  ASSUME NEW x \in Nat, x > 1
  PROVE  /\ PrimeFactors(x)
              = PrimeFactors(OddPart(x)) \union (IF x % 2 = 0 THEN {2} ELSE {})
         /\ OddPart(x) = 1 => PrimeFactors(OddPart(x)) = {}
<1> DEFINE o == OddPart(x)
<1>1. PICK s \in Nat : o * 2^s = x
  BY OddPartIs
<1>2. o \in Nat \ {0} /\ o % 2 = 1
  <2>1. o \in 1 .. x /\ o % 2 = 1
    BY OddPartIs
  <2> HIDE DEF o
  <2>2. QED
    BY <2>1
<1> HIDE DEF o
<1> DEFINE w == 2^s
<1>3. w \in Nat \ {0}
  BY PowersOfTwo
<1>4. PrimeFactors(x) = PrimeFactors(o) \union PrimeFactors(w)
  <2> HIDE DEF w
  <2>1. PrimeFactors(o * w) = PrimeFactors(o) \union PrimeFactors(w)
    BY <1>2, <1>3, PrimeFactorsOfProduct
  <2>2. QED
    BY <1>1, <2>1 DEF w
<1>5. PrimeFactors(w) \subseteq {2}
  <2> SUFFICES ASSUME NEW p \in PrimeFactors(w)
               PROVE  p = 2
    OBVIOUS
  <2>1. p \in Nat /\ Prime(p) /\ w % p = 0
    BY <1>3, PrimeFactorsIs
  <2>2. QED
    BY <2>1, PrimesOfPowersOfTwo
<1> HIDE DEF w
<1>6. 2 \in PrimeFactors(x) <=> x % 2 = 0
  <2>1. Prime(2)
    BY DEF Prime
  <2>2. x \in Nat \ {0} /\ 2 \in Nat
    OBVIOUS
  <2>3. QED
    BY <2>1, <2>2, PrimeFactorsIs
<1>7. 2 \notin PrimeFactors(o)
  BY <1>2, PrimeFactorsIs
<1>8. o = 1 => PrimeFactors(o) = {}
  BY DEF PrimeFactors
<1>9. QED
  BY <1>4, <1>5, <1>6, <1>7, <1>8 DEF o

\* The prime factor of a prime
LEMMA PrimesOfPrime ==
  ASSUME NEW p \in Nat, Prime(p)
  PROVE  PrimeFactors(p) = {p}
<1>1. p \in Nat \ {0} /\ p > 1 /\ p % p = 0
  BY DEF Prime
<1>2. p \in PrimeFactors(p)
  BY <1>1, PrimeFactorsIs
<1>3. ASSUME NEW d \in PrimeFactors(p)
      PROVE  d = p
  <2>1. d \in Nat /\ Prime(d) /\ p % d = 0
    BY <1>1, PrimeFactorsIs
  <2>2. d \in Nat \ {0} /\ d > 1
    BY <2>1 DEF Prime
  <2>3. QED
    BY <2>1, <2>2, PrimeDivisors
<1>4. QED
  BY <1>2, <1>3

(***************************************************************************)
(* A step of the factoring keeps the account, as long as the test that     *)
(* calls the part prime is right.                                          *)
(***************************************************************************)
LEMMA AccountedStep ==
  ASSUME FactorInvariant, TestInvariant, PartUnderTest, CompositeIsRejected, Accounted,
         FactoringStep
  PROVE  Accounted'
<1>1. fac \in FactorFrames /\ FactorInvariant'
  BY FactoringStepInvariant DEF FactorInvariant
<1> DEFINE E == Elements(fac.stack)
<1>2. CASE RejectInput
  <2>1. fac'.pc = "failed"
    BY <1>1, <1>2 DEF RejectInput, FactorFrames
  <2>2. QED
    BY <2>1 DEF Accounted
<1>3. CASE PowerOfTwoOnly
  <2>1. fac'.pc = "done" /\ fac'.factors = {2} /\ fac'.x = fac.x
    BY <1>1, <1>3 DEF PowerOfTwoOnly, FactorFrames
  <2>2. fac.x \in Nat /\ fac.x > 1 /\ fac.x % 2 = 0 /\ OddPart(fac.x) = 1
    BY <1>1, <1>3 DEF PowerOfTwoOnly, Even, FactorFrames
  <2>3. PrimeFactors(fac.x) = {2}
    BY <2>2, PrimesOfOddPart
  <2>4. QED
    BY <2>1, <2>3 DEF Accounted
<1>4. CASE StripTwo
  <2> DEFINE o == OddPart(fac.x)
             fs == IF fac.x % 2 = 0 THEN {2} ELSE {}
  <2>1. fac'.pc = "loop" /\ fac'.factors = fs /\ fac'.x = fac.x /\ fac'.stack = <<o>>
    BY <1>1, <1>4 DEF StripTwo, Even, FactorFrames
  <2>2. fac.x \in Nat /\ fac.x > 1
    BY <1>1, <1>4 DEF StripTwo, FactorFrames
  <2>3. PrimeFactors(fac.x) = PrimeFactors(o) \union fs
    BY <2>2, PrimesOfOddPart
  <2> HIDE DEF o, fs
  <2>4. Elements(<<o>>) = {o}
    <3>1. Len(<<o>>) = 1 /\ <<o>>[1] = o
      OBVIOUS
    <3>2. 1 .. 1 = {1}
      OBVIOUS
    <3>3. QED
      BY <3>1, <3>2 DEF Elements
  <2>5. PrimesIn({o}) = PrimeFactors(o)
    BY DEF PrimesIn
  <2>6. Parts' = {o}
    BY <2>1, <2>4 DEF Parts, Elements
  <2>7. QED
    BY <2>1, <2>3, <2>5, <2>6 DEF Accounted
<1>5. CASE PopPart
  <2> DEFINE top == fac.stack[Len(fac.stack)]
             rest == SubSeq(fac.stack, 1, Len(fac.stack) - 1)
  <2>1. fac' = [fac EXCEPT !.pc = "test", !.n = top, !.stack = rest]
        /\ fac.stack # <<>> /\ fac.pc = "loop"
    BY <1>5 DEF PopPart
  <2>2. fac.stack \in Seq(Nat)
    BY <1>1 DEF FactorFrames
  <2>3. E = Elements(rest) \union {top}
    BY <2>1, <2>2, PoppedPart
  <2> HIDE DEF top, rest
  <2>4. fac'.pc = "test" /\ fac'.x = fac.x /\ fac'.stack = rest /\ fac'.n = top
        /\ fac'.factors = fac.factors
    BY <1>1, <2>1 DEF FactorFrames
  <2>5. Parts' = E
    BY <2>3, <2>4 DEF Parts, Elements
  <2>6. Parts = E
    BY <2>1 DEF Parts, Elements
  <2>7. QED
    BY <2>1, <2>4, <2>5, <2>6 DEF Accounted
<1>6. CASE TestPart
  <2>1. fac' = fac
    BY <1>6 DEF TestPart
  <2>2. QED
    BY <2>1 DEF Accounted, Parts
<1>7. CASE RecordPrime
  <2> DEFINE fs == fac.factors \union {fac.n}
  <2>1. mr.prime /\ mr.pc = "done" /\ fac.pc = "test"
        /\ \/ fac' = [fac EXCEPT !.pc = "failed"]
           \/ fac' = [fac EXCEPT !.pc = "loop", !.factors = fs]
    BY <1>7 DEF RecordPrime, MillerRabinDone
  <2>2. PrimeFactors(fac.n) = {fac.n}
    <3>1. Prime(fac.n) /\ fac.n \in Nat
      BY <1>1, <2>1 DEF CompositeIsRejected, MillerRabinDone, PartUnderTest, FactorFrames
    <3>2. QED
      BY <3>1, PrimesOfPrime
  <2> HIDE DEF fs
  <2>3. CASE fac' = [fac EXCEPT !.pc = "failed"]
    <3>1. fac'.pc = "failed"
      BY <1>1, <2>3 DEF FactorFrames
    <3>2. QED
      BY <3>1 DEF Accounted
  <2>4. CASE fac' = [fac EXCEPT !.pc = "loop", !.factors = fs]
    <3>1. fac'.pc = "loop" /\ fac'.x = fac.x /\ fac'.stack = fac.stack /\ fac'.factors = fs
      BY <1>1, <2>4 DEF FactorFrames
    <3>2. Parts' = E
      BY <3>1 DEF Parts, Elements
    <3>3. Parts = E \union {fac.n}
      BY <2>1 DEF Parts, Elements
    <3> HIDE DEF E
    <3>4. PrimesIn(E \union {fac.n}) = PrimesIn(E) \union {fac.n}
      BY <2>2 DEF PrimesIn
    <3>5. PrimesIn(Parts) \union fac.factors = PrimeFactors(fac.x)
      BY <2>1 DEF Accounted
    <3>6. PrimesIn(Parts') \union fac'.factors = PrimeFactors(fac'.x)
      BY <3>1, <3>2, <3>3, <3>4, <3>5 DEF fs
    <3>7. QED
      BY <3>1, <3>6 DEF Accounted
  <2>5. QED
    BY <2>1, <2>3, <2>4
<1>8. CASE StartRho
  <2>1. fac.pc = "test" /\ fac' = [fac EXCEPT !.pc = "rho", !.c = 1, !.u = 2, !.v = 2]
    BY <1>8 DEF StartRho
  <2>2. fac'.pc = "rho" /\ fac'.x = fac.x /\ fac'.stack = fac.stack
        /\ fac'.factors = fac.factors /\ fac'.n = fac.n
    BY <1>1, <2>1 DEF FactorFrames
  <2>3. QED
    BY <2>1, <2>2 DEF Accounted, Parts
<1>9. CASE RhoStep \/ NextSeed
  <2> DEFINE u == F(fac.u)
             v == F(F(fac.v))
             c == fac.c + 1
  <2>1. fac.pc = "rho"
        /\ \/ fac' = [fac EXCEPT !.u = u, !.v = v]
           \/ fac' = [fac EXCEPT !.c = c, !.u = 2, !.v = 2]
           \/ fac' = [fac EXCEPT !.pc = "failed"]
    BY <1>9 DEF RhoStep, NextSeed
  <2> HIDE DEF u, v, c
  <2>2. fac'.pc \in {"rho", "failed"} /\ fac'.x = fac.x /\ fac'.stack = fac.stack
        /\ fac'.factors = fac.factors /\ fac'.n = fac.n
    BY <1>1, <2>1 DEF FactorFrames
  <2>3. QED
    BY <2>1, <2>2 DEF Accounted, Parts
<1>10. CASE Split
  <2> DEFINE d == Collision
             e == fac.n \div d
             stack == fac.stack \o <<d, e>>
  <2>1. fac.pc = "rho" /\ d \notin {1, fac.n}
        /\ \E depth \in {Len(stack), fac.depth} :
             fac' = [fac EXCEPT !.pc = "loop", !.stack = stack, !.depth = depth]
    BY <1>10 DEF Split, Push
  <2>2. fac.n \in PartsOf(fac.x) /\ fac.c \in Nat /\ fac.u \in Nat /\ fac.v \in Nat
        /\ fac.x \in Nat /\ fac.stack \in Seq(Nat)
    BY <1>1, <2>1 DEF FactorInvariant, FactorFrames
  <2>3. d \in Nat \ {0} /\ fac.n % d = 0
    <3>1. fac.n \in Nat \ {0}
      BY <2>2 DEF PartsOf
    <3>2. QED
      BY <2>2, <3>1, CollisionIs
  <2> HIDE DEF d
  <2>4. d \in Nat \ {0, 1, fac.n}
    BY <2>1, <2>3
  <2>5. d \in PartsOf(fac.x) /\ e \in PartsOf(fac.x) /\ fac.n = e * d
    BY <2>2, <2>3, <2>4, SplitParts
  <2> HIDE DEF e
  <2>6. d \in Nat \ {0} /\ e \in Nat \ {0}
    BY <2>5 DEF PartsOf
  <2>7. PrimeFactors(fac.n) = PrimeFactors(e) \union PrimeFactors(d)
    <3>1. PrimeFactors(e * d) = PrimeFactors(e) \union PrimeFactors(d)
      BY <2>6, PrimeFactorsOfProduct
    <3>2. QED
      BY <2>5, <3>1
  <2>8. Elements(stack) = E \union {d, e}
    <3>1. d \in Nat /\ e \in Nat
      BY <2>6
    <3>2. QED
      BY <2>2, <3>1, PushedParts
  <2>9. fac'.pc = "loop" /\ fac'.x = fac.x /\ fac'.stack = stack /\ fac'.factors = fac.factors
    <3> HIDE DEF stack
    <3>1. PICK depth : fac' = [fac EXCEPT !.pc = "loop", !.stack = stack, !.depth = depth]
      BY <2>1
    <3>2. QED
      BY <1>1, <3>1 DEF FactorFrames
  <2> HIDE DEF stack
  <2>10. Parts = E \union {fac.n}
    BY <2>1 DEF Parts, Elements
  <2>11. Parts' = E \union {d, e}
    BY <2>8, <2>9 DEF Parts, Elements
  <2> HIDE DEF E
  <2>12. PrimesIn(E \union {fac.n}) = PrimesIn(E \union {d, e})
    BY <2>7 DEF PrimesIn
  <2>13. PrimesIn(Parts) \union fac.factors = PrimeFactors(fac.x)
    BY <2>1 DEF Accounted
  <2>14. PrimesIn(Parts') \union fac'.factors = PrimeFactors(fac'.x)
    BY <2>9, <2>10, <2>11, <2>12, <2>13
  <2>15. QED
    BY <2>9, <2>14 DEF Accounted
<1>11. CASE Finish
  <2>1. fac' = [fac EXCEPT !.pc = "done"] /\ fac.pc = "loop" /\ fac.stack = <<>>
    BY <1>11 DEF Finish
  <2>2. fac'.pc = "done" /\ fac'.x = fac.x /\ fac'.factors = fac.factors
    BY <1>1, <2>1 DEF FactorFrames
  <2>3. Parts = {}
    <3>1. Len(fac.stack) = 0
      BY <2>1
    <3>2. 1 .. 0 = {}
      OBVIOUS
    <3>3. QED
      BY <2>1, <3>1, <3>2 DEF Parts
  <2>4. PrimesIn(Parts) \union fac.factors = PrimeFactors(fac.x)
    BY <2>1 DEF Accounted
  <2>5. PrimesIn({}) = {}
    BY DEF PrimesIn
  <2>6. fac.factors = PrimeFactors(fac.x)
    BY <2>3, <2>4, <2>5
  <2>7. QED
    BY <2>2, <2>6 DEF Accounted
<1>12. QED
  BY <1>2, <1>3, <1>4, <1>5, <1>6, <1>7, <1>8, <1>9, <1>10, <1>11 DEF FactoringStep

\* No other step of the resolution touches the frame of the factoring.
LEMMA AccountKept ==
  ASSUME ResolutionInvariant, CompositeIsRejected, Accounted, [Next]_vars
  PROVE  Accounted'
<1>1. CASE fac' = fac
  BY <1>1 DEF Accounted, Parts
<1>2. CASE FactorPhi
  <2>1. fac'.pc = "start"
    BY <1>2 DEF FactorPhi, CallDistinctPrimeFactors, NoFactoring
  <2>2. QED
    BY <2>1 DEF Accounted
<1>3. CASE RunFactoring
  <2>1. FactoringStep
    BY <1>3 DEF RunFactoring
  <2>2. QED
    BY <2>1, AccountedStep DEF ResolutionInvariant, FramesInvariant
<1>4. fac' = fac \/ FactorPhi \/ RunFactoring
  BY DEF Next, vars, frames, ValidateModulus, ValidateModulusToy, RefuseLargeModulus,
         TestModulus, RunTest, ModulusTested, ValidateDomain, CompleteRoots, RefuseGiven,
         KeepGiven, OmegaFromPsi, SearchPsi, RunSqrt, PsiFound, DeriveRoots, PhiFactored,
         LookUpPhi, NextCandidate, RootsFromGenerator
<1>5. QED
  BY <1>1, <1>2, <1>3, <1>4

(***************************************************************************)
(* Under the hypothesis that the primality test calls no composite prime   *)
(* (include/ntt/ntt_utils.h promises it, and it depends on the table of    *)
(* witnesses): no prime of x is lost or made up while the parts are split. *)
(***************************************************************************)
THEOREM PartsAreAccounted == Spec /\ []CompositeIsRejected => []NothingLost
<1>1. Init => Accounted
  BY DEF Init, NoFactoring, Accounted
<1>2. ResolutionInvariant /\ CompositeIsRejected /\ Accounted /\ [Next]_vars => Accounted'
  BY AccountKept
<1>3. Accounted => NothingLost
  BY DEF Accounted, NothingLost, PrimesIn
<1>4. QED
  BY <1>1, <1>2, <1>3, ResolutionCorrect, PTL DEF Spec

(***************************************************************************)
(* Under the same hypothesis ntt__distinct_prime_factors succeeds with     *)
(* exactly the primes that divide x: the first half of FactorsAreRight.    *)
(***************************************************************************)
THEOREM FactorsFound ==
  Spec /\ []CompositeIsRejected => [](fac.pc = "done" => fac.factors = PrimeFactors(fac.x))
<1>1. Init => Accounted
  BY DEF Init, NoFactoring, Accounted
<1>2. ResolutionInvariant /\ CompositeIsRejected /\ Accounted /\ [Next]_vars => Accounted'
  BY AccountKept
<1>3. Accounted => (fac.pc = "done" => fac.factors = PrimeFactors(fac.x))
  BY DEF Accounted
<1>4. QED
  BY <1>1, <1>2, <1>3, ResolutionCorrect, PTL DEF Spec

\* Pollard's rho never runs out of seeds.
RhoSplits ==
  fac.pc = "rho" /\ Collision = fac.n => fac.c + 1 < fac.n /\ fac.c + 1 <= MaxSeeds

\* The factoring fails only for an input below two or for want of room.
FailsForRoom ==
  fac.pc = "failed" => fac.x <= 1 \/ Cardinality(PrimeFactors(fac.x)) > MaxFactors

\* A number that is not zero has finitely many prime factors.
LEMMA FinitelyManyPrimes ==
  ASSUME NEW n \in Nat
  PROVE  IsFiniteSet(PrimeFactors(n)) /\ Cardinality(PrimeFactors(n)) \in Nat
<1>1. IsFiniteSet(2 .. n)
  BY FS_Interval
<1>2. PrimeFactors(n) \in SUBSET (2 .. n)
  BY DEF PrimeFactors
<1>3. QED
  BY <1>1, <1>2, FS_Subset, FS_CardinalityType

\* More primes than there is room for
LEMMA TooManyPrimes ==
  ASSUME NEW n \in Nat, NEW T \in SUBSET PrimeFactors(n), NEW p \in PrimeFactors(n) \ T,
         Cardinality(T) >= MaxFactors
  PROVE  Cardinality(PrimeFactors(n)) > MaxFactors
<1>1. IsFiniteSet(PrimeFactors(n)) /\ Cardinality(PrimeFactors(n)) \in Nat
  BY FinitelyManyPrimes
<1>2. IsFiniteSet(T) /\ Cardinality(T) \in Nat /\ MaxFactors \in Nat
  BY <1>1, FS_Subset, FS_CardinalityType, FactoringAssumption
<1>3. Cardinality(T \union {p}) = Cardinality(T) + 1
  BY <1>2, FS_AddElement
<1>4. Cardinality(T \union {p}) <= Cardinality(PrimeFactors(n))
  <2>1. T \union {p} \in SUBSET PrimeFactors(n)
    OBVIOUS
  <2>2. QED
    BY <1>1, <2>1, FS_Subset
<1>5. QED
  BY <1>1, <1>2, <1>3, <1>4

\* Each step of the factoring preserves it.
LEMMA FailsStep ==
  ASSUME FactorInvariant, TestInvariant, PartUnderTest, CompositeIsRejected, Accounted,
         RhoSplits, FailsForRoom, FactoringStep
  PROVE  FailsForRoom'
<1>1. fac \in FactorFrames /\ MaxFactors \in Nat
  BY FactoringAssumption DEF FactorInvariant
<1>2. CASE RejectInput
  <2>1. fac'.x = fac.x /\ fac.x \in Nat
    BY <1>1, <1>2 DEF RejectInput, FactorFrames
  <2>2. CASE fac.x <= 1
    BY <2>1, <2>2 DEF FailsForRoom
  <2>3. CASE fac.x > 1 /\ fac.x % 2 = 0 /\ MaxFactors = 0
    <3>1. 2 \in PrimeFactors(fac.x)
      <4>1. Prime(2)
        BY DEF Prime
      <4>2. QED
        BY <2>1, <2>3, <4>1 DEF PrimeFactors, Divides
    <3>2. {} \in SUBSET PrimeFactors(fac.x) /\ Cardinality({}) >= MaxFactors
      BY <2>3, FS_EmptySet
    <3>3. Cardinality(PrimeFactors(fac.x)) > MaxFactors
      BY <2>1, <3>1, <3>2, TooManyPrimes
    <3>4. QED
      BY <2>1, <3>3 DEF FailsForRoom
  <2>4. QED
    BY <1>2, <2>1, <2>2, <2>3 DEF RejectInput, Even
<1>3. CASE RecordPrime
  <2>1. CASE fac.n \notin fac.factors /\ Cardinality(fac.factors) >= MaxFactors
    <3>1. fac.pc = "test" /\ MillerRabinDone /\ mr.prime /\ fac'.x = fac.x /\ fac.x \in Nat
      BY <1>1, <1>3, <2>1 DEF RecordPrime, FactorFrames
    <3>2. Prime(fac.n) /\ fac.n \in Nat
      BY <1>1, <3>1 DEF CompositeIsRejected, PartUnderTest, FactorFrames
    <3>3. PrimeFactors(fac.n) = {fac.n}
      BY <3>2, PrimesOfPrime
    <3>4. fac.n \in Parts
      BY <3>1 DEF Parts
    <3>5. PrimesIn(Parts) \union fac.factors = PrimeFactors(fac.x)
      BY <3>1 DEF Accounted
    <3>6. fac.n \in PrimeFactors(fac.x) /\ fac.factors \in SUBSET PrimeFactors(fac.x)
      BY <3>3, <3>4, <3>5 DEF PrimesIn
    <3>7. Cardinality(PrimeFactors(fac.x)) > MaxFactors
      BY <2>1, <3>1, <3>6, TooManyPrimes
    <3>8. QED
      BY <3>1, <3>7 DEF FailsForRoom
  <2>2. CASE ~(fac.n \notin fac.factors /\ Cardinality(fac.factors) >= MaxFactors)
    <3>1. fac'.pc = "loop"
      BY <1>1, <1>3, <2>2 DEF RecordPrime, FactorFrames
    <3>2. QED
      BY <3>1 DEF FailsForRoom
  <2>3. QED
    BY <2>1, <2>2
<1>4. CASE NextSeed
  <2>1. fac' = [fac EXCEPT !.c = @ + 1, !.u = 2, !.v = 2] /\ fac.pc = "rho"
    BY <1>4 DEF NextSeed, RhoSplits
  <2>2. fac'.pc = "rho"
    BY <1>1, <2>1 DEF FactorFrames
  <2>3. QED
    BY <2>2 DEF FailsForRoom
<1>5. CASE Split
  <2>1. PICK stack, depth :
          fac' = [fac EXCEPT !.pc = "loop", !.stack = stack, !.depth = depth]
    BY <1>5 DEF Split, Push
  <2>2. fac'.pc = "loop"
    BY <1>1, <2>1 DEF FactorFrames
  <2>3. QED
    BY <2>2 DEF FailsForRoom
<1>6. CASE TestPart
  BY <1>6 DEF TestPart, FailsForRoom
<1>7. CASE PowerOfTwoOnly \/ StripTwo \/ PopPart \/ StartRho \/ RhoStep \/ Finish
  <2>1. fac'.pc # "failed"
    BY <1>1, <1>7 DEF PowerOfTwoOnly, StripTwo, PopPart, StartRho, RhoStep, Finish,
                      FactorFrames
  <2>2. QED
    BY <2>1 DEF FailsForRoom
<1>8. QED
  BY <1>2, <1>3, <1>4, <1>5, <1>6, <1>7 DEF FactoringStep

\* Every step of the resolution preserves it.
LEMMA FailsKept ==
  ASSUME ResolutionInvariant, CompositeIsRejected, Accounted, RhoSplits, FailsForRoom,
         [Next]_vars
  PROVE  FailsForRoom'
<1>1. CASE fac' = fac
  BY <1>1 DEF FailsForRoom
<1>2. CASE FactorPhi
  <2>1. fac'.pc = "start"
    BY <1>2 DEF FactorPhi, CallDistinctPrimeFactors, NoFactoring
  <2>2. QED
    BY <2>1 DEF FailsForRoom
<1>3. CASE RunFactoring
  <2>1. FactoringStep
    BY <1>3 DEF RunFactoring
  <2>2. QED
    BY <2>1, FailsStep DEF ResolutionInvariant, FramesInvariant
<1>4. fac' = fac \/ FactorPhi \/ RunFactoring
  BY DEF Next, vars, frames, ValidateModulus, ValidateModulusToy, RefuseLargeModulus,
         TestModulus, RunTest, ModulusTested, ValidateDomain, CompleteRoots, RefuseGiven,
         KeepGiven, OmegaFromPsi, SearchPsi, RunSqrt, PsiFound, DeriveRoots, PhiFactored,
         LookUpPhi, NextCandidate, RootsFromGenerator
<1>5. QED
  BY <1>1, <1>2, <1>3, <1>4

(***************************************************************************)
(* If no composite is called prime and Pollard's rho does not run out of   *)
(* seeds, the factoring succeeds with exactly the primes of x, and fails   *)
(* only for an input below two or for want of room.                        *)
(***************************************************************************)
THEOREM FactoringDecides ==
  Spec /\ []CompositeIsRejected /\ []RhoSplits => []FactorsAreRight
<1>1. Init => Accounted /\ FailsForRoom
  BY DEF Init, NoFactoring, Accounted, FailsForRoom
<1>2. ResolutionInvariant /\ CompositeIsRejected /\ Accounted /\ [Next]_vars => Accounted'
  BY AccountKept
<1>3. ResolutionInvariant /\ CompositeIsRejected /\ RhoSplits /\ Accounted /\ FailsForRoom
        /\ [Next]_vars => FailsForRoom'
  BY FailsKept
<1>4. Accounted /\ FailsForRoom => FactorsAreRight
  BY DEF Accounted, FailsForRoom, FactorsAreRight
<1>5. QED
  BY <1>1, <1>2, <1>3, <1>4, ResolutionCorrect, PTL DEF Spec

\* Which number is factored
Factored ==
  /\ fac.pc = "idle" => fac.x = 0
  /\ fac.pc # "idle" => fac.x = req.q - 1

\* Every step of the resolution preserves it.
LEMMA FactoredKept ==
  ASSUME ResolutionInvariant, Factored, [Next]_vars
  PROVE  Factored'
<1>0. req' = req
  BY TestInResolution
<1>1. CASE fac' = fac
  BY <1>0, <1>1 DEF Factored
<1>2. CASE FactorPhi
  <2>1. fac'.pc = "start" /\ fac'.x = req.q - 1
    BY <1>2 DEF FactorPhi, CallDistinctPrimeFactors, NoFactoring
  <2>2. QED
    BY <1>0, <2>1 DEF Factored
<1>3. CASE RunFactoring
  <2>1. FactoringStep /\ pc = "factors"
    BY <1>3 DEF RunFactoring
  <2>2. fac'.x = fac.x /\ fac.x = req.q - 1
    BY <2>1, FactoringStepInvariant DEF ResolutionInvariant, FramesInvariant, Progress
  <2>3. fac'.pc # "idle"
    <3>1. fac \in FactorFrames
      BY DEF ResolutionInvariant, FramesInvariant, FactorInvariant
    <3>2. CASE Split
      <4>1. PICK stack, depth :
              fac' = [fac EXCEPT !.pc = "loop", !.stack = stack, !.depth = depth]
        BY <3>2 DEF Split, Push
      <4>2. QED
        BY <3>1, <4>1 DEF FactorFrames
    <3>3. CASE ~Split
      BY <2>1, <3>1, <3>3
         DEF FactoringStep, RejectInput, PowerOfTwoOnly, StripTwo, PopPart, TestPart,
             RecordPrime, StartRho, RhoStep, NextSeed, Finish, FactorFrames
    <3>4. QED
      BY <3>2, <3>3
  <2>4. QED
    BY <1>0, <2>2, <2>3 DEF Factored
<1>4. fac' = fac \/ FactorPhi \/ RunFactoring
  BY DEF Next, vars, frames, ValidateModulus, ValidateModulusToy, RefuseLargeModulus,
         TestModulus, RunTest, ModulusTested, ValidateDomain, CompleteRoots, RefuseGiven,
         KeepGiven, OmegaFromPsi, SearchPsi, RunSqrt, PsiFound, DeriveRoots, PhiFactored,
         LookUpPhi, NextCandidate, RootsFromGenerator
<1>5. QED
  BY <1>1, <1>2, <1>3, <1>4

-----------------------------------------------------------------------------
(***************************************************************************)
(* The seeds of Pollard's rho                                              *)
(***************************************************************************)

(***************************************************************************)
(* The k-th value of Pollard's sequence for n with the seed c, and the     *)
(* divisor of n that the k-th comparison shows                             *)
(***************************************************************************)
Rho(n, c, k) ==
  LET u[j \in Nat] == IF j = 0 THEN 2 ELSE (MulMod(u[j - 1], u[j - 1], n) + c) % n IN u[k]

Divisor(n, c, k) == Gcd(Distance(Rho(n, c, k), Rho(n, c, 2 * k)), n)

\* The first divisor but 1 is a proper one.
SeedSplits(n, c) ==
  \E k \in Nat \ {0} : /\ Divisor(n, c, k) \notin {1, n}
                       /\ \A j \in 1 .. k - 1 : Divisor(n, c, j) = 1

\* Every composite that a request may have split is split by some seed.
SeedsSuffice ==
  \A r \in Requests : \A n \in PartsOf(r.q - 1) :
    ~Prime(n) => \E c \in 1 .. MaxSeeds : c < n /\ SeedSplits(n, c)

\* The equations of the sequence
LEMMA RhoIs ==
  ASSUME NEW n \in Nat \ {0}, NEW c \in Nat
  PROVE  /\ Rho(n, c, 0) = 2
         /\ \A k \in Nat : Rho(n, c, k + 1)
                             = (MulMod(Rho(n, c, k), Rho(n, c, k), n) + c) % n
<1> DEFINE D == [a \in Nat \X Nat |-> (MulMod(a[2], a[2], n) + c) % n]
           u == CHOOSE f :
                  f = [j \in Nat |-> IF j = 0 THEN 2
                                     ELSE (MulMod(f[j - 1], f[j - 1], n) + c) % n]
<1>1. D \in [Nat \X Nat -> Nat]
  <2>1. ASSUME NEW a \in Nat
        PROVE  (MulMod(a, a, n) + c) % n \in Nat
    <3>1. MulMod(a, a, n) \in 0 .. n - 1
      BY MulModType
    <3> DEFINE y == MulMod(a, a, n) + c
    <3>2. y \in Nat
      BY <3>1
    <3> HIDE DEF y
    <3>3. y % n \in 0 .. n - 1
      BY <3>2, ModIdempotent
    <3>4. QED
      BY <3>3 DEF y
  <2>2. QED
    BY <2>1
<1>2. PICK f \in [Nat -> Nat] : SolvesNat(f, 2, D)
  <2> HIDE DEF D
  <2>1. QED
    BY <1>1, NatRecursion
<1>3. \A j \in Nat : j # 0 => D[<<j, f[j - 1]>>] = (MulMod(f[j - 1], f[j - 1], n) + c) % n
  BY <1>2
<1>4. f = [j \in Nat |-> IF j = 0 THEN 2 ELSE (MulMod(f[j - 1], f[j - 1], n) + c) % n]
  <2> HIDE DEF D
  <2>1. QED
    BY <1>2, <1>3 DEF SolvesNat
<1>5. u = [j \in Nat |-> IF j = 0 THEN 2 ELSE (MulMod(u[j - 1], u[j - 1], n) + c) % n]
  BY <1>4
<1>6. \A k : Rho(n, c, k) = u[k]
  BY DEF Rho
<1> HIDE DEF u, D
<1>7. u[0] = 2
  BY <1>5
<1>8. ASSUME NEW k \in Nat
      PROVE  u[k + 1] = (MulMod(u[k], u[k], n) + c) % n
  <2>1. k + 1 \in Nat /\ k + 1 # 0 /\ (k + 1) - 1 = k
    OBVIOUS
  <2>2. u[k + 1] = IF k + 1 = 0 THEN 2
                   ELSE (MulMod(u[(k + 1) - 1], u[(k + 1) - 1], n) + c) % n
    BY <1>5, <2>1
  <2>3. QED
    BY <2>1, <2>2
<1>9. QED
  BY <1>6, <1>7, <1>8

\* Where the loop of the current seed is, and that it has found nothing yet
Runs(k) ==
  /\ fac.u = Rho(fac.n, fac.c, k) /\ fac.v = Rho(fac.n, fac.c, 2 * k)
  /\ \A j \in 1 .. k : Divisor(fac.n, fac.c, j) = 1

(***************************************************************************)
(* While a part is split: it is composite, the sequences have found no     *)
(* divisor yet, and no seed before would have.                             *)
(***************************************************************************)
RhoRun ==
  fac.pc = "rho" =>
    /\ ~Prime(fac.n) /\ fac.c # 0
    /\ \E k \in Nat : Runs(k)
    /\ \A d \in 1 .. fac.c - 1 : ~SeedSplits(fac.n, d)

\* One step of both sequences shows the next divisor.
LEMMA NextDivisor ==
  ASSUME fac.n \in Nat \ {0}, fac.c \in Nat, NEW k \in Nat, Runs(k)
  PROVE  /\ F(fac.u) = Rho(fac.n, fac.c, k + 1)
         /\ F(F(fac.v)) = Rho(fac.n, fac.c, 2 * (k + 1))
         /\ Collision = Divisor(fac.n, fac.c, k + 1)
<1>1. \A j \in Nat : F(Rho(fac.n, fac.c, j)) = Rho(fac.n, fac.c, j + 1)
  BY RhoIs DEF F
<1>2. F(fac.u) = Rho(fac.n, fac.c, k + 1)
  BY <1>1 DEF Runs
<1>3. F(F(fac.v)) = Rho(fac.n, fac.c, 2 * (k + 1))
  <2>1. 2 * k \in Nat /\ 2 * k + 1 \in Nat /\ (2 * k + 1) + 1 = 2 * (k + 1)
    OBVIOUS
  <2>2. F(fac.v) = Rho(fac.n, fac.c, 2 * k + 1)
    BY <1>1, <2>1 DEF Runs
  <2>3. F(F(fac.v)) = Rho(fac.n, fac.c, (2 * k + 1) + 1)
    BY <1>1, <2>1, <2>2
  <2>4. QED
    BY <2>1, <2>3
<1>4. QED
  BY <1>2, <1>3 DEF Collision, Divisor

\* A cycle that closes without a divisor: the seed does not split n.
LEMMA SeedFails ==
  ASSUME fac.n \in Nat \ {0, 1}, fac.c \in Nat, NEW k \in Nat, Runs(k), Collision = fac.n
  PROVE  ~SeedSplits(fac.n, fac.c)
<1>1. Divisor(fac.n, fac.c, k + 1) = fac.n
  BY NextDivisor
<1>2. ASSUME NEW l \in Nat \ {0}, Divisor(fac.n, fac.c, l) \notin {1, fac.n},
             \A j \in 1 .. l - 1 : Divisor(fac.n, fac.c, j) = 1
      PROVE  FALSE
  <2>1. CASE l <= k
    BY <1>2, <2>1 DEF Runs
  <2>2. CASE l = k + 1
    BY <1>1, <1>2, <2>2
  <2>3. CASE l > k + 1
    <3>1. k + 1 \in 1 .. l - 1
      BY <2>3
    <3>2. QED
      BY <1>1, <1>2, <3>1
  <2>4. QED
    BY <2>1, <2>2, <2>3
<1>3. QED
  BY <1>2 DEF SeedSplits

\* Each step of the factoring preserves it.
LEMMA RhoStepKept ==
  ASSUME FactorInvariant, TestInvariant, PartUnderTest, RhoRun, FactoringStep
  PROVE  RhoRun'
<1>1. fac \in FactorFrames
  BY DEF FactorInvariant
<1>2. CASE fac'.pc # "rho"
  BY <1>2 DEF RhoRun
<1>3. CASE StartRho
  <2>1. fac.pc = "test" /\ MillerRabinDone /\ ~mr.prime
        /\ fac' = [fac EXCEPT !.pc = "rho", !.c = 1, !.u = 2, !.v = 2]
    BY <1>3 DEF StartRho
  <2>2. fac'.n = fac.n /\ fac'.c = 1 /\ fac'.u = 2 /\ fac'.v = 2
    BY <1>1, <2>1 DEF FactorFrames
  <2>3. ~Prime(fac.n)
    BY <2>1 DEF TestInvariant, NoPrimeRejected, PartUnderTest
  <2>4. fac.n \in Nat \ {0}
    BY <2>1 DEF FactorInvariant, PartsOf
  <2>5. Runs(0)'
    <3>1. Rho(fac.n, 1, 0) = 2 /\ 2 * 0 = 0 /\ 1 .. 0 = {}
      BY <2>4, RhoIs
    <3>2. QED
      BY <2>2, <3>1 DEF Runs
  <2>6. 1 .. 1 - 1 = {}
    OBVIOUS
  <2>7. QED
    BY <2>2, <2>3, <2>5, <2>6 DEF RhoRun
<1>4. CASE RhoStep
  <2>1. fac.pc = "rho" /\ Collision = 1
        /\ fac' = [fac EXCEPT !.u = F(fac.u), !.v = F(F(fac.v))]
    BY <1>4 DEF RhoStep
  <2>2. fac.n \in Nat \ {0} /\ fac.c \in Nat
    BY <1>1, <2>1 DEF FactorInvariant, PartsOf, FactorFrames
  <2>3. PICK k \in Nat : Runs(k)
    BY <2>1 DEF RhoRun
  <2>4. fac'.n = fac.n /\ fac'.c = fac.c /\ fac'.u = Rho(fac.n, fac.c, k + 1)
        /\ fac'.v = Rho(fac.n, fac.c, 2 * (k + 1))
    <3>1. fac'.n = fac.n /\ fac'.c = fac.c /\ fac'.u = F(fac.u) /\ fac'.v = F(F(fac.v))
      BY <1>1, <2>1 DEF FactorFrames
    <3>2. QED
      BY <2>2, <2>3, <3>1, NextDivisor
  <2>5. Divisor(fac.n, fac.c, k + 1) = 1
    BY <2>1, <2>2, <2>3, NextDivisor
  <2>6. \A j \in 1 .. k + 1 : Divisor(fac.n, fac.c, j) = 1
    <3>1. \A j \in 1 .. k + 1 : j \in 1 .. k \/ j = k + 1
      BY <2>3
    <3>2. QED
      BY <2>3, <2>5, <3>1 DEF Runs
  <2>7. Runs(k + 1)' /\ k + 1 \in Nat
    BY <2>4, <2>6 DEF Runs
  <2>8. QED
    BY <2>1, <2>4, <2>7 DEF RhoRun
<1>5. CASE NextSeed /\ fac'.pc = "rho"
  <2>1. fac.pc = "rho" /\ Collision = fac.n
        /\ fac' = [fac EXCEPT !.c = fac.c + 1, !.u = 2, !.v = 2]
    <3>1. fac' = [fac EXCEPT !.c = fac.c + 1, !.u = 2, !.v = 2]
          \/ fac' = [fac EXCEPT !.pc = "failed"]
      BY <1>5 DEF NextSeed
    <3>2. fac' # [fac EXCEPT !.pc = "failed"]
      BY <1>1, <1>5 DEF FactorFrames
    <3>3. QED
      BY <1>5, <3>1, <3>2 DEF NextSeed
  <2>2. fac.n \in Nat \ {0, 1} /\ fac.c \in Nat \ {0}
    BY <1>1, <2>1 DEF FactorInvariant, PartsOf, FactorFrames, RhoRun
  <2>3. PICK k \in Nat : Runs(k)
    BY <2>1 DEF RhoRun
  <2>4. fac'.n = fac.n /\ fac'.c = fac.c + 1 /\ fac'.u = 2 /\ fac'.v = 2
    BY <1>1, <2>1 DEF FactorFrames
  <2>5. ~SeedSplits(fac.n, fac.c)
    BY <2>1, <2>2, <2>3, SeedFails
  <2>6. \A d \in 1 .. (fac.c + 1) - 1 : ~SeedSplits(fac.n, d)
    <3>1. \A d \in 1 .. (fac.c + 1) - 1 : d \in 1 .. fac.c - 1 \/ d = fac.c
      BY <2>2
    <3>2. QED
      BY <2>1, <2>5, <3>1 DEF RhoRun
  <2>7. Runs(0)'
    <3>1. Rho(fac.n, fac.c + 1, 0) = 2 /\ 2 * 0 = 0 /\ 1 .. 0 = {}
      BY <2>2, RhoIs
    <3>2. QED
      BY <2>4, <3>1 DEF Runs
  <2>8. fac'.c # 0
    BY <2>2, <2>4
  <2>9. QED
    BY <2>1, <2>4, <2>6, <2>7, <2>8 DEF RhoRun
<1>6. CASE TestPart
  BY <1>2, <1>6 DEF TestPart
<1>7. CASE RejectInput \/ PowerOfTwoOnly \/ StripTwo \/ PopPart \/ RecordPrime \/ Split
           \/ Finish
  <2>1. fac'.pc # "rho"
    <3>1. CASE Split
      <4>1. PICK stack, depth :
              fac' = [fac EXCEPT !.pc = "loop", !.stack = stack, !.depth = depth]
        BY <3>1 DEF Split, Push
      <4>2. QED
        BY <1>1, <4>1 DEF FactorFrames
    <3>2. CASE ~Split
      BY <1>1, <1>7, <3>2 DEF RejectInput, PowerOfTwoOnly, StripTwo, PopPart, RecordPrime,
                              Finish, FactorFrames
    <3>3. QED
      BY <3>1, <3>2
  <2>2. QED
    BY <1>2, <2>1
<1>8. QED
  BY <1>2, <1>3, <1>4, <1>5, <1>6, <1>7 DEF FactoringStep

\* Every step of the resolution preserves it.
LEMMA RhoKept ==
  ASSUME ResolutionInvariant, RhoRun, [Next]_vars
  PROVE  RhoRun'
<1>1. CASE fac' = fac
  BY <1>1 DEF RhoRun, Runs
<1>2. CASE FactorPhi
  <2>1. fac'.pc = "start"
    BY <1>2 DEF FactorPhi, CallDistinctPrimeFactors, NoFactoring
  <2>2. QED
    BY <2>1 DEF RhoRun
<1>3. CASE RunFactoring
  <2>1. FactoringStep
    BY <1>3 DEF RunFactoring
  <2>2. QED
    BY <2>1, RhoStepKept DEF ResolutionInvariant, FramesInvariant
<1>4. fac' = fac \/ FactorPhi \/ RunFactoring
  BY DEF Next, vars, frames, ValidateModulus, ValidateModulusToy, RefuseLargeModulus,
         TestModulus, RunTest, ModulusTested, ValidateDomain, CompleteRoots, RefuseGiven,
         KeepGiven, OmegaFromPsi, SearchPsi, RunSqrt, PsiFound, DeriveRoots, PhiFactored,
         LookUpPhi, NextCandidate, RootsFromGenerator
<1>5. QED
  BY <1>1, <1>2, <1>3, <1>4

\* If a seed splits n, it is not among those that have failed.
LEMMA SeedsRemain ==
  ASSUME ResolutionInvariant, Factored, RhoRun, SeedsSuffice
  PROVE  RhoSplits
<1> SUFFICES ASSUME fac.pc = "rho", Collision = fac.n
             PROVE  fac.c + 1 < fac.n /\ fac.c + 1 <= MaxSeeds
  BY DEF RhoSplits
<1>1. req \in Requests /\ FactorInvariant /\ fac.x = req.q - 1
  BY DEF ResolutionInvariant, FramesInvariant, Factored
<1>2. fac.n \in PartsOf(req.q - 1) /\ fac.c \in Nat /\ ~Prime(fac.n)
  BY <1>1 DEF FactorInvariant, FactorFrames, RhoRun
<1>3. fac.n \in Nat \ {0, 1} /\ MaxSeeds \in Nat
  BY <1>2, FactoringAssumption DEF PartsOf
<1>4. PICK c \in 1 .. MaxSeeds : c < fac.n /\ SeedSplits(fac.n, c)
  BY <1>1, <1>2 DEF SeedsSuffice
<1>5. PICK k \in Nat : Runs(k)
  BY DEF RhoRun
<1>6. ~SeedSplits(fac.n, fac.c)
  BY <1>2, <1>3, <1>5, SeedFails
<1>7. c \notin 1 .. fac.c
  <2>1. \A d \in 1 .. fac.c : d \in 1 .. fac.c - 1 \/ d = fac.c
    BY <1>2
  <2>2. QED
    BY <1>4, <1>6, <2>1 DEF RhoRun
<1>8. c > fac.c
  BY <1>2, <1>7
<1>9. QED
  BY <1>2, <1>3, <1>4, <1>8

\* The seeds do not run out.
LEMMA SeedsDoNotRunOut ==
  ASSUME SeedsSuffice
  PROVE  Spec => []RhoSplits
<1>1. Init => Factored /\ RhoRun
  BY DEF Init, NoFactoring, Factored, RhoRun
<1>2. ResolutionInvariant /\ Factored /\ RhoRun /\ [Next]_vars => Factored' /\ RhoRun'
  BY FactoredKept, RhoKept
<1>3. ResolutionInvariant /\ Factored /\ RhoRun => RhoSplits
  BY SeedsRemain
<1>4. QED
  BY <1>1, <1>2, <1>3, ResolutionCorrect, PTL DEF Spec

(***************************************************************************)
(* ntt__distinct_prime_factors succeeds with exactly the primes of x, and  *)
(* fails only for want of room, when the witnesses suffice for the parts   *)
(* and each composite part is split by one of the seeds.                   *)
(***************************************************************************)
THEOREM FactoringCorrect ==
  ASSUME WitnessesSuffice, SeedsSuffice
  PROVE  Spec => []FactorsAreRight
<1>1. Spec => []CompositeIsRejected
  BY CompositesRejected
<1>2. Spec => []RhoSplits
  BY SeedsDoNotRunOut
<1>3. QED
  BY <1>1, <1>2, FactoringDecides, PTL

-----------------------------------------------------------------------------
(***************************************************************************)
(* How many parts the stack of the factoring holds                         *)
(***************************************************************************)

SomePrime(j) == CHOOSE p \in PrimeFactors(j) : TRUE

IsCount(w) == w = [j \in Nat |-> IF j < 2 THEN 0 ELSE 1 + w[j \div SomePrime(j)]]

\* Every number but one has a prime factor.
LEMMA PrimeFactorExists ==
  ASSUME NEW j \in Nat, j >= 2
  PROVE  \E p \in Nat : Prime(p) /\ j % p = 0
<1> DEFINE D == {d \in Nat : d >= 2 /\ j % d = 0}
<1>1. j \in D
  OBVIOUS
<1>2. PICK p \in D : \A d \in D : p <= d
  BY <1>1, LeastElement
<1>3. ASSUME NEW d \in 2 .. p \div 2, p % d = 0
      PROVE  FALSE
  <2>1. d \in Nat \ {0} /\ p \in Nat \ {0} /\ d < p /\ d >= 2
    OBVIOUS
  <2>2. j % p = 0
    BY <1>2
  <2>3. j % d = 0
    BY <1>3, <2>1, <2>2, DividesTransitive
  <2>4. d \in D
    BY <2>1, <2>3
  <2>5. p <= d
    BY <1>2, <2>4
  <2>6. QED
    BY <2>1, <2>5
<1>4. Prime(p)
  BY <1>2, <1>3 DEF Prime, Divides
<1>5. QED
  BY <1>2, <1>4

\* The one that is chosen
LEMMA SomePrimeIs ==
  ASSUME NEW j \in Nat, j >= 2
  PROVE  /\ SomePrime(j) \in Nat /\ Prime(SomePrime(j)) /\ j % SomePrime(j) = 0
         /\ j \div SomePrime(j) \in 1 .. j - 1
         /\ j = (j \div SomePrime(j)) * SomePrime(j)
<1> DEFINE p == SomePrime(j)
<1>1. p \in PrimeFactors(j)
  <2>1. \E r : r \in PrimeFactors(j)
    BY PrimeFactorExists, PrimeFactorsIs
  <2>2. QED
    BY <2>1 DEF SomePrime
<1> HIDE DEF p
<1>2. p \in Nat /\ Prime(p) /\ j % p = 0
  BY <1>1, PrimeFactorsIs
<1>3. p \in Nat \ {0, 1}
  BY <1>2 DEF Prime
<1> DEFINE k == j \div p
<1>4. k \in Nat \ {0} /\ j = k * p
  BY <1>2, <1>3, ExactQuotient
<1> HIDE DEF k
<1>5. k < j
  <2>1. k * p >= k * 2
    BY <1>3, <1>4
  <2>2. QED
    BY <1>4, <2>1
<1>6. QED
  BY <1>2, <1>4, <1>5 DEF p, k

\* The count of OddPrimes has a solution, a number for every argument.
LEMMA CountExists == \E w : IsCount(w)
<1> DEFINE B == {0, 1}
           C == [j \in Nat |-> 0]
           D == [t \in Nat \X Nat |-> 1 + t[2]]
           G == [j \in Nat |-> j \div SomePrime(j)]
           M == [j \in Nat |-> j]
<1>1. C \in [Nat -> Nat] /\ D \in [Nat \X Nat -> Nat] /\ M \in [Nat -> Nat]
  OBVIOUS
<1>2. \A j \in Nat \ B : G[j] \in Nat /\ M[G[j]] < M[j]
  <2> SUFFICES ASSUME NEW j \in Nat \ B
               PROVE  G[j] \in Nat /\ M[G[j]] < M[j]
    OBVIOUS
  <2> DEFINE rest == j \div SomePrime(j)
  <2>1. rest \in 1 .. j - 1
    BY SomePrimeIs
  <2>2. G[j] = rest
    OBVIOUS
  <2> HIDE DEF rest, G
  <2>3. QED
    BY <2>1, <2>2
<1>3. PICK w : Solves(w, Nat, B, C, D, G)
  <2> HIDE DEF B, C, D, G, M
  <2>1. QED
    BY <1>1, <1>2, RecursionExists
<1>4. w \in [Nat -> Nat]
  <2> HIDE DEF B, C, D, G, M
  <2>1. QED
    BY <1>1, <1>2, <1>3, RecursionType, ZenonT(30)
<1>5. \A j \in Nat : w[j] = IF j < 2 THEN 0 ELSE 1 + w[j \div SomePrime(j)]
  <2> SUFFICES ASSUME NEW j \in Nat
               PROVE  w[j] = IF j < 2 THEN 0 ELSE 1 + w[j \div SomePrime(j)]
    OBVIOUS
  <2>1. w[j] = IF j \in B THEN C[j] ELSE D[<<j, w[G[j]]>>]
    BY <1>3 DEF Solves
  <2>2. CASE j < 2
    BY <2>1, <2>2
  <2>3. CASE ~(j < 2)
    <3>1. G[j] = j \div SomePrime(j) /\ G[j] \in Nat
      <4>1. j \notin B
        BY <2>3
      <4>2. G[j] = j \div SomePrime(j)
        OBVIOUS
      <4> HIDE DEF B, M, G
      <4>3. QED
        BY <1>2, <4>1, <4>2
    <3>2. w[G[j]] \in Nat
      BY <1>4, <3>1
    <3>3. w[j] = 1 + w[G[j]]
      BY <2>1, <2>3, <3>2
    <3> HIDE DEF G
    <3>4. QED
      BY <2>3, <3>1, <3>3
  <2>4. QED
    BY <2>2, <2>3
<1>6. IsCount(w)
  BY <1>4, <1>5 DEF IsCount
<1>7. QED
  BY <1>6

\* Its values
LEMMA CountType ==
  ASSUME NEW w, IsCount(w)
  PROVE  w \in [Nat -> Nat]
<1> DEFINE S == {j \in Nat : w[j] \in Nat}
<1>1. ASSUME NEW j \in Nat, \A i \in 0 .. j - 1 : i \in S
      PROVE  j \in S
  <2> DEFINE rest == j \div SomePrime(j)
  <2>1. w[j] = IF j < 2 THEN 0 ELSE 1 + w[rest]
    BY DEF IsCount
  <2>2. j >= 2 => rest \in 1 .. j - 1
    BY SomePrimeIs
  <2> HIDE DEF rest
  <2>3. j >= 2 => w[rest] \in Nat
    BY <1>1, <2>2
  <2>4. QED
    BY <2>1, <2>3
<1>2. Nat \subseteq S
  <2> HIDE DEF S
  <2>1. QED
    BY <1>1, StrongInduction
<1>3. QED
  BY <1>2 DEF IsCount

\* A product divided by one of its factors
LEMMA QuotientOfProduct ==
  ASSUME NEW a \in Nat, NEW d \in Nat \ {0}
  PROVE  (a * d) \div d = a
<1>1. a * d \in Nat /\ a * d = a * d + 0 /\ 0 \in 0 .. d - 1
  OBVIOUS
<1>2. QED
  BY <1>1, ModUnique

\* Whichever prime is taken out first, the count is the same.
LEMMA CountTimesPrime ==
  ASSUME NEW w, IsCount(w)
  PROVE  \A k \in Nat \ {0} : \A p \in Nat : Prime(p) => w[k * p] = 1 + w[k]
<1> DEFINE Good(k) == \A p \in Nat : Prime(p) => w[k * p] = 1 + w[k]
           S == {k \in Nat : k # 0 => Good(k)}
<1>1. ASSUME NEW k \in Nat, \A i \in 0 .. k - 1 : i \in S
      PROVE  k \in S
  <2> SUFFICES ASSUME k # 0, NEW p \in Nat, Prime(p)
               PROVE  w[k * p] = 1 + w[k]
    OBVIOUS
  <2> DEFINE j == k * p
             r == SomePrime(j)
  <2>1. p > 1
    BY DEF Prime
  <2>2. j \in Nat /\ j >= 2
    <3>1. k * p >= p
      BY <2>1
    <3>2. QED
      BY <2>1, <3>1
  <2> DEFINE rest == j \div r
  <2>3. r \in Nat /\ Prime(r) /\ rest \in 1 .. j - 1 /\ j = rest * r /\ j % r = 0
    <3> HIDE DEF j
    <3>1. QED
      BY <2>2, SomePrimeIs
  <2>4. w[j] = 1 + w[rest]
    <3> HIDE DEF r
    <3>1. w[j] = IF j < 2 THEN 0 ELSE 1 + w[j \div SomePrime(j)]
      <4> HIDE DEF j
      <4>1. QED
        BY <2>2 DEF IsCount
    <3> HIDE DEF j
    <3>2. QED
      BY <2>2, <3>1 DEF r
  <2> HIDE DEF rest, r
  <2>5. CASE r = p
    <3>1. rest = k
      <4>1. rest * p = k * p /\ rest \in Nat /\ p \in Nat \ {0}
        BY <2>1, <2>3, <2>5
      <4>2. (rest * p) \div p = rest /\ (k * p) \div p = k
        BY <4>1, QuotientOfProduct
      <4>3. QED
        BY <4>1, <4>2
    <3>2. QED
      BY <2>4, <3>1
  <2>6. CASE r # p
    <3>1. k % r = 0
      <4>1. k % r = 0 \/ p % r = 0
        BY <2>3, EuclidsLemma
      <4>2. p % r # 0
        <5>1. r \in Nat \ {0} /\ r # 1
          BY <2>3 DEF Prime
        <5>2. QED
          BY <2>6, <5>1, PrimeDivisors
      <4>3. QED
        BY <4>1, <4>2
    <3>2. r \in Nat \ {0, 1}
      BY <2>3 DEF Prime
    <3> DEFINE l == k \div r
    <3>3. l \in Nat \ {0} /\ k = l * r
      BY <3>1, <3>2, ExactQuotient
    <3> HIDE DEF l
    <3>4. l < k
      <4>1. l * r >= l * 2
        BY <3>2, <3>3
      <4>2. QED
        BY <3>3, <4>1
    <3>5. Good(l)
      BY <1>1, <3>3, <3>4
    <3>6. w[l * p] = 1 + w[l] /\ w[k] = 1 + w[l]
      BY <2>3, <3>3, <3>5
    <3>7. rest = l * p
      <4>1. (l * p) * r = k * p /\ l * p \in Nat
        <5>1. (l * p) * r = (l * r) * p
          BY <3>2, <3>3
        <5>2. QED
          BY <3>3, <5>1
      <4>2. rest * r = (l * p) * r /\ rest \in Nat
        BY <2>3, <4>1
      <4> DEFINE h == l * p
      <4> HIDE DEF h
      <4>3. h \in Nat /\ rest * r = h * r
        BY <4>1, <4>2 DEF h
      <4>4. (rest * r) \div r = rest /\ (h * r) \div r = h
        BY <3>2, <4>2, <4>3, QuotientOfProduct
      <4>5. QED
        BY <4>3, <4>4 DEF h
    <3>8. QED
      BY <2>4, <3>6, <3>7
  <2>7. QED
    BY <2>5, <2>6
<1>2. Nat \subseteq S
  <2> HIDE DEF S
  <2>1. QED
    BY <1>1, StrongInduction
<1>3. QED
  BY <1>2

\* A product counts as its factors together, and all but one count.
LEMMA CountProduct ==
  ASSUME NEW w, IsCount(w), NEW a \in Nat \ {0}, NEW b \in Nat \ {0}
  PROVE  w[a * b] = w[a] + w[b]
<1> DEFINE S == {k \in Nat : k # 0 => w[k * b] = w[k] + w[b]}
<1>0. w \in [Nat -> Nat]
  BY CountType
<1>1. ASSUME NEW k \in Nat, \A i \in 0 .. k - 1 : i \in S
      PROVE  k \in S
  <2> SUFFICES ASSUME k # 0
               PROVE  w[k * b] = w[k] + w[b]
    OBVIOUS
  <2>1. CASE k = 1
    <3>1. w[1] = 0
      BY DEF IsCount
    <3>2. 1 * b = b /\ w[b] \in Nat
      BY <1>0
    <3>3. QED
      BY <2>1, <3>1, <3>2
  <2>2. CASE k # 1
    <3> DEFINE p == SomePrime(k)
               l == k \div p
    <3>1. p \in Nat /\ Prime(p) /\ l \in 1 .. k - 1 /\ k = l * p
      BY <2>2, SomePrimeIs
    <3> HIDE DEF p, l
    <3>2. k * b = (l * b) * p
      <4>1. (l * p) * b = (l * b) * p
        BY <3>1
      <4>2. QED
        BY <3>1, <4>1
    <3>3. l * b \in Nat \ {0}
      <4>1. l * b # 0
        BY <3>1
      <4>2. QED
        BY <3>1, <4>1
    <3>4. w[l * b] = w[l] + w[b]
      BY <1>1, <3>1
    <3>5. w[(l * b) * p] = 1 + w[l * b] /\ w[l * p] = 1 + w[l]
      BY <3>1, <3>3, CountTimesPrime
    <3>6. w[l] \in Nat /\ w[b] \in Nat
      BY <1>0, <3>1
    <3>7. QED
      BY <3>1, <3>2, <3>4, <3>5, <3>6
  <2>3. QED
    BY <2>1, <2>2
<1>2. Nat \subseteq S
  <2> HIDE DEF S
  <2>1. QED
    BY <1>1, StrongInduction
<1>3. QED
  BY <1>2

\* The count of OddPrimes
Count ==
  CHOOSE w : w = [j \in Nat |->
    IF j < 2 THEN 0 ELSE LET p == CHOOSE p \in PrimeFactors(j) : TRUE IN 1 + w[j \div p]]

\* What it counts
LEMMA CountIs ==
  /\ IsCount(Count)
  /\ \A k \in Nat : Count[k] \in Nat /\ (k >= 2 => Count[k] >= 1)
  /\ \A k \in Nat \ {0} : OddPrimes(k) = Count[OddPart(k)]
  /\ OddPrimes(0) = 0
<1>1. IsCount(Count)
  BY CountExists DEF IsCount, Count, SomePrime
<1>2. Count \in [Nat -> Nat]
  BY <1>1, CountType
<1>3. ASSUME NEW k \in Nat, k >= 2
      PROVE  Count[k] >= 1
  <2> DEFINE rest == k \div SomePrime(k)
  <2>1. Count[k] = 1 + Count[rest]
    BY <1>1, <1>3 DEF IsCount
  <2>2. rest \in 1 .. k - 1
    BY <1>3, SomePrimeIs
  <2> HIDE DEF rest
  <2>3. Count[rest] \in Nat
    BY <1>2, <2>2
  <2>4. QED
    BY <2>1, <2>3
<1>4. \A k \in Nat \ {0} : OddPrimes(k) = Count[OddPart(k)]
  BY DEF OddPrimes, Count
<1>5. OddPrimes(0) = 0
  BY DEF OddPrimes
<1>6. QED
  BY <1>1, <1>2, <1>3, <1>4, <1>5

\* It is a number.
LEMMA OddPrimesNat ==
  ASSUME NEW k \in Nat
  PROVE  OddPrimes(k) \in Nat
<1>1. CASE k = 0
  BY <1>1, CountIs
<1>2. CASE k # 0
  <2>1. OddPart(k) \in Nat
    BY <1>2, OddPartIs
  <2>2. QED
    BY <1>2, <2>1, CountIs
<1>3. QED
  BY <1>1, <1>2

-----------------------------------------------------------------------------

\* The odd primes of the parts on a stack
Waiting(s) == Total([i \in 0 .. Len(s) - 1 |-> Count[s[i + 1]]], Len(s))

\* The sum goes over numbers.
LEMMA WaitingTerms ==
  ASSUME NEW s \in Seq(Nat)
  PROVE  /\ Len(s) \in Nat /\ \A i \in 1 .. Len(s) : s[i] \in Nat
         /\ Summable([i \in 0 .. Len(s) - 1 |-> Count[s[i + 1]]], Len(s))
         /\ Waiting(s) \in Nat
<1> DEFINE n == Len(s)
           f == [i \in 0 .. n - 1 |-> Count[s[i + 1]]]
<1>1. n \in Nat /\ \A i \in 1 .. n : s[i] \in Nat
  BY LenProperties, ElementOfSeq
<1> HIDE DEF n
<1>2. \A i \in 0 .. n - 1 : f[i] \in Nat
  <2> SUFFICES ASSUME NEW i \in 0 .. n - 1
               PROVE  f[i] \in Nat
    OBVIOUS
  <2>1. s[i + 1] \in Nat
    BY <1>1
  <2>2. QED
    BY <2>1, CountIs
<1> HIDE DEF f
<1>3. Summable(f, n)
  BY <1>1, <1>2 DEF Summable
<1>4. Total(f, n) \in Nat
  BY <1>1, <1>3, TotalNat
<1>5. QED
  BY <1>1, <1>3, <1>4 DEF Waiting, f, n

\* One more part on the stack
LEMMA WaitingGrows ==
  ASSUME NEW s \in Seq(Nat), NEW t \in Seq(Nat), Len(t) = Len(s) + 1,
         \A i \in 1 .. Len(s) : t[i] = s[i]
  PROVE  Waiting(t) = Waiting(s) + Count[t[Len(t)]]
<1> DEFINE n == Len(s)
           f == [i \in 0 .. n - 1 |-> Count[s[i + 1]]]
           h == [i \in 0 .. (n + 1) - 1 |-> Count[t[i + 1]]]
<1>1. n \in Nat /\ Summable(f, n) /\ Summable(h, n + 1)
  BY WaitingTerms
<1>2. \A i \in 0 .. n - 1 : f[i] = h[i]
  <2> SUFFICES ASSUME NEW i \in 0 .. n - 1
               PROVE  f[i] = h[i]
    OBVIOUS
  <2>1. t[i + 1] = s[i + 1]
    BY <1>1
  <2>2. QED
    BY <1>1, <2>1
<1>3. h[n] = Count[t[n + 1]]
  BY <1>1
<1> HIDE DEF f, h
<1>4. Total(h, n + 1) = Total(h, n) + h[n]
  BY <1>1, TotalStep
<1>5. Total(f, n) = Total(h, n)
  BY <1>1, <1>2, TotalEqual
<1>6. Waiting(s) = Total(f, n) /\ Waiting(t) = Total(h, n + 1)
  BY DEF Waiting, f, h
<1>7. QED
  BY <1>3, <1>4, <1>5, <1>6

\* The sum after a push
LEMMA WaitingPushed ==
  ASSUME NEW s \in Seq(Nat), NEW x \in Nat, NEW y \in Nat
  PROVE  Waiting(s \o <<x, y>>) = Waiting(s) + Count[x] + Count[y]
<1> DEFINE t == s \o <<x>>
           r == s \o <<x, y>>
<1>1. s \in Seq(Nat) /\ t \in Seq(Nat) /\ r \in Seq(Nat) /\ Len(s) \in Nat
  OBVIOUS
<1>2. Len(t) = Len(s) + 1 /\ t[Len(t)] = x /\ \A i \in 1 .. Len(s) : t[i] = s[i]
  OBVIOUS
<1>3. Len(r) = Len(t) + 1 /\ r[Len(r)] = y /\ \A i \in 1 .. Len(t) : r[i] = t[i]
  OBVIOUS
<1> HIDE DEF t, r
<1>4. Waiting(t) = Waiting(s) + Count[x]
  BY <1>1, <1>2, WaitingGrows
<1>5. Waiting(r) = Waiting(t) + Count[y]
  BY <1>1, <1>3, WaitingGrows
<1>6. QED
  BY <1>4, <1>5 DEF r

\* The sum before a pop
LEMMA WaitingPopped ==
  ASSUME NEW s \in Seq(Nat), s # <<>>
  PROVE  /\ SubSeq(s, 1, Len(s) - 1) \in Seq(Nat) /\ s[Len(s)] \in Nat
         /\ Waiting(s) = Waiting(SubSeq(s, 1, Len(s) - 1)) + Count[s[Len(s)]]
<1> DEFINE n == Len(s)
           r == SubSeq(s, 1, n - 1)
<1>1. n \in Nat \ {0} /\ s[n] \in Nat
  BY LenProperties, EmptySeq, ElementOfSeq
<1>2. r \in Seq(Nat) /\ Len(r) = n - 1 /\ \A k \in 1 .. n - 1 : r[k] = s[k]
  <2>1. \A k \in 1 .. n - 1 : s[k] \in Nat
    BY <1>1, ElementOfSeq
  <2>2. 1 \in Int /\ n - 1 \in Int
    BY <1>1
  <2> HIDE DEF n
  <2>3. /\ r \in Seq(Nat)
        /\ Len(r) = IF 1 <= n - 1 THEN (n - 1) - 1 + 1 ELSE 0
        /\ \A i \in 1 .. (n - 1) - 1 + 1 : r[i] = s[1 + i - 1]
    BY <2>1, <2>2, SubSeqProperties
  <2> HIDE DEF r
  <2>4. \A i \in 1 .. n - 1 : 1 + i - 1 = i /\ i \in 1 .. (n - 1) - 1 + 1
    BY <1>1
  <2>5. QED
    BY <1>1, <2>3, <2>4
<1> HIDE DEF r
<1>3. Len(s) = Len(r) + 1 /\ \A k \in 1 .. Len(r) : s[k] = r[k]
  BY <1>1, <1>2
<1>4. Waiting(s) = Waiting(r) + Count[s[Len(s)]]
  BY <1>2, <1>3, WaitingGrows
<1>5. QED
  BY <1>1, <1>2, <1>4 DEF r, n

\* Each part on the stack has at least one.
LEMMA WaitingLong ==
  ASSUME NEW x \in Nat, NEW s \in Seq(PartsOf(x))
  PROVE  Len(s) <= Waiting(s)
<1> DEFINE n == Len(s)
           f == [i \in 0 .. n - 1 |-> Count[s[i + 1]]]
           S == {k \in Nat : k <= n => k <= Total(f, k)}
<1>1. s \in Seq(Nat)
  <2>1. PartsOf(x) \subseteq Nat
    BY DEF PartsOf
  <2>2. QED
    BY <2>1, SeqMonotonic
<1>2. n \in Nat /\ Summable(f, n)
  BY <1>1, WaitingTerms
<1>3. \A i \in 0 .. n - 1 : f[i] \in Nat /\ f[i] >= 1
  <2> SUFFICES ASSUME NEW i \in 0 .. n - 1
               PROVE  f[i] \in Nat /\ f[i] >= 1
    OBVIOUS
  <2>1. i + 1 \in 1 .. Len(s)
    BY <1>2
  <2>2. s[i + 1] \in PartsOf(x)
    BY <2>1, ElementOfSeq
  <2>3. s[i + 1] \in Nat /\ s[i + 1] >= 2
    BY <2>2 DEF PartsOf
  <2>4. f[i] = Count[s[i + 1]]
    OBVIOUS
  <2> HIDE DEF f
  <2>5. QED
    BY <2>3, <2>4, CountIs
<1> HIDE DEF f, n
<1>4. 0 \in S
  BY TotalStep
<1>5. ASSUME NEW k \in Nat, k \in S
      PROVE  k + 1 \in S
  <2> SUFFICES ASSUME k + 1 <= n
               PROVE  k + 1 <= Total(f, k + 1)
    OBVIOUS
  <2>1. Summable(f, k + 1) /\ Summable(f, k)
    BY <1>2 DEF Summable
  <2>2. Total(f, k + 1) = Total(f, k) + f[k] /\ Total(f, k) \in Nat
    BY <2>1, TotalStep
  <2>3. k <= Total(f, k) /\ f[k] \in Nat /\ f[k] >= 1
    BY <1>2, <1>3, <1>5
  <2>4. QED
    BY <2>2, <2>3
<1>6. Nat \subseteq S
  <2> HIDE DEF S
  <2>1. QED
    BY <1>4, <1>5, Induction
<1>7. n <= Total(f, n)
  BY <1>2, <1>6
<1>8. QED
  BY <1>7 DEF Waiting, f, n

-----------------------------------------------------------------------------

(***************************************************************************)
(* DepthBounded, with what the stack may still grow by: the odd primes of  *)
(* the parts are never more than those of x, and every part has one.       *)
(***************************************************************************)
Deep ==
  /\ DepthBounded
  /\ fac.pc = "loop" => Waiting(fac.stack) <= OddPrimes(fac.x)
  /\ fac.pc \in {"test", "rho"} => Waiting(fac.stack) + Count[fac.n] <= OddPrimes(fac.x)

\* A step that leaves the stack alone and takes up no part
LEMMA DeepKept ==
  ASSUME Deep, FactorInvariant, FactorInvariant',
         fac'.x = fac.x, fac'.depth = fac.depth, fac'.stack = fac.stack, fac'.n = fac.n,
         \/ fac'.pc \in {"failed", "done", fac.pc}
         \/ fac.pc \in {"test", "rho"} /\ fac'.pc \in {"loop", "rho"}
  PROVE  Deep'
<1>1. fac.depth <= OddPrimes(fac.x)
  BY DEF Deep, DepthBounded
<1>2. DepthBounded'
  BY <1>1 DEF DepthBounded
<1>3. fac.stack \in Seq(Nat) /\ fac.n \in Nat /\ fac.x \in Nat
  BY DEF FactorInvariant, FactorFrames
<1>4. Waiting(fac.stack) \in Nat /\ Count[fac.n] \in Nat /\ OddPrimes(fac.x) \in Nat
  BY <1>3, WaitingTerms, CountIs, OddPrimesNat
<1>5. fac'.pc = "loop" => Waiting(fac.stack) <= OddPrimes(fac.x)
  <2>1. CASE fac.pc = "loop"
    BY <2>1 DEF Deep
  <2>2. CASE fac.pc \in {"test", "rho"}
    <3>1. Waiting(fac.stack) + Count[fac.n] <= OddPrimes(fac.x)
      BY <2>2 DEF Deep
    <3>2. QED
      BY <1>4, <3>1
  <2>3. QED
    BY <2>1, <2>2
<1>6. fac'.pc \in {"test", "rho"} => Waiting(fac.stack) + Count[fac.n] <= OddPrimes(fac.x)
  BY DEF Deep
<1>7. QED
  BY <1>2, <1>5, <1>6 DEF Deep

\* A step of the factoring
LEMMA DeepStep ==
  ASSUME FactorInvariant, TestInvariant, PartUnderTest, Deep, FactoringStep
  PROVE  Deep'
<1>1. fac \in FactorFrames /\ FactorInvariant'
  BY FactoringStepInvariant DEF FactorInvariant
<1>2. CASE RejectInput \/ PowerOfTwoOnly \/ TestPart \/ RecordPrime \/ StartRho \/ RhoStep
           \/ NextSeed \/ Finish
  <2> DEFINE u == F(fac.u)
             v == F(F(fac.v))
             c == fac.c + 1
             two == {2}
             fs == fac.factors \union {fac.n}
  <2>1. \/ fac' = [fac EXCEPT !.pc = "failed"]
        \/ fac' = [fac EXCEPT !.pc = "done", !.factors = two]
        \/ fac' = [fac EXCEPT !.pc = "done"]
        \/ fac' = fac
        \/ fac.pc = "test" /\ fac' = [fac EXCEPT !.pc = "loop", !.factors = fs]
        \/ fac.pc = "test" /\ fac' = [fac EXCEPT !.pc = "rho", !.c = 1, !.u = 2, !.v = 2]
        \/ fac' = [fac EXCEPT !.u = u, !.v = v]
        \/ fac' = [fac EXCEPT !.c = c, !.u = 2, !.v = 2]
    BY <1>2 DEF RejectInput, PowerOfTwoOnly, TestPart, RecordPrime, StartRho, RhoStep, NextSeed,
                Finish
  <2> HIDE DEF u, v, c, two, fs
  <2>2. /\ fac'.x = fac.x /\ fac'.depth = fac.depth /\ fac'.stack = fac.stack /\ fac'.n = fac.n
        /\ \/ fac'.pc \in {"failed", "done", fac.pc}
           \/ fac.pc \in {"test", "rho"} /\ fac'.pc \in {"loop", "rho"}
    BY <1>1, <2>1 DEF FactorFrames
  <2>3. QED
    BY <1>1, <2>2, DeepKept
<1>3. CASE StripTwo
  <2> DEFINE o == OddPart(fac.x)
             stack == <<o>>
  <2>1. PICK fs : fac' = [fac EXCEPT !.pc = "loop", !.factors = fs, !.stack = stack, !.depth = 1]
    BY <1>3 DEF StripTwo
  <2>2. fac.x \in Nat /\ fac.x > 1 /\ o # 1
    BY <1>1, <1>3 DEF StripTwo, FactorFrames
  <2>3. o \in PartsOf(fac.x)
    BY <2>2, OddPartOf
  <2>4. OddPrimes(fac.x) = Count[o]
    BY <2>2, CountIs
  <2> HIDE DEF o
  <2>5. o \in Nat /\ o >= 2
    BY <2>2, <2>3 DEF PartsOf
  <2>6. Count[o] \in Nat /\ Count[o] >= 1
    BY <2>5, CountIs
  <2>7. Waiting(stack) = Count[o]
    <3>1. stack \in Seq(Nat) /\ Len(stack) = 1 /\ stack[1] = o /\ <<>> \in Seq(Nat)
          /\ Len(<<>>) = 0
      BY <2>5
    <3> HIDE DEF stack
    <3>2. Waiting(<<>>) = 0
      BY <3>1, TotalStep DEF Waiting
    <3>3. Len(stack) = Len(<<>>) + 1 /\ \A i \in 1 .. Len(<<>>) : stack[i] = <<>>[i]
      BY <3>1
    <3>4. Waiting(stack) = Waiting(<<>>) + Count[stack[Len(stack)]]
      BY <3>1, <3>3, WaitingGrows
    <3>5. QED
      BY <2>6, <3>1, <3>2, <3>4
  <2> HIDE DEF stack
  <2>8. fac'.pc = "loop" /\ fac'.stack = stack /\ fac'.depth = 1 /\ fac'.x = fac.x
    BY <1>1, <2>1 DEF FactorFrames
  <2>9. QED
    BY <2>4, <2>6, <2>7, <2>8 DEF Deep, DepthBounded
<1>4. CASE PopPart
  <2> DEFINE top == fac.stack[Len(fac.stack)]
             rest == SubSeq(fac.stack, 1, Len(fac.stack) - 1)
  <2>1. fac' = [fac EXCEPT !.pc = "test", !.n = top, !.stack = rest]
        /\ fac.stack # <<>> /\ fac.pc = "loop"
    BY <1>4 DEF PopPart
  <2>2. fac.stack \in Seq(Nat)
    BY <1>1 DEF FactorFrames
  <2>3. Waiting(fac.stack) = Waiting(rest) + Count[top]
    BY <2>1, <2>2, WaitingPopped
  <2> HIDE DEF top, rest
  <2>4. fac'.pc = "test" /\ fac'.x = fac.x /\ fac'.stack = rest /\ fac'.n = top
        /\ fac'.depth = fac.depth
    BY <1>1, <2>1 DEF FactorFrames
  <2>5. Waiting(fac.stack) <= OddPrimes(fac.x) /\ fac.depth <= OddPrimes(fac.x)
    BY <2>1 DEF Deep, DepthBounded
  <2>6. QED
    BY <2>3, <2>4, <2>5 DEF Deep, DepthBounded
<1>5. CASE Split
  <2> DEFINE d == Collision
             e == fac.n \div d
             stack == fac.stack \o <<d, e>>
  <2>1. /\ fac.pc = "rho" /\ d \notin {1, fac.n}
        /\ \E depth \in {Len(stack), fac.depth} :
             fac' = [fac EXCEPT !.pc = "loop", !.stack = stack, !.depth = depth]
    BY <1>5 DEF Split, Push
  <2>2. fac.n \in PartsOf(fac.x) /\ fac.c \in Nat /\ fac.u \in Nat /\ fac.v \in Nat
        /\ fac.x \in Nat /\ fac.stack \in Seq(Nat)
    BY <1>1, <2>1 DEF FactorInvariant, FactorFrames
  <2>3. d \in Nat \ {0} /\ fac.n % d = 0
    <3>1. fac.n \in Nat \ {0}
      BY <2>2 DEF PartsOf
    <3>2. QED
      BY <2>2, <3>1, CollisionIs
  <2> HIDE DEF d
  <2>4. d \in Nat \ {0, 1, fac.n}
    BY <2>1, <2>3
  <2>5. d \in PartsOf(fac.x) /\ e \in PartsOf(fac.x) /\ fac.n = e * d
    BY <2>2, <2>3, <2>4, SplitParts
  <2> HIDE DEF e
  <2>6. d \in Nat \ {0} /\ e \in Nat \ {0} /\ d \in Nat /\ e \in Nat
    BY <2>5 DEF PartsOf
  <2>7. Count[fac.n] = Count[e] + Count[d]
    BY <2>5, <2>6, CountIs, CountProduct
  <2>8. Waiting(stack) = Waiting(fac.stack) + Count[d] + Count[e]
    BY <2>2, <2>6, WaitingPushed
  <2> HIDE DEF stack
  <2>9. Waiting(fac.stack) \in Nat /\ Count[d] \in Nat /\ Count[e] \in Nat
        /\ OddPrimes(fac.x) \in Nat
    BY <2>2, <2>6, WaitingTerms, CountIs, OddPrimesNat
  <2>10. Waiting(stack) <= OddPrimes(fac.x)
    <3>1. Waiting(fac.stack) + Count[fac.n] <= OddPrimes(fac.x)
      BY <2>1 DEF Deep
    <3>2. QED
      BY <2>7, <2>8, <2>9, <3>1
  <2>11. PICK depth \in {Len(stack), fac.depth} :
           fac' = [fac EXCEPT !.pc = "loop", !.stack = stack, !.depth = depth]
    BY <2>1
  <2>12. fac'.pc = "loop" /\ fac'.x = fac.x /\ fac'.stack = stack /\ fac'.depth = depth
    BY <1>1, <2>11 DEF FactorFrames
  <2>13. depth <= OddPrimes(fac.x)
    <3>1. fac.depth <= OddPrimes(fac.x)
      BY DEF Deep, DepthBounded
    <3>2. Len(stack) <= Waiting(stack)
      <4>1. stack \in Seq(PartsOf(fac.x))
        BY <1>1, <2>12 DEF FactorInvariant
      <4>2. QED
        BY <2>2, <4>1, WaitingLong
    <3>3. Len(stack) \in Nat /\ Waiting(stack) \in Nat
      <4>1. stack \in Seq(Nat)
        BY <1>1, <2>12 DEF FactorInvariant, FactorFrames
      <4>2. QED
        BY <4>1, WaitingTerms
    <3>4. QED
      BY <2>9, <2>10, <2>11, <3>1, <3>2, <3>3
  <2>14. QED
    BY <2>10, <2>12, <2>13 DEF Deep, DepthBounded
<1>6. QED
  BY <1>2, <1>3, <1>4, <1>5 DEF FactoringStep

\* A step of the resolution
LEMMA DeepNext ==
  ASSUME ResolutionInvariant, ResolutionInvariant', Deep, [Next]_vars
  PROVE  Deep'
<1>1. CASE fac' = fac
  BY <1>1 DEF Deep, DepthBounded
<1>2. CASE FactorPhi
  <2>1. fac'.pc = "start" /\ fac'.depth = 0
    BY <1>2 DEF FactorPhi, CallDistinctPrimeFactors, NoFactoring
  <2>2. fac'.x \in Nat
    BY DEF ResolutionInvariant, FramesInvariant, FactorInvariant, FactorFrames
  <2>3. OddPrimes(fac'.x) \in Nat
    BY <2>2, OddPrimesNat
  <2>4. QED
    BY <2>1, <2>3 DEF Deep, DepthBounded
<1>3. CASE RunFactoring
  <2>1. FactoringStep
    BY <1>3 DEF RunFactoring
  <2>2. QED
    BY <2>1, DeepStep DEF ResolutionInvariant, FramesInvariant
<1>4. fac' = fac \/ FactorPhi \/ RunFactoring
  BY DEF Next, vars, frames, ValidateModulus, ValidateModulusToy, RefuseLargeModulus,
         TestModulus, RunTest, ModulusTested, ValidateDomain, CompleteRoots, RefuseGiven,
         KeepGiven, OmegaFromPsi, SearchPsi, RunSqrt, PsiFound, DeriveRoots, PhiFactored,
         LookUpPhi, NextCandidate, RootsFromGenerator
<1>5. QED
  BY <1>1, <1>2, <1>3, <1>4

(***************************************************************************)
(* The stack of ntt__distinct_prime_factors never holds more parts than x  *)
(* has odd prime factors, counted as often as they divide it: the bound    *)
(* that its 32 entries have to be measured by.  It needs neither that the  *)
(* primality test is right nor that a divisor is found.                    *)
(***************************************************************************)
THEOREM StackStaysBelow == Spec => []DepthBounded
<1>1. Init => Deep
  BY CountIs DEF Init, NoFactoring, Deep, DepthBounded
<1>2. ResolutionInvariant /\ ResolutionInvariant' /\ Deep /\ [Next]_vars => Deep'
  BY DeepNext
<1>3. Deep => DepthBounded
  BY DEF Deep
<1>4. QED
  BY <1>1, <1>2, <1>3, ResolutionCorrect, PTL DEF Spec

\* Powers of three grow.
LEMMA PowersOfThree ==
  ASSUME NEW a \in Nat, NEW b \in Nat, Pow(3, a) < Pow(3, b + 1)
  PROVE  a <= b
<1> SUFFICES ASSUME a > b
             PROVE  FALSE
  OBVIOUS
<1> DEFINE e == a - (b + 1)
           u == Pow(3, b + 1)
           v == Pow(3, e)
<1>1. e \in Nat /\ b + 1 \in Nat /\ a = (b + 1) + e
  OBVIOUS
<1>2. Pow(3, a) = u * v /\ u \in Nat /\ v \in Nat
  <2> HIDE DEF e
  <2>1. QED
    BY <1>1, PowSum, PowNat
<1>3. v # 0
  <2>1. Prime(2) /\ 3 % 2 # 0
    BY DEF Prime
  <2>2. v % 2 # 0
    <3> HIDE DEF e
    <3>1. QED
      BY <1>1, <2>1, PowNotZero
  <2>3. QED
    BY <2>2
<1> HIDE DEF u, v
<1>4. u <= u * v
  BY <1>2, <1>3
<1>5. Pow(3, a) < u
  BY DEF u
<1>6. QED
  BY <1>2, <1>4, <1>5

\* An odd number with k prime factors is at least 3^k.
LEMMA OddPrimesGrow == \A k \in Nat : k % 2 = 1 => Pow(3, Count[k]) <= k
<1> DEFINE S == {k \in Nat : k % 2 = 1 => Pow(3, Count[k]) <= k}
<1>1. ASSUME NEW k \in Nat, \A j \in 0 .. k - 1 : j \in S
      PROVE  k \in S
  <2> SUFFICES ASSUME k % 2 = 1
               PROVE  Pow(3, Count[k]) <= k
    OBVIOUS
  <2>1. CASE k < 2
    <3>1. k = 1 /\ Count[1] = 0
      BY <2>1, CountIs DEF IsCount
    <3>2. QED
      BY <3>1, PowStep
  <2>2. CASE k >= 2
    <3> DEFINE p == SomePrime(k)
               j == k \div p
    <3>1. p \in Nat /\ Prime(p) /\ k % p = 0 /\ j \in 1 .. k - 1 /\ k = j * p
      BY <2>2, SomePrimeIs
    <3>2. Count[k] = 1 + Count[j]
      BY <2>2, CountIs DEF IsCount
    <3> HIDE DEF j, p
    <3>3. p # 2
      BY <3>1
    <3>4. p >= 3
      BY <3>1, <3>3, SmallPrimes
    <3>5. j % 2 = 1
      <4> SUFFICES ASSUME j % 2 = 0
                   PROVE  FALSE
        BY <3>1
      <4>1. (j * p) % 2 = 0
        BY <3>1, DividesProduct
      <4>2. QED
        BY <3>1, <4>1
    <3>6. Pow(3, Count[j]) <= j
      BY <1>1, <3>1, <3>5
    <3>7. Count[j] \in Nat /\ Count[j] + 1 = Count[k]
      BY <3>1, <3>2, CountIs
    <3>8. Pow(3, Count[k]) = 3 * Pow(3, Count[j]) /\ Pow(3, Count[j]) \in Nat
      BY <3>7, PowStep
    <3>9. j * 3 <= j * p
      BY <3>1, <3>4
    <3>10. QED
      BY <3>1, <3>6, <3>8, <3>9
  <2>3. QED
    BY <2>1, <2>2
<1> HIDE DEF S
<1>2. Nat \subseteq S
  BY <1>1, StrongInduction
<1>3. QED
  BY <1>2 DEF S

(***************************************************************************)
(* The array stack of ntt__distinct_prime_factors is never written behind  *)
(* its end if no q - 1 reaches 3^(StackSize + 1): with 32 entries that is  *)
(* the domain below 3^33, and not the complete one of 64 bits.             *)
(***************************************************************************)
THEOREM StackSuffices ==
  ASSUME \A r \in Requests : r.q <= Pow(3, StackSize + 1)
  PROVE  Spec => []StackInBounds
<1>1. Init => Factored
  BY DEF Init, NoFactoring, Factored
<1>2. ResolutionInvariant /\ Factored /\ [Next]_vars => Factored'
  BY FactoredKept
<1>3. ResolutionInvariant /\ Factored /\ DepthBounded => StackInBounds
  <2> SUFFICES ASSUME ResolutionInvariant, Factored, DepthBounded
               PROVE  fac.depth <= StackSize
    BY DEF StackInBounds
  <2>1. fac \in FactorFrames /\ req \in Requests /\ req.q \in Nat /\ StackSize \in Nat \ {0}
    BY RequestType, FactoringAssumption
       DEF ResolutionInvariant, FramesInvariant, FactorInvariant
  <2>2. fac.depth \in Nat /\ fac.x \in Nat /\ fac.depth <= OddPrimes(fac.x)
    BY <2>1 DEF FactorFrames, DepthBounded
  <2>3. CASE fac.x = 0
    BY <2>1, <2>2, <2>3, CountIs
  <2>4. CASE fac.x # 0
    <3> DEFINE k == OddPart(fac.x)
    <3>1. k \in 1 .. fac.x /\ k % 2 = 1
      BY <2>2, <2>4, OddPartIs
    <3>2. OddPrimes(fac.x) = Count[k] /\ Count[k] \in Nat
      BY <2>2, <2>4, <3>1, CountIs
    <3>3. Pow(3, Count[k]) <= k
      BY <3>1, OddPrimesGrow
    <3>4. fac.x = req.q - 1
      BY <2>4 DEF Factored
    <3>5. req.q <= Pow(3, StackSize + 1)
      BY <2>1
    <3> HIDE DEF k
    <3>6. Pow(3, Count[k]) \in Nat /\ Pow(3, StackSize + 1) \in Nat
      <4>1. 3 \in Nat /\ StackSize + 1 \in Nat
        BY <2>1
      <4>2. QED
        BY <3>2, <4>1, PowNat
    <3>7. Pow(3, Count[k]) < Pow(3, StackSize + 1)
      BY <2>1, <2>2, <3>1, <3>3, <3>4, <3>5, <3>6
    <3>8. Count[k] <= StackSize
      BY <2>1, <3>2, <3>7, PowersOfThree
    <3>9. QED
      BY <2>1, <2>2, <3>2, <3>8
  <2>5. QED
    BY <2>3, <2>4
<1>4. QED
  BY <1>1, <1>2, <1>3, ResolutionCorrect, StackStaysBelow, PTL DEF Spec

-----------------------------------------------------------------------------
(***************************************************************************)
(* What is refused                                                         *)
(***************************************************************************)

\* The room for results holds the primes of q - 1.
EnoughRoom == \A r \in Requests : Cardinality(PrimeFactors(r.q - 1)) <= MaxFactors

(***************************************************************************)
(* Which number is tested, and what the search for a generator has been    *)
(* given and has found out so far                                          *)
(***************************************************************************)
Sought ==
  /\ pc = "prime" => mr.q = req.q
  /\ pc = "search" =>
       /\ \A x \in 2 .. g - 1 : ~Generates(x)
       /\ req.q \notin DOMAIN KnownModuli => fac.pc = "done" /\ fac.x = req.q - 1

\* Each step of the resolution preserves it.
LEMMA SoughtStep ==
  ASSUME ResolutionInvariant, Sought, [Next]_vars
  PROVE  Sought'
<1>0. req' = req
  BY TestInResolution
<1>1. CASE pc' \notin {"prime", "search"}
  BY <1>1 DEF Sought
<1>2. CASE TestModulus
  <2>1. pc' = "prime" /\ mr'.q = req.q
    BY <1>2 DEF TestModulus, CallMillerRabin, NoTest
  <2>2. QED
    BY <1>0, <2>1 DEF Sought
<1>3. CASE RunTest
  <2>1. pc = "prime" /\ pc' = "prime" /\ mr'.q = mr.q
    BY <1>3, TestKeepsCandidate DEF RunTest, ResolutionInvariant, FramesInvariant
  <2>2. QED
    BY <1>0, <2>1 DEF Sought
<1>4. CASE PhiFactored
  <2>1. pc = "factors" /\ g' = g /\ fac' = fac /\ (pc' = "search" => fac.pc = "done")
        /\ pc' \in {"search", "failed"}
    BY <1>4 DEF PhiFactored, frames
  <2>2. g = 2 /\ fac.x = req.q - 1
    BY <2>1 DEF ResolutionInvariant, Progress
  <2>3. 2 .. 2 - 1 = {}
    OBVIOUS
  <2>4. QED
    BY <1>0, <2>1, <2>2, <2>3 DEF Sought
<1>5. CASE LookUpPhi
  <2>1. pc = "resolve" /\ g' = g /\ req.q \in DOMAIN KnownModuli /\ pc' = "search"
    BY <1>5 DEF LookUpPhi, NoRootsGiven
  <2>2. g = 2
    BY <2>1 DEF ResolutionInvariant, Progress
  <2>3. 2 .. 2 - 1 = {}
    OBVIOUS
  <2>4. QED
    BY <1>0, <2>1, <2>2, <2>3 DEF Sought
<1>6. CASE NextCandidate
  <2>1. pc = "search" /\ ~Generates(g) /\ g' = g + 1 /\ fac' = fac /\ g \in Nat
        /\ pc' \in {"search", "failed"}
    BY <1>6 DEF NextCandidate, frames, ResolutionInvariant, Progress
  <2>2. \A x \in 2 .. (g + 1) - 1 : x \in 2 .. g - 1 \/ x = g
    BY <2>1
  <2>3. \A x \in 2 .. g' - 1 : ~Generates(x)
    BY <2>1, <2>2 DEF Sought
  <2>4. \A x : Generates(x)' <=> Generates(x)
    BY <1>0, <2>1 DEF Generates, FactorsOfPhi
  <2>5. pc' = "search" =>
          /\ \A x \in 2 .. g' - 1 : ~Generates(x)'
          /\ req'.q \notin DOMAIN KnownModuli => fac'.pc = "done" /\ fac'.x = req'.q - 1
    BY <1>0, <2>1, <2>3, <2>4 DEF Sought
  <2>6. QED
    BY <2>1, <2>5 DEF Sought, Generates, FactorsOfPhi
<1>7. CASE UNCHANGED vars
  BY <1>7 DEF vars, frames, Sought, Generates, FactorsOfPhi
<1>8. QED
  BY <1>1, <1>2, <1>3, <1>4, <1>5, <1>6, <1>7
     DEF Next, ValidateModulus, ValidateModulusToy, RefuseLargeModulus, ModulusTested,
         ValidateDomain, CompleteRoots, RefuseGiven, KeepGiven, OmegaFromPsi, SearchPsi,
         RunSqrt, PsiFound, DeriveRoots, FactorPhi, RunFactoring, RootsFromGenerator,
         NoRootsGiven

\* The entries of the table are primes of q - 1.
LEMMA TableIsRight == \A q \in DOMAIN KnownModuli : KnownModuli[q] \subseteq PrimeFactors(q - 1)
<1>1. Prime(2) /\ Prime(3)
  BY DEF Prime
<1>2. ASSUME NEW p \in {11, 13, 31}
      PROVE  Prime(p)
  <2>1. p \div 2 \in {5, 6, 15}
    OBVIOUS
  <2>2. \A d \in 2 .. p \div 2 : ~Divides(d, p)
    <3> SUFFICES ASSUME NEW d \in 2 .. p \div 2
                 PROVE  p % d # 0
      BY DEF Divides
    <3>1. d \in {2, 3, 4, 5, 6, 7, 8, 9, 10, 11, 12, 13, 14, 15} /\ d < p
      BY <2>1
    <3>2. QED
      BY <3>1
  <2>3. QED
    BY <2>2 DEF Prime
<1>3. 3328 % 2 = 0 /\ 3328 % 13 = 0
  OBVIOUS
<1>4. 8380416 % 2 = 0 /\ 8380416 % 3 = 0 /\ 8380416 % 11 = 0 /\ 8380416 % 31 = 0
  OBVIOUS
<1>5. {2, 13} \subseteq PrimeFactors(3328)
  BY <1>1, <1>2, <1>3, PrimeFactorsIs
<1>6. {2, 3, 11, 31} \subseteq PrimeFactors(8380416)
  BY <1>1, <1>2, <1>4, PrimeFactorsIs
<1>7. 3329 - 1 = 3328 /\ 8380417 - 1 = 8380416
  OBVIOUS
<1>8. QED
  BY <1>5, <1>6, <1>7 DEF KnownModuli

\* The search is for a number that counts for primes of q - 1 only.
LEMMA SoughtFactors ==
  ASSUME Accounted, Sought, pc = "search"
  PROVE  FactorsOfPhi \subseteq PrimeFactors(req.q - 1)
BY TableIsRight DEF FactorsOfPhi, Accounted, Sought

\* A root of the order passes the check of the code.
LEMMA OrderIsPrimitive ==
  ASSUME NEW x \in Nat, NEW k \in Nat, NEW n, n = 2^k, req.q \in Nat \ {0, 1},
         HasOrder(x, n, req.q)
  PROVE  IsPrimitive(x, n)
<1>1. n \in Nat \ {0}
  BY PowersOfTwo
<1>2. ModPow(x, n, req.q) = 1 /\ \A j \in 1 .. n - 1 : ModPow(x, j, req.q) # 1
  BY <1>1, OrderIs
<1>3. x # 0
  <2>1. x % req.q # 0
    BY <1>1, <1>2, RootNotZero
  <2>2. QED
    BY <2>1
<1>4. n # 1 => n \div 2 \in 1 .. n - 1
  BY <1>1
<1>5. QED
  BY <1>1, <1>2, <1>3, <1>4 DEF IsPrimitive

\* Roots that fit the request
Suitable(w, p) ==
  /\ req.omega \in {0, w} /\ req.psi \in {0, p}
  /\ Negacyclic /\ req.omega # 0 /\ req.psi # 0 => MulMod(p, p, req.q) = w
  /\ Fit(req, w, p)

\* Given roots are refused only if there are no suitable ones.
LEMMA GivenRefused ==
  ASSUME req \in Requests, Achievable, omega = req.omega, psi = req.psi, ~GivenRootsFit,
         Negacyclic => Double = 2 * req.n, Negacyclic \/ req.psi = 0,
         NEW w \in Nat, NEW p \in Nat, Suitable(w, p)
  PROVE  FALSE
<1>1. req.q \in Nat \ {0, 1}
  BY SizeIs
<1>2. PICK k \in Nat : req.n = 2^k
  BY SizeIs
<1>3. HasOrder(w, req.n, req.q) /\ (Negacyclic => HasOrder(p, 2 * req.n, req.q))
  BY DEF Suitable, Fit, Negacyclic
<1>4. omega # 0 => omega = w /\ IsPrimitive(omega, req.n)
  <2>1. IsPrimitive(w, req.n)
    BY <1>1, <1>2, <1>3, OrderIsPrimitive
  <2>2. QED
    BY <2>1 DEF Suitable
<1>5. Negacyclic /\ psi # 0 => psi = p /\ IsPrimitive(psi, Double)
  <2> SUFFICES ASSUME Negacyclic, psi # 0
               PROVE  psi = p /\ IsPrimitive(psi, Double)
    OBVIOUS
  <2> DEFINE o == 2 * req.n
  <2>1. k + 1 \in Nat /\ o = 2^(k + 1)
    BY <1>2, PowersOfTwo
  <2>2. HasOrder(p, o, req.q)
    BY <1>3
  <2> HIDE DEF o
  <2>3. IsPrimitive(p, o)
    BY <1>1, <2>1, <2>2, OrderIsPrimitive
  <2>4. QED
    BY <2>3 DEF Suitable, o
<1>6. Negacyclic /\ omega # 0 /\ psi # 0 => MulMod(psi, psi, req.q) = omega
  BY <1>4, <1>5 DEF Suitable
<1>7. QED
  BY <1>4, <1>5, <1>6 DEF GivenRootsFit

\* Each step to "failed" has its reason.
LEMMA RefusalStep ==
  ASSUME ResolutionInvariant, Accounted, FailsForRoom, EnoughRoom, Sought,
         RefusedOnlyIfImpossible, [Next]_vars
  PROVE  RefusedOnlyIfImpossible'
<1>0. req \in Requests /\ req' = req /\ req.q \in Nat /\ req.omega \in Nat /\ req.psi \in Nat
  BY TestInResolution, RequestType DEF ResolutionInvariant
<1>1. CASE pc' # "failed"
  BY <1>1 DEF RefusedOnlyIfImpossible
<1>2. CASE UNCHANGED vars
  BY <1>2 DEF vars, RefusedOnlyIfImpossible, Achievable, Order, Negacyclic, Double
<1> DEFINE None == ~\E w \in 1 .. req.q + 1, p \in 0 .. req.q + 1 : Suitable(w, p)
           Reason == \/ req.adapter = "scalar" /\ req.q > LargestModulus
                     \/ ~Achievable
                     \/ ~Negacyclic /\ req.psi # 0
                     \/ Negacyclic /\ Double # 2 * req.n
                     \/ None
<1>3. SUFFICES ASSUME pc' = "failed", Next, Prime(req.q)
               PROVE  Reason
  <2>1. Prime(req.q) /\ Reason => RefusedOnlyIfImpossible'
    BY <1>0 DEF RefusedOnlyIfImpossible, Achievable, Order, Negacyclic, Double, Suitable
  <2>2. ~Prime(req.q) => RefusedOnlyIfImpossible'
    BY <1>0 DEF RefusedOnlyIfImpossible
  <2>3. QED
    BY <1>1, <1>2, <1>3, <2>1, <2>2
<1>4. req.q > 1
  BY <1>0, <1>3, SmallPrimes
<1>5. CASE ValidateModulusToy
  BY <1>3, <1>4, <1>5 DEF ValidateModulusToy
<1>6. CASE RefuseLargeModulus
  BY <1>6 DEF RefuseLargeModulus
<1>7. CASE ModulusTested
  <2>1. pc = "prime" /\ MillerRabinDone /\ ~mr.prime
    BY <1>3, <1>7 DEF ModulusTested
  <2>2. mr.q = req.q /\ NoPrimeRejected
    BY <2>1 DEF Sought, ResolutionInvariant, FramesInvariant, TestInvariant
  <2>3. QED
    BY <1>3, <2>1, <2>2 DEF NoPrimeRejected
<1>8. CASE ValidateDomain
  BY <1>3, <1>8 DEF ValidateDomain
<1>9. CASE RefuseGiven
  <2>1. pc = "resolve" /\ ~GivenRootsFit
    BY <1>9 DEF RefuseGiven
  <2>2. Achievable /\ omega = req.omega /\ psi = req.psi
    BY <2>1 DEF ResolutionInvariant, Progress
  <2>3. ASSUME NEW w \in 1 .. req.q + 1, NEW p \in 0 .. req.q + 1, Suitable(w, p),
               Negacyclic => Double = 2 * req.n, Negacyclic \/ req.psi = 0
        PROVE  FALSE
    <3>1. w \in Nat /\ p \in Nat
      BY <1>0
    <3>2. QED
      BY <1>0, <2>1, <2>2, <2>3, <3>1, GivenRefused
  <2>4. QED
    BY <2>3
<1>10. CASE PsiFound
  <2>1. pc = "sqrt" /\ sq.pc = "failed"
    BY <1>3, <1>10 DEF PsiFound, SqrtModDone
  <2>2. Negacyclic /\ omega = req.omega /\ omega # 0 /\ sq.q = req.q /\ sq.a = omega % req.q
    BY <2>1 DEF ResolutionInvariant, Progress
  <2>3. sq.a \notin Squares(req.q)
    BY <1>3, <2>1, <2>2 DEF ResolutionInvariant, FramesInvariant, SqrtInvariant, RootIfAny
  <2>4. ASSUME NEW w \in 1 .. req.q + 1, NEW p \in 0 .. req.q + 1, Suitable(w, p)
        PROVE  FALSE
    <3>1. w = omega /\ MulMod(p, p, req.q) = w % req.q
      BY <2>2, <2>4 DEF Suitable, Fit, Negacyclic
    <3> DEFINE s == p % req.q
    <3>2. s \in 0 .. req.q - 1
      BY <1>0, <1>4
    <3>3. MulMod(s, s, req.q) = MulMod(p, p, req.q)
      <4>1. req.q \in Nat \ {0} /\ p \in Nat
        BY <1>0, <1>4
      <4>2. QED
        BY <4>1, ModMulBoth DEF MulMod
    <3> HIDE DEF s
    <3>4. sq.a = MulMod(s, s, req.q)
      BY <2>2, <3>1, <3>3
    <3>5. QED
      BY <2>3, <3>2, <3>4 DEF Squares
  <2>5. QED
    BY <2>4
<1>11. CASE PhiFactored
  <2>1. pc = "factors" /\ fac.pc = "failed"
    BY <1>3, <1>11 DEF PhiFactored, FactoringDone
  <2>2. fac.x = req.q - 1 /\ Achievable
    BY <2>1 DEF ResolutionInvariant, Progress
  <2>3. req.q > 2
    BY <2>2 DEF Achievable
  <2>4. Cardinality(PrimeFactors(req.q - 1)) > MaxFactors
    BY <1>0, <2>1, <2>2, <2>3 DEF FailsForRoom
  <2>5. Cardinality(PrimeFactors(req.q - 1)) <= MaxFactors /\ MaxFactors \in Nat
    BY <1>0, FactoringAssumption DEF EnoughRoom
  <2>6. Cardinality(PrimeFactors(req.q - 1)) \in Nat
    <3>1. req.q - 1 \in Nat
      BY <1>0, <1>4
    <3>2. QED
      BY <3>1, FinitelyManyPrimes
  <2>7. QED
    BY <2>4, <2>5, <2>6
<1>12. CASE NextCandidate
  <2>1. pc = "search" /\ ~Generates(g) /\ g + 1 = req.q
    BY <1>3, <1>12 DEF NextCandidate
  <2>2. g \in Nat /\ Achievable
    BY <2>1 DEF ResolutionInvariant, Progress
  <2>3. req.q # 2
    BY <2>2 DEF Achievable
  <2>4. PICK x \in 2 .. req.q - 1 :
          \A f \in PrimeFactors(req.q - 1) : ModPow(x, (req.q - 1) \div f, req.q) # 1
    BY <1>0, <1>3, <2>3, GeneratorExists
  <2>5. Generates(x)
    BY <2>1, <2>4, SoughtFactors DEF Generates
  <2>6. x \in 2 .. g - 1 \/ x = g
    BY <1>0, <2>1, <2>2
  <2>7. QED
    BY <2>1, <2>5, <2>6 DEF Sought
<1>13. QED
  BY <1>3, <1>5, <1>6, <1>7, <1>8, <1>9, <1>10, <1>11, <1>12
     DEF Next, ValidateModulus, TestModulus, RunTest, CompleteRoots, KeepGiven, OmegaFromPsi,
         SearchPsi, RunSqrt, DeriveRoots, FactorPhi, RunFactoring, LookUpPhi,
         RootsFromGenerator, NoRootsGiven

(***************************************************************************)
(* If the witnesses suffice for the values that are tested, the room for   *)
(* the primes of q - 1 and the seeds for Pollard's rho, then a request for *)
(* a prime modulus is refused only if no roots would do: there is a        *)
(* generator modulo a prime, and the search does not pass it by.           *)
(***************************************************************************)
THEOREM RefusalsJustified ==
  ASSUME WitnessesSuffice, SeedsSuffice, EnoughRoom
  PROVE  Spec => []RefusedOnlyIfImpossible
<1>1. Init => Accounted /\ FailsForRoom /\ Sought /\ RefusedOnlyIfImpossible
  BY DEF Init, NoFactoring, Accounted, FailsForRoom, Sought, RefusedOnlyIfImpossible
<1>2. ResolutionInvariant /\ CompositeIsRejected /\ Accounted /\ [Next]_vars => Accounted'
  BY AccountKept
<1>3. ResolutionInvariant /\ CompositeIsRejected /\ RhoSplits /\ Accounted /\ FailsForRoom
        /\ [Next]_vars => FailsForRoom'
  BY FailsKept
<1>4. ResolutionInvariant /\ Sought /\ [Next]_vars => Sought'
  BY SoughtStep
<1>5. ResolutionInvariant /\ Accounted /\ FailsForRoom /\ Sought /\ RefusedOnlyIfImpossible
        /\ [Next]_vars => RefusedOnlyIfImpossible'
  BY RefusalStep
<1>6. Spec => []CompositeIsRejected
  BY CompositesRejected
<1>7. Spec => []RhoSplits
  BY SeedsDoNotRunOut
<1>8. QED
  BY <1>1, <1>2, <1>3, <1>4, <1>5, <1>6, <1>7, ResolutionCorrect, PTL DEF Spec

\* The divisor that equal values show is n.
LEMMA GcdOfZero ==
  ASSUME NEW n \in Nat \ {0}
  PROVE  Gcd(0, n) = n
<1> DEFINE f == CHOOSE h : h = [p \in Nat \X Nat |->
                   IF p[2] = 0 THEN p[1] ELSE h[<<p[2], p[1] % p[2]>>]]
<1>1. Gcd(0, n) = f[<<0, n>>]
  BY DEF Gcd
<1>2. IsGcdLoop(f)
  BY GcdLoopExists DEF IsGcdLoop
<1> HIDE DEF f
<1>3. 0 % n = 0
  OBVIOUS
<1>4. f[<<0, n>>] = f[<<n, 0>>]
  BY <1>2, <1>3, GcdLoopStep
<1>5. f[<<n, 0>>] = n
  BY <1>2, GcdLoopStep
<1>6. QED
  BY <1>1, <1>4, <1>5

\* The values after the first are residues.
LEMMA RhoType ==
  ASSUME NEW n \in Nat \ {0}, NEW c \in Nat, NEW k \in Nat
  PROVE  Rho(n, c, k) \in Nat /\ Rho(n, c, k + 1) \in 0 .. n - 1
<1> DEFINE S == {j \in Nat : Rho(n, c, j) \in Nat}
<1>1. ASSUME NEW j \in Nat, Rho(n, c, j) \in Nat
      PROVE  Rho(n, c, j + 1) \in 0 .. n - 1
  <2> DEFINE y == MulMod(Rho(n, c, j), Rho(n, c, j), n) + c
  <2>1. MulMod(Rho(n, c, j), Rho(n, c, j), n) \in 0 .. n - 1
    BY <1>1, MulModType
  <2>2. y \in Nat
    BY <2>1
  <2>3. Rho(n, c, j + 1) = y % n
    BY RhoIs
  <2> HIDE DEF y
  <2>4. QED
    BY <2>2, <2>3, DivMod
<1>2. 0 \in S
  BY RhoIs
<1>3. ASSUME NEW j \in Nat, j \in S
      PROVE  j + 1 \in S
  <2>1. Rho(n, c, j + 1) \in 0 .. n - 1
    BY <1>1, <1>3
  <2>2. QED
    BY <2>1
<1>4. Nat \subseteq S
  <2> HIDE DEF S
  <2>1. QED
    BY <1>2, <1>3, Induction
<1>5. QED
  BY <1>1, <1>4

\* From its i-th value on the sequence repeats itself after p more.
Repeats(n, c, i, p) ==
  \A m \in Nat, t \in Nat : Rho(n, c, i + m) = Rho(n, c, i + m + t * p)

\* So it does where a value comes again.
LEMMA RhoRepeats ==
  ASSUME NEW n \in Nat \ {0}, NEW c \in Nat, NEW i \in Nat, NEW p \in Nat, NEW j \in Nat,
         j = i + p, Rho(n, c, i) = Rho(n, c, j)
  PROVE  Repeats(n, c, i, p)
<1> DEFINE S == {m \in Nat : Rho(n, c, i + m) = Rho(n, c, i + m + p)}
<1>1. 0 \in S
  OBVIOUS
<1>2. ASSUME NEW m \in Nat, m \in S
      PROVE  m + 1 \in S
  <2>1. i + m \in Nat /\ i + m + p \in Nat
        /\ i + (m + 1) = (i + m) + 1 /\ i + (m + 1) + p = (i + m + p) + 1
    OBVIOUS
  <2>2. Rho(n, c, (i + m) + 1) = Rho(n, c, (i + m + p) + 1)
    <3>1. Rho(n, c, i + m) = Rho(n, c, i + m + p)
      BY <1>2
    <3>2. /\ Rho(n, c, (i + m) + 1)
               = (MulMod(Rho(n, c, i + m), Rho(n, c, i + m), n) + c) % n
          /\ Rho(n, c, (i + m + p) + 1)
               = (MulMod(Rho(n, c, i + m + p), Rho(n, c, i + m + p), n) + c) % n
      BY <2>1, RhoIs
    <3>3. QED
      BY <3>1, <3>2
  <2>3. QED
    BY <2>1, <2>2
<1>3. Nat \subseteq S
  <2> HIDE DEF S
  <2>1. QED
    BY <1>1, <1>2, Induction
<1>4. ASSUME NEW m \in Nat
      PROVE  \A t \in Nat : Rho(n, c, i + m) = Rho(n, c, i + m + t * p)
  <2> DEFINE T == {t \in Nat : Rho(n, c, i + m) = Rho(n, c, i + m + t * p)}
  <2>1. 0 \in T
    <3>1. i + m + 0 * p = i + m
      OBVIOUS
    <3>2. QED
      BY <3>1
  <2>2. ASSUME NEW t \in Nat, t \in T
        PROVE  t + 1 \in T
    <3> DEFINE s == t * p
    <3>1. s \in Nat /\ (t + 1) * p = s + p
      OBVIOUS
    <3>2. Rho(n, c, i + m) = Rho(n, c, i + m + s)
      BY <2>2
    <3> HIDE DEF s
    <3>3. m + s \in Nat /\ i + m + s = i + (m + s) /\ i + m + (s + p) = i + (m + s) + p
      BY <3>1
    <3>4. Rho(n, c, i + (m + s)) = Rho(n, c, i + (m + s) + p)
      BY <1>3, <3>3
    <3>5. Rho(n, c, i + m) = Rho(n, c, i + m + (t + 1) * p)
      BY <3>1, <3>2, <3>3, <3>4
    <3>6. QED
      BY <3>5
  <2>3. Nat \subseteq T
    <3> HIDE DEF T
    <3>1. QED
      BY <2>1, <2>2, Induction
  <2>4. QED
    BY <2>3
<1>5. QED
  BY <1>4 DEF Repeats

(***************************************************************************)
(* However far the sequences have run, they meet again: there are no more  *)
(* than n values, and in a cycle the fast sequence overtakes the slow one. *)
(***************************************************************************)
LEMMA SequencesMeet ==
  ASSUME NEW n \in Nat \ {0, 1}, NEW c \in Nat, NEW low \in Nat
  PROVE  \E k \in Nat : k > low /\ Divisor(n, c, k) # 1
<1> DEFINE S == 1 .. n + 1
           T == 0 .. n - 1
           f == [k \in S |-> Rho(n, c, k)]
<1>1. f \in [S -> T]
  <2> SUFFICES ASSUME NEW k \in S
               PROVE  Rho(n, c, k) \in T
    OBVIOUS
  <2>1. k - 1 \in Nat /\ (k - 1) + 1 = k
    OBVIOUS
  <2>2. Rho(n, c, (k - 1) + 1) \in 0 .. n - 1
    BY <2>1, RhoType
  <2>3. QED
    BY <2>1, <2>2
<1>2. IsFiniteSet(S) /\ IsFiniteSet(T) /\ Cardinality(T) < Cardinality(S)
  <2>1. IsFiniteSet(S) /\ Cardinality(S) = n + 1
    <3>1. 1 \in Int /\ n + 1 \in Int /\ ~(1 > n + 1) /\ (n + 1) - 1 + 1 = n + 1
      OBVIOUS
    <3>2. QED
      BY <3>1, FS_Interval
  <2>2. IsFiniteSet(T) /\ Cardinality(T) = n
    <3>1. 0 \in Int /\ n - 1 \in Int /\ ~(0 > n - 1) /\ (n - 1) - 0 + 1 = n
      OBVIOUS
    <3>2. QED
      BY <3>1, FS_Interval
  <2>3. QED
    BY <2>1, <2>2
<1>3. PICK x \in S, y \in S : x # y /\ f[x] = f[y]
  <2> HIDE DEF f, S, T
  <2>1. QED
    BY <1>1, <1>2, FS_PigeonHole
<1>4. PICK i \in Nat, p \in Nat : p # 0 /\ Rho(n, c, i) = Rho(n, c, i + p)
  <2>1. x \in Nat /\ y \in Nat /\ Rho(n, c, x) = Rho(n, c, y)
    BY <1>3
  <2>2. CASE x < y
    <3>1. y - x \in Nat /\ y - x # 0 /\ x + (y - x) = y
      BY <2>1, <2>2
    <3>2. QED
      BY <2>1, <3>1
  <2>3. CASE y < x
    <3>1. x - y \in Nat /\ x - y # 0 /\ y + (x - y) = x
      BY <2>1, <2>3
    <3>2. QED
      BY <2>1, <3>1
  <2>4. QED
    BY <1>3, <2>1, <2>2, <2>3
<1>11. Repeats(n, c, i, p)
  <2> HIDE DEF f, S, T
  <2>1. PICK j \in Nat : j = i + p
    OBVIOUS
  <2>2. QED
    BY <1>4, <2>1, RhoRepeats
<1> DEFINE t == i + low + 1
           k == t * p
<1>5. k \in Nat /\ k >= t /\ t \in Nat
  <2>1. t \in Nat /\ p >= 1
    BY <1>4
  <2> HIDE DEF t
  <2>2. t * p \in Nat /\ t * p >= t
    BY <2>1
  <2>3. QED
    BY <2>1, <2>2
<1>6. k > low /\ k - i \in Nat /\ i + (k - i) = k
  <2> HIDE DEF k
  <2>1. QED
    BY <1>5
<1>7. Rho(n, c, k) = Rho(n, c, 2 * k)
  <2>1. Rho(n, c, i + (k - i)) = Rho(n, c, i + (k - i) + t * p)
    <3> HIDE DEF k, t
    <3>1. QED
      BY <1>5, <1>6, <1>11 DEF Repeats
  <2>2. i + (k - i) + t * p = k + k /\ k + k = 2 * k
    BY <1>6
  <2>3. QED
    BY <1>6, <2>1, <2>2
<1> HIDE DEF k
<1>8. Distance(Rho(n, c, k), Rho(n, c, 2 * k)) = 0
  <2>1. Rho(n, c, k) \in Nat
    BY <1>5, RhoType
  <2>2. QED
    BY <1>7, <2>1 DEF Distance
<1>9. Divisor(n, c, k) = n
  BY <1>8, GcdOfZero DEF Divisor
<1>10. QED
  BY <1>5, <1>6, <1>9

-----------------------------------------------------------------------------
(***************************************************************************)
(* Every step comes nearer to the end                                      *)
(***************************************************************************)

\* How many comparisons of the two sequences may still follow
Comparisons(n, c, u, v) ==
  LET ahead == {j \in Nat \ {0} : \E k \in Nat :
                  /\ u = Rho(n, c, k) /\ v = Rho(n, c, 2 * k)
                  /\ \A i \in 1 .. k : Divisor(n, c, i) = 1
                  /\ Divisor(n, c, k + j) # 1}
  IN  CHOOSE j \in ahead : \A i \in ahead : j <= i

\* The factors that are left in the parts, and how often these may be split
PartsLeft(f) ==
  2 * Waiting(f.stack) - Len(f.stack)
    + (IF f.pc \in {"test", "rho"} THEN 2 * Count[f.n] - 1 ELSE 0)

\* How far the primality test has come
TestRank(m) ==
  CASE m.pc = "start"   -> <<3, 0, 0>>
    [] m.pc = "split"   -> <<2, m.d, 0>>
    [] m.pc = "witness" -> <<1, Len(Witnesses) + 1 - m.i, m.s + 1>>
    [] m.pc = "square"  -> <<1, Len(Witnesses) + 1 - m.i, m.s - m.r>>
    [] OTHER            -> <<0, 0, 0>>

\* How far the factoring has come
FactorRank(f, m) ==
  CASE f.pc = "start" -> <<3, 0, 0, 0, 0, 0>>
    [] f.pc = "loop"  -> <<2, PartsLeft(f), 3, 0, 0, 0>>
    [] f.pc = "test"  -> <<2, PartsLeft(f), 2,
                           TestRank(m)[1], TestRank(m)[2], TestRank(m)[3]>>
    [] f.pc = "rho"   -> <<2, PartsLeft(f), 1,
                           MaxSeeds - f.c, Comparisons(f.n, f.c, f.u, f.v), 0>>
    [] OTHER          -> <<2, 0, 0, 0, 0, 0>>

\* How far the search for a square root has come
RootRank(s) ==
  CASE s.pc = "start" -> <<3, 0, 0, 0, 0, 0>>
    [] s.pc = "test"  -> <<2, s.M, 3, 0, 0, 0>>
    [] s.pc = "order" -> <<2, s.M, 2, s.M - s.i, 0, 0>>
    [] s.pc = "raise" -> <<2, s.M, 1, s.M - s.i - 1 - s.e, 0, 0>>
    [] OTHER          -> <<2, 0, 0, 0, 0, 0>>

\* How far ntt_create has come
Rank ==
  CASE pc = "modulus" -> <<7, 0, 0, 0, 0, 0>>
    [] pc = "prime"   -> <<6, 0, 0, TestRank(mr)[1], TestRank(mr)[2], TestRank(mr)[3]>>
    [] pc = "domain"  -> <<5, 0, 0, 0, 0, 0>>
    [] pc = "resolve" -> <<4, 0, 0, 0, 0, 0>>
    [] pc = "sqrt"    -> RootRank(sq)
    [] pc = "factors" -> FactorRank(fac, mr)
    [] pc = "search"  -> <<1, 0, 0, req.q - g, 0, 0>>
    [] OTHER          -> <<0, 0, 0, 0, 0, 0>>

Ranks == [1 .. 6 -> Nat]

\* The first entry in which they differ is smaller.
Below(s, t) ==
  /\ s \in Ranks /\ t \in Ranks
  /\ \E j \in 1 .. 6 : s[j] < t[j] /\ \A i \in 1 .. j - 1 : s[i] = t[i]

RankOrder == {p \in Ranks \X Ranks : Below(p[1], p[2])}

\* No sequence of ranks descends for ever.
LEMMA RanksAreWellFounded == IsWellFoundedOn(RankOrder, Ranks)
<1> DEFINE less == {p \in Nat \X Nat : p[1] < p[2]}
           lex == LexProductOrdering(less, Nat, 6)
<1>1. IsWellFoundedOn(less, Nat)
  BY NatLessThanWellFounded DEF OpToRel
<1>2. IsWellFoundedOn(lex, Ranks)
  <2> HIDE DEF less
  <2>1. 6 \in Nat
    OBVIOUS
  <2>2. QED
    BY <1>1, <2>1, WFLexProductOrdering DEF Ranks
<1>3. RankOrder \cap (Ranks \X Ranks) \subseteq lex
  <2> SUFFICES ASSUME NEW p \in RankOrder
               PROVE  p \in lex
    OBVIOUS
  <2>1. p \in Ranks \X Ranks /\ Below(p[1], p[2])
    BY DEF RankOrder
  <2>2. PICK j \in 1 .. 6 : p[1][j] < p[2][j] /\ \A i \in 1 .. j - 1 : p[1][i] = p[2][i]
    BY <2>1 DEF Below
  <2>3. p[1][j] \in Nat /\ p[2][j] \in Nat
    BY <2>1, <2>2 DEF Ranks
  <2>4. <<p[1][j], p[2][j]>> \in less
    BY <2>2, <2>3
  <2> HIDE DEF less
  <2>5. QED
    BY <2>1, <2>2, <2>4 DEF LexProductOrdering, Ranks
<1> HIDE DEF lex, less
<1>4. QED
  BY <1>2, <1>3, IsWellFoundedOnSubrelation

\* How one rank is shown to be below another
LEMMA Lower ==
  ASSUME NEW a1 \in Nat, NEW a2 \in Nat, NEW a3 \in Nat, NEW a4 \in Nat, NEW a5 \in Nat,
         NEW a6 \in Nat, NEW b1 \in Nat, NEW b2 \in Nat, NEW b3 \in Nat, NEW b4 \in Nat,
         NEW b5 \in Nat, NEW b6 \in Nat,
         \/ a1 < b1
         \/ a1 = b1 /\ a2 < b2
         \/ a1 = b1 /\ a2 = b2 /\ a3 < b3
         \/ a1 = b1 /\ a2 = b2 /\ a3 = b3 /\ a4 < b4
         \/ a1 = b1 /\ a2 = b2 /\ a3 = b3 /\ a4 = b4 /\ a5 < b5
         \/ a1 = b1 /\ a2 = b2 /\ a3 = b3 /\ a4 = b4 /\ a5 = b5 /\ a6 < b6
  PROVE  Below(<<a1, a2, a3, a4, a5, a6>>, <<b1, b2, b3, b4, b5, b6>>)
<1> DEFINE s == <<a1, a2, a3, a4, a5, a6>>
           t == <<b1, b2, b3, b4, b5, b6>>
<1>1. /\ s[1] = a1 /\ s[2] = a2 /\ s[3] = a3 /\ s[4] = a4 /\ s[5] = a5 /\ s[6] = a6
      /\ t[1] = b1 /\ t[2] = b2 /\ t[3] = b3 /\ t[4] = b4 /\ t[5] = b5 /\ t[6] = b6
  OBVIOUS
<1>2. s \in Ranks /\ t \in Ranks
  BY DEF Ranks
<1> HIDE DEF s, t
<1>3. \E j \in 1 .. 6 : s[j] < t[j] /\ \A i \in 1 .. j - 1 : s[i] = t[i]
  <2>1. CASE a1 < b1
    BY <1>1, <2>1
  <2>2. CASE a1 = b1 /\ a2 < b2
    BY <1>1, <2>2
  <2>3. CASE a1 = b1 /\ a2 = b2 /\ a3 < b3
    BY <1>1, <2>3
  <2>4. CASE a1 = b1 /\ a2 = b2 /\ a3 = b3 /\ a4 < b4
    BY <1>1, <2>4
  <2>5. CASE a1 = b1 /\ a2 = b2 /\ a3 = b3 /\ a4 = b4 /\ a5 < b5
    BY <1>1, <2>5
  <2>6. CASE a1 = b1 /\ a2 = b2 /\ a3 = b3 /\ a4 = b4 /\ a5 = b5 /\ a6 < b6
    BY <1>1, <2>6
  <2>7. QED
    BY <2>1, <2>2, <2>3, <2>4, <2>5, <2>6
<1>4. Below(s, t)
  BY <1>2, <1>3 DEF Below
<1>5. QED
  BY <1>4 DEF s, t

\* The same, when the first entry is smaller, ...
LEMMA Lower1 ==
  ASSUME NEW a1 \in Nat, NEW a2 \in Nat, NEW a3 \in Nat, NEW a4 \in Nat, NEW a5 \in Nat, NEW a6
         \in Nat, NEW b1 \in Nat, NEW b2 \in Nat, NEW b3 \in Nat, NEW b4 \in Nat, NEW b5 \in Nat,
         NEW b6 \in Nat, a1 < b1
  PROVE  Below(<<a1, a2, a3, a4, a5, a6>>, <<b1, b2, b3, b4, b5, b6>>)
BY Lower

\* ... the second, ...
LEMMA Lower2 ==
  ASSUME NEW a1 \in Nat, NEW a2 \in Nat, NEW a3 \in Nat, NEW a4 \in Nat, NEW a5 \in Nat, NEW a6
         \in Nat, NEW b2 \in Nat, NEW b3 \in Nat, NEW b4 \in Nat, NEW b5 \in Nat, NEW b6 \in Nat,
         a2 < b2
  PROVE  Below(<<a1, a2, a3, a4, a5, a6>>, <<a1, b2, b3, b4, b5, b6>>)
BY Lower

\* ... the third, ...
LEMMA Lower3 ==
  ASSUME NEW a1 \in Nat, NEW a2 \in Nat, NEW a3 \in Nat, NEW a4 \in Nat, NEW a5 \in Nat, NEW a6
         \in Nat, NEW b3 \in Nat, NEW b4 \in Nat, NEW b5 \in Nat, NEW b6 \in Nat, a3 < b3
  PROVE  Below(<<a1, a2, a3, a4, a5, a6>>, <<a1, a2, b3, b4, b5, b6>>)
BY Lower

\* ... the fourth, ...
LEMMA Lower4 ==
  ASSUME NEW a1 \in Nat, NEW a2 \in Nat, NEW a3 \in Nat, NEW a4 \in Nat, NEW a5 \in Nat, NEW a6
         \in Nat, NEW b4 \in Nat, NEW b5 \in Nat, NEW b6 \in Nat, a4 < b4
  PROVE  Below(<<a1, a2, a3, a4, a5, a6>>, <<a1, a2, a3, b4, b5, b6>>)
BY Lower

\* ... the fifth, ...
LEMMA Lower5 ==
  ASSUME NEW a1 \in Nat, NEW a2 \in Nat, NEW a3 \in Nat, NEW a4 \in Nat, NEW a5 \in Nat, NEW a6
         \in Nat, NEW b5 \in Nat, NEW b6 \in Nat, a5 < b5
  PROVE  Below(<<a1, a2, a3, a4, a5, a6>>, <<a1, a2, a3, a4, b5, b6>>)
BY Lower

\* ... or the last
LEMMA Lower6 ==
  ASSUME NEW a1 \in Nat, NEW a2 \in Nat, NEW a3 \in Nat, NEW a4 \in Nat, NEW a5 \in Nat, NEW a6
         \in Nat, NEW b6 \in Nat, a6 < b6
  PROVE  Below(<<a1, a2, a3, a4, a5, a6>>, <<a1, a2, a3, a4, a5, b6>>)
BY Lower

\* The same for the entries that the primality test has in a rank
Entries(s) == s[1] \in Nat /\ s[2] \in Nat /\ s[3] \in Nat

Nearer(s, t) ==
  \/ s[1] < t[1]
  \/ s[1] = t[1] /\ s[2] < t[2]
  \/ s[1] = t[1] /\ s[2] = t[2] /\ s[3] < t[3]

\* They are numbers.
LEMMA TestRankType ==
  ASSUME NEW m \in TestFrames, m.pc = "square" => m.r <= m.s
  PROVE  Entries(TestRank(m))
<1>1. Len(Witnesses) \in Nat
  BY PrimalityAssumption
<1>2. m.d \in Nat /\ m.s \in Nat /\ m.r \in Nat /\ m.i \in 1 .. Len(Witnesses) + 1
  BY DEF TestFrames
<1>3. CASE m.pc = "start"
  BY <1>3 DEF TestRank, Entries
<1>4. CASE m.pc = "split"
  BY <1>2, <1>4 DEF TestRank, Entries
<1>5. CASE m.pc = "witness"
  <2>1. TestRank(m) = <<1, Len(Witnesses) + 1 - m.i, m.s + 1>>
    BY <1>5 DEF TestRank
  <2>2. QED
    BY <1>1, <1>2, <2>1 DEF Entries
<1>6. CASE m.pc = "square"
  <2>1. TestRank(m) = <<1, Len(Witnesses) + 1 - m.i, m.s - m.r>>
    BY <1>6 DEF TestRank
  <2>2. QED
    BY <1>1, <1>2, <1>6, <2>1 DEF Entries
<1>7. CASE m.pc \notin {"start", "split", "witness", "square"}
  BY <1>7 DEF TestRank, Entries
<1>8. QED
  BY <1>3, <1>4, <1>5, <1>6, <1>7

\* Each iteration of the test comes nearer to its end: d gets smaller, then
\* there are fewer witnesses left, then fewer squarings.
LEMMA TestDescends ==
  ASSUME TestInvariant, MillerRabinStep
  PROVE  /\ Entries(TestRank(mr)) /\ Entries(TestRank(mr'))
         /\ Nearer(TestRank(mr'), TestRank(mr))
<1>1. mr \in TestFrames /\ Len(Witnesses) \in Nat
  BY PrimalityAssumption DEF TestInvariant
<1>2. TestInvariant'
  BY TestStep
<1>3. Entries(TestRank(mr)) /\ Entries(TestRank(mr'))
  <2>1. mr.pc = "square" => mr.r <= mr.s
    BY DEF TestInvariant, SquaringInvariant
  <2>2. mr' \in TestFrames /\ (mr'.pc = "square" => mr'.r <= mr'.s)
    BY <1>2 DEF TestInvariant, SquaringInvariant
  <2>3. QED
    BY <1>1, <2>1, <2>2, TestRankType
<1>4. /\ mr.d \in Nat /\ mr.s \in Nat /\ mr.r \in Nat \ {0} /\ mr.i \in 1 .. Len(Witnesses) + 1
      /\ mr.q \in Nat
  BY <1>1 DEF TestFrames
<1>5. CASE DecideSmall
  <2>1. mr.pc = "start" /\ mr'.pc = "done"
    BY <1>1, <1>5 DEF DecideSmall, Answer, TestFrames
  <2>2. TestRank(mr) = <<3, 0, 0>> /\ TestRank(mr') = <<0, 0, 0>>
    BY <2>1 DEF TestRank
  <2>3. QED
    BY <1>3, <2>2 DEF Nearer
<1>6. CASE StartSplit
  <2>1. mr.pc = "start" /\ mr'.pc = "split"
    BY <1>1, <1>6 DEF StartSplit, TestFrames
  <2>2. TestRank(mr) = <<3, 0, 0>> /\ TestRank(mr') = <<2, mr'.d, 0>>
    BY <2>1 DEF TestRank
  <2>3. QED
    BY <1>3, <2>2 DEF Nearer
<1>7. CASE Halve
  <2>1. mr.pc = "split" /\ mr.d % 2 = 0 /\ mr' = [mr EXCEPT !.d = mr.d \div 2, !.s = mr.s + 1]
    BY <1>7 DEF Halve
  <2>2. mr'.pc = "split" /\ mr'.d = mr.d \div 2
    BY <1>1, <2>1 DEF TestFrames
  <2>3. mr.d # 0
    BY <2>1 DEF TestInvariant
  <2>4. TestRank(mr) = <<2, mr.d, 0>> /\ TestRank(mr') = <<2, mr.d \div 2, 0>>
    BY <2>1, <2>2 DEF TestRank
  <2>5. mr.d \div 2 < mr.d
    BY <1>4, <2>3
  <2>6. QED
    BY <1>3, <2>4, <2>5 DEF Nearer
<1>8. CASE EndSplit
  <2>1. mr.pc = "split" /\ mr'.pc = "witness"
    BY <1>1, <1>8 DEF EndSplit, TestFrames
  <2>2. TestRank(mr)[1] = 2 /\ TestRank(mr')[1] = 1
    BY <2>1 DEF TestRank
  <2>3. QED
    BY <1>3, <2>2 DEF Nearer
<1>9. CASE SkipWitness \/ WitnessPasses
  <2>1. mr.pc = "witness" /\ mr' = [mr EXCEPT !.i = mr.i + 1]
    BY <1>9 DEF SkipWitness, WitnessPasses, Trying
  <2>2. mr'.pc = "witness" /\ mr'.i = mr.i + 1
    BY <1>1, <2>1 DEF TestFrames
  <2>3. TestRank(mr)[1] = 1 /\ TestRank(mr)[2] = Len(Witnesses) + 1 - mr.i
        /\ TestRank(mr')[1] = 1 /\ TestRank(mr')[2] = Len(Witnesses) + 1 - (mr.i + 1)
    BY <2>1, <2>2 DEF TestRank
  <2>4. Len(Witnesses) + 1 - (mr.i + 1) < Len(Witnesses) + 1 - mr.i
    BY <1>1, <1>4
  <2>5. QED
    BY <1>3, <2>3, <2>4 DEF Nearer
<1>10. CASE StartSquaring
  <2>1. mr.pc = "witness" /\ mr'.pc = "square" /\ mr'.i = mr.i /\ mr'.r = 1 /\ mr'.s = mr.s
    BY <1>1, <1>10 DEF StartSquaring, Trying, TestFrames
  <2>2. TestRank(mr) = <<1, Len(Witnesses) + 1 - mr.i, mr.s + 1>>
        /\ TestRank(mr') = <<1, Len(Witnesses) + 1 - mr.i, mr.s - 1>>
    BY <2>1 DEF TestRank
  <2>3. mr.s - 1 < mr.s + 1
    BY <1>4
  <2>4. QED
    BY <1>3, <2>2, <2>3 DEF Nearer
<1>11. CASE Square
  <2> DEFINE y == MulMod(mr.x, mr.x, mr.q)
  <2>1. /\ mr.pc = "square" /\ mr.r < mr.s
        /\ \/ mr' = [mr EXCEPT !.x = y, !.r = mr.r + 1, !.i = mr.i + 1, !.pc = "witness"]
           \/ mr' = [mr EXCEPT !.x = y, !.r = mr.r + 1]
    BY <1>11 DEF Square
  <2> HIDE DEF y
  <2>2. TestRank(mr) = <<1, Len(Witnesses) + 1 - mr.i, mr.s - mr.r>>
    BY <2>1 DEF TestRank
  <2>3. CASE mr' = [mr EXCEPT !.x = y, !.r = mr.r + 1, !.i = mr.i + 1, !.pc = "witness"]
    <3>1. mr'.pc = "witness" /\ mr'.i = mr.i + 1
      BY <1>1, <2>3 DEF TestFrames
    <3>2. TestRank(mr')[1] = 1 /\ TestRank(mr')[2] = Len(Witnesses) + 1 - (mr.i + 1)
      BY <3>1 DEF TestRank
    <3>3. Len(Witnesses) + 1 - (mr.i + 1) < Len(Witnesses) + 1 - mr.i
      BY <1>1, <1>4
    <3>4. QED
      BY <1>3, <2>2, <3>2, <3>3 DEF Nearer
  <2>4. CASE mr' = [mr EXCEPT !.x = y, !.r = mr.r + 1]
    <3>1. mr'.pc = "square" /\ mr'.i = mr.i /\ mr'.r = mr.r + 1 /\ mr'.s = mr.s
      BY <1>1, <2>1, <2>4 DEF TestFrames
    <3>2. TestRank(mr') = <<1, Len(Witnesses) + 1 - mr.i, mr.s - (mr.r + 1)>>
      BY <3>1 DEF TestRank
    <3>3. mr.s - (mr.r + 1) < mr.s - mr.r
      BY <1>4
    <3>4. QED
      BY <1>3, <2>2, <3>2, <3>3 DEF Nearer
  <2>5. QED
    BY <2>1, <2>3, <2>4
<1>12. CASE WitnessFails \/ AllWitnessesPass
  <2>1. mr.pc \in {"witness", "square"} /\ mr'.pc = "done"
    BY <1>1, <1>12 DEF WitnessFails, AllWitnessesPass, Answer, TestFrames
  <2>2. TestRank(mr)[1] = 1 /\ TestRank(mr')[1] = 0
    <3>1. TestRank(mr)[1] = 1
      <4>1. CASE mr.pc = "witness"
        BY <4>1 DEF TestRank
      <4>2. CASE mr.pc = "square"
        BY <4>2 DEF TestRank
      <4>3. QED
        BY <2>1, <4>1, <4>2
    <3>2. TestRank(mr')[1] = 0
      BY <2>1 DEF TestRank
    <3>3. QED
      BY <3>1, <3>2
  <2>3. QED
    BY <1>3, <2>2 DEF Nearer
<1>13. QED
  BY <1>3, <1>5, <1>6, <1>7, <1>8, <1>9, <1>10, <1>11, <1>12 DEF MillerRabinStep

\* The number of comparisons ahead is one that the sequences have ahead, and
\* the least one.
LEMMA ComparisonsAre ==
  ASSUME NEW n \in Nat \ {0, 1}, NEW c \in Nat, NEW u, NEW v, NEW k \in Nat,
         u = Rho(n, c, k), v = Rho(n, c, 2 * k), \A i \in 1 .. k : Divisor(n, c, i) = 1
  PROVE  LET number == Comparisons(n, c, u, v) IN
         /\ number \in Nat \ {0}
         /\ \E l \in Nat : /\ u = Rho(n, c, l) /\ v = Rho(n, c, 2 * l)
                           /\ \A i \in 1 .. l : Divisor(n, c, i) = 1
                           /\ Divisor(n, c, l + number) # 1
         /\ \A j \in Nat \ {0} : Divisor(n, c, k + j) # 1 => number <= j
<1> DEFINE Ahead(j) == \E l \in Nat : /\ u = Rho(n, c, l) /\ v = Rho(n, c, 2 * l)
                                      /\ \A i \in 1 .. l : Divisor(n, c, i) = 1
                                      /\ Divisor(n, c, l + j) # 1
           ahead == {j \in Nat \ {0} : Ahead(j)}
           number == CHOOSE j \in ahead : \A i \in ahead : j <= i
<1>1. Comparisons(n, c, u, v) = number
  BY DEF Comparisons
<1>2. ahead \in SUBSET Nat /\ ahead # {}
  <2>1. PICK l \in Nat : l > k /\ Divisor(n, c, l) # 1
    BY SequencesMeet
  <2>2. l - k \in Nat \ {0} /\ k + (l - k) = l
    BY <2>1
  <2>3. Ahead(l - k)
    BY <2>1, <2>2
  <2>4. QED
    BY <2>2, <2>3
<1>3. \A j \in Nat \ {0} : Divisor(n, c, k + j) # 1 => j \in ahead
  OBVIOUS
<1>4. \A j \in ahead : j \in Nat \ {0} /\ Ahead(j)
  OBVIOUS
<1> HIDE DEF ahead
<1>5. \E j \in ahead : \A i \in ahead : j <= i
  BY <1>2, LeastElement
<1>6. number \in ahead /\ \A i \in ahead : number <= i
  BY <1>5
<1> HIDE DEF number
<1>7. number \in Nat \ {0} /\ Ahead(number)
  BY <1>4, <1>6
<1>8. \A j \in Nat \ {0} : Divisor(n, c, k + j) # 1 => number <= j
  BY <1>3, <1>6
<1>9. QED
  BY <1>1, <1>7, <1>8

\* In the loop of Pollard's rho there is a comparison ahead.
LEMMA ComparisonsLeft ==
  ASSUME FactorInvariant, RhoRun, fac.pc = "rho"
  PROVE  Comparisons(fac.n, fac.c, fac.u, fac.v) \in Nat \ {0}
<1>1. fac.n \in Nat \ {0, 1} /\ fac.c \in Nat
  BY DEF FactorInvariant, FactorFrames, PartsOf
<1>2. PICK k \in Nat : Runs(k)
  BY DEF RhoRun
<1>3. QED
  BY <1>1, <1>2, ComparisonsAre DEF Runs

\* A comparison that shows nothing leaves fewer.
LEMMA FewerComparisons ==
  ASSUME FactorInvariant, RhoRun, fac.pc = "rho", Collision = 1
  PROVE  LET after == Comparisons(fac.n, fac.c, F(fac.u), F(F(fac.v))) IN
         after \in Nat \ {0} /\ after < Comparisons(fac.n, fac.c, fac.u, fac.v)
<1> DEFINE n == fac.n
           c == fac.c
           before == Comparisons(n, c, fac.u, fac.v)
           after == Comparisons(n, c, F(fac.u), F(F(fac.v)))
<1>1. n \in Nat \ {0, 1} /\ c \in Nat
  BY DEF FactorInvariant, FactorFrames, PartsOf
<1>2. PICK k \in Nat : Runs(k)
  BY DEF RhoRun
<1>3. /\ before \in Nat \ {0}
      /\ \E l \in Nat : Runs(l) /\ Divisor(n, c, l + before) # 1
  BY <1>1, <1>2, ComparisonsAre DEF Runs
<1>4. PICK l \in Nat : Runs(l) /\ Divisor(n, c, l + before) # 1
  BY <1>3
<1>5. /\ F(fac.u) = Rho(n, c, l + 1) /\ F(F(fac.v)) = Rho(n, c, 2 * (l + 1))
      /\ Divisor(n, c, l + 1) = 1
  BY <1>1, <1>4, NextDivisor
<1> HIDE DEF before
<1>6. before # 1
  BY <1>3, <1>4, <1>5
<1>7. \A i \in 1 .. l + 1 : Divisor(n, c, i) = 1
  <2>1. \A i \in 1 .. l + 1 : i \in 1 .. l \/ i = l + 1
    BY <1>4
  <2>2. QED
    BY <1>4, <1>5, <2>1 DEF Runs
<1>8. /\ after \in Nat \ {0}
      /\ \A j \in Nat \ {0} : Divisor(n, c, (l + 1) + j) # 1 => after <= j
  <2>1. l + 1 \in Nat
    BY <1>4
  <2> HIDE DEF n, c
  <2>2. QED
    BY <1>1, <1>5, <1>7, <2>1, ComparisonsAre
<1> HIDE DEF after
<1>9. before - 1 \in Nat \ {0} /\ (l + 1) + (before - 1) = l + before
  BY <1>3, <1>4, <1>6
<1>10. after <= before - 1
  BY <1>4, <1>8, <1>9
<1>11. QED
  BY <1>3, <1>8, <1>10 DEF before, after, n, c

\* What the parts in a frame of the factoring have left
LEMMA PartsLeftIs ==
  ASSUME NEW f \in FactorFrames, f.pc \in {"loop", "test", "rho"},
         f.stack \in Seq(PartsOf(f.x)),
         f.pc \in {"test", "rho"} => f.n \in PartsOf(f.x)
  PROVE  /\ PartsLeft(f) \in Nat
         /\ Waiting(f.stack) \in Nat /\ Len(f.stack) \in Nat /\ f.stack \in Seq(Nat)
         /\ Len(f.stack) <= Waiting(f.stack)
         /\ f.pc = "loop" => PartsLeft(f) = 2 * Waiting(f.stack) - Len(f.stack)
         /\ f.pc \in {"test", "rho"} =>
              /\ Count[f.n] \in Nat \ {0}
              /\ PartsLeft(f) = 2 * Waiting(f.stack) - Len(f.stack) + 2 * Count[f.n] - 1
<1>1. f.stack \in Seq(Nat) /\ f.x \in Nat /\ f.n \in Nat
  BY DEF FactorFrames
<1>2. Waiting(f.stack) \in Nat /\ Len(f.stack) \in Nat
  BY <1>1, WaitingTerms
<1>3. Len(f.stack) <= Waiting(f.stack)
  BY <1>1, WaitingLong
<1>4. CASE f.pc = "loop"
  <2>1. PartsLeft(f) = 2 * Waiting(f.stack) - Len(f.stack) + 0
    BY <1>4 DEF PartsLeft
  <2>2. QED
    BY <1>1, <1>2, <1>3, <1>4, <2>1
<1>5. CASE f.pc \in {"test", "rho"}
  <2>1. PartsLeft(f) = 2 * Waiting(f.stack) - Len(f.stack) + (2 * Count[f.n] - 1)
    BY <1>5 DEF PartsLeft
  <2>2. f.n >= 2
    BY <1>5 DEF PartsOf
  <2>3. Count[f.n] \in Nat /\ Count[f.n] >= 1
    BY <1>1, <2>2, CountIs
  <2>4. QED
    BY <1>1, <1>2, <1>3, <1>5, <2>1, <2>3
<1>6. QED
  BY <1>4, <1>5

\* A new seed has comparisons ahead.
LEMMA ComparisonsAtStart ==
  ASSUME NEW n \in Nat \ {0, 1}, NEW c \in Nat
  PROVE  Comparisons(n, c, 2, 2) \in Nat \ {0}
<1>1. 2 = Rho(n, c, 0) /\ 2 = Rho(n, c, 2 * 0) /\ \A i \in 1 .. 0 : Divisor(n, c, i) = 1
  <2>1. 2 * 0 = 0 /\ 1 .. 0 = {} /\ n \in Nat \ {0}
    OBVIOUS
  <2>2. QED
    BY <2>1, RhoIs
<1>2. QED
  BY <1>1, ComparisonsAre

(***************************************************************************)
(* Each step of the factoring comes nearer to its end.  A split leaves two *)
(* parts for one, which together have its factors: there are fewer splits  *)
(* to come.                                                                *)
(***************************************************************************)
LEMMA FactoringDescends ==
  ASSUME FactorInvariant, TestInvariant, TestInvariant', PartUnderTest, RhoRun, FactoringStep
  PROVE  Below(FactorRank(fac', mr'), FactorRank(fac, mr))
<1> DEFINE P == PartsLeft(fac)
<1>1. fac \in FactorFrames /\ FactorInvariant' /\ fac' \in FactorFrames
  BY FactoringStepInvariant DEF FactorInvariant
<1>2. /\ MaxSeeds \in Nat \ {0} /\ 0 \in Nat /\ 1 \in Nat /\ 2 \in Nat /\ 3 \in Nat
      /\ 0 < 3 /\ 2 < 3 /\ 1 < 2
  BY FactoringAssumption
<1>3. fac.pc \in {"loop", "test", "rho"} => P \in Nat
  BY <1>1, PartsLeftIs DEF FactorInvariant
<1>4. fac.pc \in {"test", "rho"} => P >= 1
  <2> SUFFICES ASSUME fac.pc \in {"test", "rho"}
               PROVE  P >= 1
    OBVIOUS
  <2>1. /\ Waiting(fac.stack) \in Nat /\ Len(fac.stack) \in Nat
        /\ Len(fac.stack) <= Waiting(fac.stack) /\ Count[fac.n] \in Nat \ {0}
        /\ P = 2 * Waiting(fac.stack) - Len(fac.stack) + 2 * Count[fac.n] - 1
    BY <1>1, PartsLeftIs DEF FactorInvariant
  <2>2. QED
    BY <2>1
<1>5. fac'.pc \in {"loop", "test", "rho"} => PartsLeft(fac') \in Nat
  BY <1>1, PartsLeftIs DEF FactorInvariant
<1>6. fac.pc \in {"test", "rho"} => fac.n \in Nat \ {0, 1} /\ fac.c \in Nat /\ fac.c <= MaxSeeds
  BY <1>1 DEF FactorInvariant, FactorFrames, PartsOf, FactoringTypeOK
<1>7. Entries(TestRank(mr)) /\ Entries(TestRank(mr'))
  <2>1. mr \in TestFrames /\ (mr.pc = "square" => mr.r <= mr.s)
    BY DEF TestInvariant, SquaringInvariant
  <2>2. mr' \in TestFrames /\ (mr'.pc = "square" => mr'.r <= mr'.s)
    BY DEF TestInvariant, SquaringInvariant
  <2>3. QED
    BY <2>1, <2>2, TestRankType
<1>8. fac.pc = "rho" => Comparisons(fac.n, fac.c, fac.u, fac.v) \in Nat
  BY ComparisonsLeft
<1> HIDE DEF P
<1>9. CASE RejectInput \/ PowerOfTwoOnly \/ StripTwo
  <2>1. fac.pc = "start" /\ fac'.pc \in {"failed", "done", "loop"}
    BY <1>1, <1>9 DEF RejectInput, PowerOfTwoOnly, StripTwo, FactorFrames
  <2>2. FactorRank(fac, mr) = <<3, 0, 0, 0, 0, 0>>
    BY <2>1 DEF FactorRank
  <2>3. CASE fac'.pc = "loop"
    <3>1. FactorRank(fac', mr') = <<2, PartsLeft(fac'), 3, 0, 0, 0>>
      BY <2>3 DEF FactorRank
    <3>2. Below(<<2, PartsLeft(fac'), 3, 0, 0, 0>>, <<3, 0, 0, 0, 0, 0>>)
      BY <1>2, <1>5, <2>3, Lower1
    <3>3. QED
      BY <3>2, <2>2, <3>1
  <2>4. CASE fac'.pc \in {"failed", "done"}
    <3>1. FactorRank(fac', mr') = <<2, 0, 0, 0, 0, 0>>
      BY <2>4 DEF FactorRank
    <3>2. Below(<<2, 0, 0, 0, 0, 0>>, <<3, 0, 0, 0, 0, 0>>)
      BY <1>2, Lower1
    <3>3. QED
      BY <3>2, <2>2, <3>1
  <2>5. QED
    BY <2>1, <2>3, <2>4
<1>10. CASE PopPart
  <2> DEFINE top == fac.stack[Len(fac.stack)]
             rest == SubSeq(fac.stack, 1, Len(fac.stack) - 1)
  <2>1. fac' = [fac EXCEPT !.pc = "test", !.n = top, !.stack = rest]
        /\ fac.stack # <<>> /\ fac.pc = "loop"
    BY <1>10 DEF PopPart
  <2>2. fac'.pc = "test" /\ fac'.stack = rest /\ fac'.n = top
    BY <1>1, <2>1 DEF FactorFrames
  <2>3. /\ Waiting(fac.stack) \in Nat /\ Len(fac.stack) \in Nat /\ fac.stack \in Seq(Nat)
        /\ P = 2 * Waiting(fac.stack) - Len(fac.stack)
    BY <1>1, <2>1, PartsLeftIs DEF FactorInvariant, P
  <2>4. /\ Waiting(rest) \in Nat /\ Len(rest) \in Nat /\ Count[top] \in Nat \ {0}
        /\ PartsLeft(fac') = 2 * Waiting(rest) - Len(rest) + 2 * Count[top] - 1
    BY <1>1, <2>2, PartsLeftIs DEF FactorInvariant
  <2>5. Waiting(fac.stack) = Waiting(rest) + Count[top]
    BY <2>1, <2>3, WaitingPopped
  <2>6. Len(rest) = Len(fac.stack) - 1
    <3>1. Len(fac.stack) # 0
      BY <2>1, <2>3, EmptySeq
    <3>2. QED
      BY <2>3, <3>1
  <2> HIDE DEF top, rest
  <2>7. PartsLeft(fac') = P
    BY <2>3, <2>4, <2>5, <2>6
  <2>8. FactorRank(fac, mr) = <<2, P, 3, 0, 0, 0>>
    BY <2>1 DEF FactorRank, P
  <2>9. FactorRank(fac', mr')
          = <<2, P, 2, TestRank(mr')[1], TestRank(mr')[2], TestRank(mr')[3]>>
    BY <2>2, <2>7 DEF FactorRank
  <2>10. Below(<<2, P, 2, TestRank(mr')[1], TestRank(mr')[2], TestRank(mr')[3]>>,
                <<2, P, 3, 0, 0, 0>>)
    BY <1>2, <1>3, <1>7, <2>1, Lower3 DEF Entries
  <2>11. QED
    BY <2>10, <2>8, <2>9
<1>11. CASE TestPart
  <2>1. fac.pc = "test" /\ fac' = fac /\ MillerRabinStep
    BY <1>11 DEF TestPart
  <2>2. FactorRank(fac, mr) = <<2, P, 2, TestRank(mr)[1], TestRank(mr)[2], TestRank(mr)[3]>>
    BY <2>1 DEF FactorRank, P
  <2>3. FactorRank(fac', mr')
          = <<2, P, 2, TestRank(mr')[1], TestRank(mr')[2], TestRank(mr')[3]>>
    BY <2>1 DEF FactorRank, P
  <2>4. Nearer(TestRank(mr'), TestRank(mr))
    BY <2>1, TestDescends
  <2>5. Below(<<2, P, 2, TestRank(mr')[1], TestRank(mr')[2], TestRank(mr')[3]>>,
                <<2, P, 2, TestRank(mr)[1], TestRank(mr)[2], TestRank(mr)[3]>>)
    BY <1>2, <1>3, <1>7, <2>1, <2>4, Lower DEF Entries, Nearer
  <2>6. QED
    BY <2>5, <2>2, <2>3
<1>12. CASE RecordPrime
  <2> DEFINE fs == fac.factors \union {fac.n}
  <2>1. /\ fac.pc = "test"
        /\ \/ fac' = [fac EXCEPT !.pc = "failed"]
           \/ fac' = [fac EXCEPT !.pc = "loop", !.factors = fs]
    BY <1>12 DEF RecordPrime
  <2> HIDE DEF fs
  <2>2. FactorRank(fac, mr) = <<2, P, 2, TestRank(mr)[1], TestRank(mr)[2], TestRank(mr)[3]>>
    BY <2>1 DEF FactorRank, P
  <2>3. CASE fac' = [fac EXCEPT !.pc = "failed"]
    <3>1. fac'.pc = "failed"
      BY <1>1, <2>3 DEF FactorFrames
    <3>2. FactorRank(fac', mr') = <<2, 0, 0, 0, 0, 0>>
      BY <3>1 DEF FactorRank
    <3>3. 0 < P
      BY <1>3, <1>4, <2>1
    <3>4. Below(<<2, 0, 0, 0, 0, 0>>,
                  <<2, P, 2, TestRank(mr)[1], TestRank(mr)[2], TestRank(mr)[3]>>)
      BY <1>2, <1>3, <1>7, <2>1, <3>3, Lower2 DEF Entries
    <3>5. QED
      BY <3>4, <2>2, <3>2
  <2>4. CASE fac' = [fac EXCEPT !.pc = "loop", !.factors = fs]
    <3>1. fac'.pc = "loop" /\ fac'.stack = fac.stack
      BY <1>1, <2>4 DEF FactorFrames
    <3>2. FactorRank(fac', mr') = <<2, PartsLeft(fac'), 3, 0, 0, 0>>
      BY <3>1 DEF FactorRank
    <3>3. PartsLeft(fac') < P
      <4>1. PartsLeft(fac') = 2 * Waiting(fac.stack) - Len(fac.stack)
        BY <1>1, <3>1, PartsLeftIs DEF FactorInvariant
      <4>2. /\ Waiting(fac.stack) \in Nat /\ Len(fac.stack) \in Nat /\ Count[fac.n] \in Nat \ {0}
            /\ P = 2 * Waiting(fac.stack) - Len(fac.stack) + 2 * Count[fac.n] - 1
        BY <1>1, <2>1, PartsLeftIs DEF FactorInvariant, P
      <4>3. QED
        BY <4>1, <4>2
    <3>4. Below(<<2, PartsLeft(fac'), 3, 0, 0, 0>>,
                  <<2, P, 2, TestRank(mr)[1], TestRank(mr)[2], TestRank(mr)[3]>>)
      BY <1>2, <1>3, <1>5, <1>7, <2>1, <3>1, <3>3, Lower2 DEF Entries
    <3>5. QED
      BY <3>4, <2>2, <3>2
  <2>5. QED
    BY <2>1, <2>3, <2>4
<1>13. CASE StartRho
  <2>1. fac.pc = "test" /\ fac' = [fac EXCEPT !.pc = "rho", !.c = 1, !.u = 2, !.v = 2]
    BY <1>13 DEF StartRho
  <2>2. fac'.pc = "rho" /\ fac'.c = 1 /\ fac'.u = 2 /\ fac'.v = 2 /\ fac'.n = fac.n
        /\ fac'.stack = fac.stack
    BY <1>1, <2>1 DEF FactorFrames
  <2>3. PartsLeft(fac') = P
    BY <2>1, <2>2 DEF PartsLeft, P
  <2> DEFINE k == Comparisons(fac.n, 1, 2, 2)
  <2>4. k \in Nat
    BY <1>2, <1>6, <2>1, ComparisonsAtStart
  <2>5. FactorRank(fac', mr') = <<2, P, 1, MaxSeeds - 1, k, 0>>
    BY <2>2, <2>3 DEF FactorRank
  <2> HIDE DEF k
  <2>6. FactorRank(fac, mr) = <<2, P, 2, TestRank(mr)[1], TestRank(mr)[2], TestRank(mr)[3]>>
    BY <2>1 DEF FactorRank, P
  <2>7. MaxSeeds - 1 \in Nat
    BY <1>2
  <2>8. Below(<<2, P, 1, MaxSeeds - 1, k, 0>>,
                <<2, P, 2, TestRank(mr)[1], TestRank(mr)[2], TestRank(mr)[3]>>)
    BY <1>2, <1>3, <1>7, <2>1, <2>4, <2>7, Lower3 DEF Entries
  <2>9. QED
    BY <2>8, <2>5, <2>6
<1>14. CASE RhoStep
  <2>1. fac.pc = "rho" /\ Collision = 1
        /\ fac' = [fac EXCEPT !.u = F(fac.u), !.v = F(F(fac.v))]
    BY <1>14 DEF RhoStep
  <2>2. fac'.pc = "rho" /\ fac'.c = fac.c /\ fac'.u = F(fac.u) /\ fac'.v = F(F(fac.v))
        /\ fac'.n = fac.n /\ fac'.stack = fac.stack
    BY <1>1, <2>1 DEF FactorFrames
  <2>3. PartsLeft(fac') = P
    BY <2>1, <2>2 DEF PartsLeft, P
  <2> DEFINE before == Comparisons(fac.n, fac.c, fac.u, fac.v)
             after == Comparisons(fac.n, fac.c, F(fac.u), F(F(fac.v)))
  <2>4. after \in Nat /\ after < before /\ before \in Nat
    BY <1>8, <2>1, FewerComparisons
  <2>5. FactorRank(fac', mr') = <<2, P, 1, MaxSeeds - fac.c, after, 0>>
    BY <2>2, <2>3 DEF FactorRank
  <2>6. FactorRank(fac, mr) = <<2, P, 1, MaxSeeds - fac.c, before, 0>>
    BY <2>1 DEF FactorRank, P
  <2> HIDE DEF before, after
  <2>7. MaxSeeds - fac.c \in Nat
    BY <1>2, <1>6, <2>1
  <2>8. Below(<<2, P, 1, MaxSeeds - fac.c, after, 0>>, <<2, P, 1, MaxSeeds - fac.c, before, 0>>)
    BY <1>2, <1>3, <2>1, <2>4, <2>7, Lower5
  <2>9. QED
    BY <2>8, <2>5, <2>6
<1>15. CASE Split
  <2> DEFINE d == Collision
             e == fac.n \div d
             stack == fac.stack \o <<d, e>>
             k == Comparisons(fac.n, fac.c, fac.u, fac.v)
  <2>1. /\ fac.pc = "rho" /\ d \notin {1, fac.n}
        /\ \E depth \in {Len(stack), fac.depth} :
             fac' = [fac EXCEPT !.pc = "loop", !.stack = stack, !.depth = depth]
    BY <1>15 DEF Split, Push
  <2>2. fac.n \in PartsOf(fac.x) /\ fac.c \in Nat /\ fac.u \in Nat /\ fac.v \in Nat
        /\ fac.x \in Nat /\ fac.stack \in Seq(Nat)
    BY <1>1, <2>1 DEF FactorInvariant, FactorFrames
  <2>3. d \in Nat \ {0} /\ fac.n % d = 0
    <3>1. fac.n \in Nat \ {0}
      BY <2>2 DEF PartsOf
    <3>2. QED
      BY <2>2, <3>1, CollisionIs
  <2> HIDE DEF d
  <2>4. d \in Nat \ {0, 1, fac.n}
    BY <2>1, <2>3
  <2>5. d \in PartsOf(fac.x) /\ e \in PartsOf(fac.x) /\ fac.n = e * d
    BY <2>2, <2>3, <2>4, SplitParts
  <2> HIDE DEF e
  <2>6. d \in Nat \ {0} /\ e \in Nat \ {0} /\ d \in Nat /\ e \in Nat
    BY <2>5 DEF PartsOf
  <2>7. Count[fac.n] = Count[e] + Count[d] /\ Count[d] \in Nat /\ Count[e] \in Nat
    BY <2>5, <2>6, CountIs, CountProduct
  <2>8. Waiting(stack) = Waiting(fac.stack) + Count[d] + Count[e]
    BY <2>2, <2>6, WaitingPushed
  <2>9. Len(stack) = Len(fac.stack) + 2
    BY <2>2
  <2> HIDE DEF stack
  <2>10. fac'.pc = "loop" /\ fac'.stack = stack
    BY <1>1, <2>1 DEF FactorFrames
  <2>11. PartsLeft(fac') < P
    <3>1. PartsLeft(fac') = 2 * Waiting(stack) - Len(stack)
      BY <1>1, <2>10, PartsLeftIs DEF FactorInvariant
    <3>2. /\ Waiting(fac.stack) \in Nat /\ Len(fac.stack) \in Nat
          /\ P = 2 * Waiting(fac.stack) - Len(fac.stack) + 2 * Count[fac.n] - 1
      BY <1>1, <2>1, PartsLeftIs DEF FactorInvariant, P
    <3>3. QED
      BY <2>7, <2>8, <2>9, <3>1, <3>2
  <2>12. FactorRank(fac', mr') = <<2, PartsLeft(fac'), 3, 0, 0, 0>>
    BY <2>10 DEF FactorRank
  <2>13. FactorRank(fac, mr) = <<2, P, 1, MaxSeeds - fac.c, k, 0>>
    BY <2>1 DEF FactorRank, P
  <2>14. k \in Nat /\ MaxSeeds - fac.c \in Nat
    BY <1>2, <1>6, <1>8, <2>1
  <2> HIDE DEF k
  <2>15. Below(<<2, PartsLeft(fac'), 3, 0, 0, 0>>, <<2, P, 1, MaxSeeds - fac.c, k, 0>>)
    BY <1>2, <1>3, <1>5, <2>1, <2>10, <2>11, <2>14, Lower2
  <2>16. QED
    BY <2>15, <2>12, <2>13
<1>16. CASE NextSeed
  <2> DEFINE k == Comparisons(fac.n, fac.c, fac.u, fac.v)
             next == Comparisons(fac.n, fac.c + 1, 2, 2)
  <2>1. /\ fac.pc = "rho"
        /\ \/ /\ fac.c + 1 <= MaxSeeds
              /\ fac' = [fac EXCEPT !.c = fac.c + 1, !.u = 2, !.v = 2]
           \/ fac' = [fac EXCEPT !.pc = "failed"]
    BY <1>16 DEF NextSeed
  <2>2. FactorRank(fac, mr) = <<2, P, 1, MaxSeeds - fac.c, k, 0>>
    BY <2>1 DEF FactorRank, P
  <2>3. k \in Nat /\ MaxSeeds - fac.c \in Nat
    BY <1>2, <1>6, <1>8, <2>1
  <2>4. next \in Nat
    <3>1. fac.n \in Nat \ {0, 1} /\ fac.c + 1 \in Nat
      BY <1>6, <2>1
    <3>2. QED
      BY <3>1, ComparisonsAtStart
  <2>5. CASE fac' = [fac EXCEPT !.c = fac.c + 1, !.u = 2, !.v = 2] /\ fac.c + 1 <= MaxSeeds
    <3>1. fac'.pc = "rho" /\ fac'.c = fac.c + 1 /\ fac'.u = 2 /\ fac'.v = 2 /\ fac'.n = fac.n
          /\ fac'.stack = fac.stack
      BY <1>1, <2>1, <2>5 DEF FactorFrames
    <3>2. PartsLeft(fac') = P
      BY <2>1, <3>1 DEF PartsLeft, P
    <3>3. FactorRank(fac', mr') = <<2, P, 1, MaxSeeds - (fac.c + 1), next, 0>>
      BY <3>1, <3>2 DEF FactorRank
    <3>4. MaxSeeds - (fac.c + 1) \in Nat /\ MaxSeeds - (fac.c + 1) < MaxSeeds - fac.c
      BY <1>2, <1>6, <2>1, <2>5
    <3> HIDE DEF next, k
    <3>5. Below(<<2, P, 1, MaxSeeds - (fac.c + 1), next, 0>>, <<2, P, 1, MaxSeeds - fac.c, k, 0>>)
      BY <1>2, <1>3, <2>1, <2>3, <2>4, <3>4, Lower4
    <3>6. QED
      BY <3>5, <2>2, <3>3
  <2>6. CASE fac' = [fac EXCEPT !.pc = "failed"]
    <3>1. fac'.pc = "failed"
      BY <1>1, <2>6 DEF FactorFrames
    <3>2. FactorRank(fac', mr') = <<2, 0, 0, 0, 0, 0>>
      BY <3>1 DEF FactorRank
    <3>3. 0 < P
      BY <1>3, <1>4, <2>1
    <3> HIDE DEF next, k
    <3>4. Below(<<2, 0, 0, 0, 0, 0>>, <<2, P, 1, MaxSeeds - fac.c, k, 0>>)
      BY <1>2, <1>3, <2>1, <2>3, <3>3, Lower2
    <3>5. QED
      BY <3>4, <2>2, <3>2
  <2>7. QED
    BY <2>1, <2>5, <2>6
<1>17. CASE Finish
  <2>1. fac.pc = "loop" /\ fac'.pc = "done"
    BY <1>1, <1>17 DEF Finish, FactorFrames
  <2>2. FactorRank(fac, mr) = <<2, P, 3, 0, 0, 0>> /\ FactorRank(fac', mr') = <<2, 0, 0, 0, 0, 0>>
    BY <2>1 DEF FactorRank, P
  <2>3. 0 < P \/ 0 = P
    BY <1>3, <2>1
  <2>4. Below(<<2, 0, 0, 0, 0, 0>>, <<2, P, 3, 0, 0, 0>>)
    BY <1>2, <1>3, <2>1, <2>3, Lower2, Lower3
  <2>5. QED
    BY <2>4, <2>2
<1>18. QED
  BY <1>9, <1>10, <1>11, <1>12, <1>13, <1>14, <1>15, <1>16, <1>17 DEF FactoringStep

\* Each step of the search for a square root comes nearer to its end: the
\* order of t is found below M, and becomes the next M.
LEMMA RootDescends ==
  ASSUME SqrtInvariant, SqrtModStep
  PROVE  Below(RootRank(sq'), RootRank(sq))
<1>1. sq \in RootFrames /\ sq' \in RootFrames
  BY SqrtStep DEF SqrtInvariant
<1>2. sq.M \in Nat /\ sq.i \in Nat /\ sq.e \in Nat /\ sq'.M \in Nat
  BY <1>1 DEF RootFrames
<1>3. sq.pc \in {"test", "order", "raise"} => 0 < sq.M
  BY <1>2 DEF SqrtInvariant
<1>4. 0 \in Nat /\ 1 \in Nat /\ 2 \in Nat /\ 3 \in Nat /\ 2 < 3 /\ 1 < 2
  OBVIOUS
\* The end
<1>5. ASSUME sq'.pc \in {"done", "failed"}, sq.pc \in {"start", "test", "order"},
             sq.pc = "order" => sq.i < sq.M
      PROVE  Below(RootRank(sq'), RootRank(sq))
  <2>1. RootRank(sq') = <<2, 0, 0, 0, 0, 0>>
    BY <1>5 DEF RootRank
  <2>2. CASE sq.pc = "start"
    <3>1. RootRank(sq) = <<3, 0, 0, 0, 0, 0>>
      BY <2>2 DEF RootRank
    <3>2. Below(<<2, 0, 0, 0, 0, 0>>, <<3, 0, 0, 0, 0, 0>>)
      BY <1>4, Lower1
    <3>3. QED
      BY <2>1, <3>1, <3>2
  <2>3. CASE sq.pc = "test"
    <3>1. RootRank(sq) = <<2, sq.M, 3, 0, 0, 0>>
      BY <2>3 DEF RootRank
    <3>2. Below(<<2, 0, 0, 0, 0, 0>>, <<2, sq.M, 3, 0, 0, 0>>)
      BY <1>2, <1>3, <1>4, <2>3, Lower2
    <3>3. QED
      BY <2>1, <3>1, <3>2
  <2>4. CASE sq.pc = "order"
    <3>1. RootRank(sq) = <<2, sq.M, 2, sq.M - sq.i, 0, 0>>
      BY <2>4 DEF RootRank
    <3>2. sq.M - sq.i \in Nat
      BY <1>2, <1>5, <2>4
    <3>3. Below(<<2, 0, 0, 0, 0, 0>>, <<2, sq.M, 2, sq.M - sq.i, 0, 0>>)
      BY <1>2, <1>3, <1>4, <2>4, <3>2, Lower2
    <3>4. QED
      BY <2>1, <3>1, <3>3
  <2>5. QED
    BY <1>5, <2>2, <2>3, <2>4
<1>6. CASE SqrtOfZero \/ SqrtDirect \/ SqrtRefused
  <2>1. sq.pc = "start" /\ sq'.pc \in {"done", "failed"}
    BY <1>1, <1>6 DEF SqrtOfZero, SqrtDirect, SqrtRefused, Succeed, RootFrames
  <2>2. QED
    BY <1>5, <2>1
<1>7. CASE StartTonelli
  <2>1. sq.pc = "start" /\ sq'.pc = "test"
    BY <1>1, <1>7 DEF StartTonelli, RootFrames
  <2>2. RootRank(sq) = <<3, 0, 0, 0, 0, 0>> /\ RootRank(sq') = <<2, sq'.M, 3, 0, 0, 0>>
    BY <2>1 DEF RootRank
  <2>3. Below(<<2, sq'.M, 3, 0, 0, 0>>, <<3, 0, 0, 0, 0, 0>>)
    BY <1>2, <1>4, Lower1
  <2>4. QED
    BY <2>2, <2>3
<1>8. CASE LoopTest
  <2>1. sq.pc = "test"
    BY <1>8 DEF LoopTest
  <2>2. CASE sq.t = 1
    <3>1. sq'.pc = "done"
      BY <1>1, <1>8, <2>2 DEF LoopTest, Succeed, RootFrames
    <3>2. QED
      BY <1>5, <2>1, <3>1
  <2>3. CASE sq.t # 1
    <3>1. sq'.pc = "order" /\ sq'.M = sq.M /\ sq'.i = 0
      BY <1>1, <1>8, <2>3 DEF LoopTest, RootFrames
    <3>2. RootRank(sq) = <<2, sq.M, 3, 0, 0, 0>>
          /\ RootRank(sq') = <<2, sq.M, 2, sq.M - 0, 0, 0>>
      BY <2>1, <3>1 DEF RootRank
    <3>3. sq.M - 0 \in Nat
      BY <1>2
    <3>4. Below(<<2, sq.M, 2, sq.M - 0, 0, 0>>, <<2, sq.M, 3, 0, 0, 0>>)
      BY <1>2, <1>4, <3>3, Lower3
    <3>5. QED
      BY <3>2, <3>4
  <2>4. QED
    BY <2>2, <2>3
<1>9. CASE SquareT
  <2>1. sq.pc = "order" /\ sq.i < sq.M
    BY <1>9 DEF SquareT, SqrtInvariant
  <2>2. CASE sq.i + 1 = sq.M
    <3>1. sq'.pc = "failed"
      BY <1>1, <1>9, <2>2 DEF SquareT, RootFrames
    <3>2. QED
      BY <1>5, <2>1, <3>1
  <2>3. CASE sq.i + 1 # sq.M
    <3>1. sq'.pc = "order" /\ sq'.M = sq.M /\ sq'.i = sq.i + 1
      BY <1>1, <1>9, <2>1, <2>3 DEF SquareT, RootFrames
    <3>2. RootRank(sq) = <<2, sq.M, 2, sq.M - sq.i, 0, 0>>
          /\ RootRank(sq') = <<2, sq.M, 2, sq.M - (sq.i + 1), 0, 0>>
      BY <2>1, <3>1 DEF RootRank
    <3>3. sq.M - sq.i \in Nat /\ sq.M - (sq.i + 1) \in Nat /\ sq.M - (sq.i + 1) < sq.M - sq.i
      BY <1>2, <2>1
    <3>4. Below(<<2, sq.M, 2, sq.M - (sq.i + 1), 0, 0>>, <<2, sq.M, 2, sq.M - sq.i, 0, 0>>)
      BY <1>2, <1>4, <3>3, Lower4
    <3>5. QED
      BY <3>2, <3>4
  <2>4. QED
    BY <2>2, <2>3
<1>10. CASE OrderFound
  <2>1. sq.pc = "order" /\ sq.i < sq.M
    BY <1>10 DEF OrderFound, SqrtInvariant
  <2>2. sq'.pc = "raise" /\ sq'.M = sq.M /\ sq'.i = sq.i /\ sq'.e = 0
    BY <1>1, <1>10 DEF OrderFound, RootFrames
  <2>3. RootRank(sq) = <<2, sq.M, 2, sq.M - sq.i, 0, 0>>
        /\ RootRank(sq') = <<2, sq.M, 1, sq.M - sq.i - 1 - 0, 0, 0>>
    BY <2>1, <2>2 DEF RootRank
  <2>4. sq.M - sq.i \in Nat /\ sq.M - sq.i - 1 - 0 \in Nat
    BY <1>2, <2>1
  <2>5. Below(<<2, sq.M, 1, sq.M - sq.i - 1 - 0, 0, 0>>, <<2, sq.M, 2, sq.M - sq.i, 0, 0>>)
    BY <1>2, <1>4, <2>4, Lower3
  <2>6. QED
    BY <2>3, <2>5
<1>11. CASE RaiseB
  <2>1. sq.pc = "raise" /\ sq.e < sq.M - sq.i - 1
    BY <1>11 DEF RaiseB
  <2>2. sq'.pc = "raise" /\ sq'.M = sq.M /\ sq'.i = sq.i /\ sq'.e = sq.e + 1
    BY <1>1, <1>11 DEF RaiseB, RootFrames
  <2> DEFINE left == sq.M - sq.i - 1 - sq.e
             after == sq.M - sq.i - 1 - (sq.e + 1)
  <2>3. RootRank(sq) = <<2, sq.M, 1, left, 0, 0>>
        /\ RootRank(sq') = <<2, sq.M, 1, after, 0, 0>>
    BY <2>1, <2>2 DEF RootRank
  <2>4. left \in Nat /\ after \in Nat /\ after < left
    BY <1>2, <2>1
  <2> HIDE DEF left, after
  <2>5. Below(<<2, sq.M, 1, after, 0, 0>>, <<2, sq.M, 1, left, 0, 0>>)
    BY <1>2, <1>4, <2>4, Lower4
  <2>6. QED
    BY <2>3, <2>5
<1>12. CASE Correct
  <2>1. sq.pc = "raise" /\ sq.i < sq.M /\ sq.e <= sq.M - sq.i - 1
    BY <1>12 DEF Correct, SqrtInvariant
  <2>2. sq'.pc = "test" /\ sq'.M = sq.i
    BY <1>1, <1>12 DEF Correct, RootFrames
  <2> DEFINE left == sq.M - sq.i - 1 - sq.e
  <2>3. RootRank(sq) = <<2, sq.M, 1, left, 0, 0>> /\ RootRank(sq') = <<2, sq.i, 3, 0, 0, 0>>
    BY <2>1, <2>2 DEF RootRank
  <2>4. left \in Nat
    BY <1>2, <2>1
  <2> HIDE DEF left
  <2>5. Below(<<2, sq.i, 3, 0, 0, 0>>, <<2, sq.M, 1, left, 0, 0>>)
    BY <1>2, <1>4, <2>1, <2>4, Lower2
  <2>6. QED
    BY <2>3, <2>5
<1>13. QED
  BY <1>6, <1>7, <1>8, <1>9, <1>10, <1>11, <1>12 DEF SqrtModStep

\* A phase that follows another
LEMMA NextPhase ==
  ASSUME NEW a \in Nat, NEW b \in Nat, a < b
  PROVE  Below(<<a, 0, 0, 0, 0, 0>>, <<b, 0, 0, 0, 0, 0>>)
BY Lower1

(***************************************************************************)
(* Each step of the resolution comes nearer to its end: of the phases, by  *)
(* the frame of the function that runs, or by the next candidate.          *)
(***************************************************************************)
LEMMA DescentStep ==
  ASSUME ResolutionInvariant, ResolutionInvariant', RhoRun, Next
  PROVE  Below(Rank', Rank)
<1>1. /\ TestInvariant /\ FactorInvariant /\ PartUnderTest /\ SqrtInvariant /\ Progress
      /\ TestInvariant' /\ Progress' /\ req \in Requests
  BY DEF ResolutionInvariant, FramesInvariant
<1>2. /\ 0 \in Nat /\ 1 \in Nat /\ 2 \in Nat /\ 3 \in Nat /\ 4 \in Nat /\ 5 \in Nat
      /\ 6 \in Nat /\ 7 \in Nat /\ 0 < 1 /\ 1 < 2 /\ 1 < 4 /\ 6 < 7
  OBVIOUS
<1>3. Entries(TestRank(mr)) /\ Entries(TestRank(mr'))
  <2>1. mr \in TestFrames /\ (mr.pc = "square" => mr.r <= mr.s)
    BY <1>1 DEF TestInvariant, SquaringInvariant
  <2>2. mr' \in TestFrames /\ (mr'.pc = "square" => mr'.r <= mr'.s)
    BY <1>1 DEF TestInvariant, SquaringInvariant
  <2>3. QED
    BY <2>1, <2>2, TestRankType
<1>4. req.q \in Nat /\ g \in Nat
  BY <1>1, RequestType DEF Progress
<1>5. CASE ValidateModulusToy \/ RefuseLargeModulus
  <2>1. pc = "modulus" /\ pc' \in {"domain", "failed"}
    BY <1>5 DEF ValidateModulusToy, RefuseLargeModulus
  <2>2. Rank = <<7, 0, 0, 0, 0, 0>>
    BY <2>1 DEF Rank
  <2>3. Rank' = <<5, 0, 0, 0, 0, 0>> \/ Rank' = <<0, 0, 0, 0, 0, 0>>
    BY <2>1 DEF Rank
  <2>4. Below(<<5, 0, 0, 0, 0, 0>>, <<7, 0, 0, 0, 0, 0>>)
        /\ Below(<<0, 0, 0, 0, 0, 0>>, <<7, 0, 0, 0, 0, 0>>)
    BY NextPhase
  <2>5. QED
    BY <2>2, <2>3, <2>4
<1>6. CASE TestModulus
  <2>1. pc = "modulus" /\ pc' = "prime"
    BY <1>6 DEF TestModulus
  <2> DEFINE x == TestRank(mr')[1]
             y == TestRank(mr')[2]
             z == TestRank(mr')[3]
  <2>2. Rank = <<7, 0, 0, 0, 0, 0>> /\ Rank' = <<6, 0, 0, x, y, z>>
    BY <2>1 DEF Rank
  <2>3. x \in Nat /\ y \in Nat /\ z \in Nat
    BY <1>3 DEF Entries
  <2> HIDE DEF x, y, z
  <2>4. Below(<<6, 0, 0, x, y, z>>, <<7, 0, 0, 0, 0, 0>>)
    BY <1>2, <2>3, Lower1
  <2>5. QED
    BY <2>2, <2>4
<1>7. CASE RunTest
  <2>1. pc = "prime" /\ pc' = "prime" /\ MillerRabinStep
    BY <1>7 DEF RunTest
  <2> DEFINE x == TestRank(mr)[1]
             y == TestRank(mr)[2]
             z == TestRank(mr)[3]
             x1 == TestRank(mr')[1]
             y1 == TestRank(mr')[2]
             z1 == TestRank(mr')[3]
  <2>2. Rank = <<6, 0, 0, x, y, z>> /\ Rank' = <<6, 0, 0, x1, y1, z1>>
    BY <2>1 DEF Rank
  <2>3. /\ x \in Nat /\ y \in Nat /\ z \in Nat /\ x1 \in Nat /\ y1 \in Nat /\ z1 \in Nat
        /\ x1 < x \/ (x1 = x /\ y1 < y) \/ (x1 = x /\ y1 = y /\ z1 < z)
    <3>1. Nearer(TestRank(mr'), TestRank(mr))
      BY <1>1, <2>1, TestDescends
    <3>2. QED
      BY <1>3, <3>1 DEF Entries, Nearer
  <2> HIDE DEF x, y, z, x1, y1, z1
  <2>4. Below(<<6, 0, 0, x1, y1, z1>>, <<6, 0, 0, x, y, z>>)
    BY <1>2, <2>3, Lower
  <2>5. QED
    BY <2>2, <2>4
<1>8. CASE ModulusTested
  <2>1. pc = "prime" /\ mr.pc = "done" /\ pc' \in {"domain", "failed"}
    BY <1>8 DEF ModulusTested, MillerRabinDone
  <2>2. TestRank(mr) = <<0, 0, 0>>
    BY <2>1 DEF TestRank
  <2>3. Rank = <<6, 0, 0, 0, 0, 0>>
    BY <2>1, <2>2 DEF Rank
  <2>4. Rank' = <<5, 0, 0, 0, 0, 0>> \/ Rank' = <<0, 0, 0, 0, 0, 0>>
    BY <2>1 DEF Rank
  <2>5. Below(<<5, 0, 0, 0, 0, 0>>, <<6, 0, 0, 0, 0, 0>>)
        /\ Below(<<0, 0, 0, 0, 0, 0>>, <<6, 0, 0, 0, 0, 0>>)
    BY NextPhase
  <2>6. QED
    BY <2>3, <2>4, <2>5
<1>9. CASE ValidateDomain
  <2>1. pc = "domain" /\ pc' \in {"resolve", "failed"}
    BY <1>9 DEF ValidateDomain
  <2>2. Rank = <<5, 0, 0, 0, 0, 0>>
    BY <2>1 DEF Rank
  <2>3. Rank' = <<4, 0, 0, 0, 0, 0>> \/ Rank' = <<0, 0, 0, 0, 0, 0>>
    BY <2>1 DEF Rank
  <2>4. Below(<<4, 0, 0, 0, 0, 0>>, <<5, 0, 0, 0, 0, 0>>)
        /\ Below(<<0, 0, 0, 0, 0, 0>>, <<5, 0, 0, 0, 0, 0>>)
    BY NextPhase
  <2>5. QED
    BY <2>2, <2>3, <2>4
<1>10. CASE RefuseGiven \/ KeepGiven \/ OmegaFromPsi
  <2>1. pc = "resolve" /\ pc' \in {"done", "failed"}
    BY <1>10 DEF RefuseGiven, KeepGiven, OmegaFromPsi
  <2>2. Rank = <<4, 0, 0, 0, 0, 0>> /\ Rank' = <<0, 0, 0, 0, 0, 0>>
    BY <2>1 DEF Rank
  <2>3. Below(<<0, 0, 0, 0, 0, 0>>, <<4, 0, 0, 0, 0, 0>>)
    BY NextPhase
  <2>4. QED
    BY <2>2, <2>3
<1>11. CASE SearchPsi
  <2>1. pc = "resolve" /\ pc' = "sqrt" /\ sq'.pc = "start"
    BY <1>11 DEF SearchPsi, CallSqrtMod, NoRoot
  <2>2. RootRank(sq') = <<3, 0, 0, 0, 0, 0>>
    BY <2>1 DEF RootRank
  <2>3. Rank = <<4, 0, 0, 0, 0, 0>> /\ Rank' = <<3, 0, 0, 0, 0, 0>>
    BY <2>1, <2>2 DEF Rank
  <2>4. Below(<<3, 0, 0, 0, 0, 0>>, <<4, 0, 0, 0, 0, 0>>)
    BY NextPhase
  <2>5. QED
    BY <2>3, <2>4
<1>12. CASE RunSqrt
  <2>1. pc = "sqrt" /\ pc' = "sqrt" /\ SqrtModStep
    BY <1>12 DEF RunSqrt
  <2>2. Rank = RootRank(sq) /\ Rank' = RootRank(sq')
    BY <2>1 DEF Rank
  <2>3. QED
    BY <1>1, <2>1, <2>2, RootDescends
<1>13. CASE PsiFound
  <2>1. pc = "sqrt" /\ sq.pc \in {"done", "failed"} /\ pc' \in {"done", "failed"}
    BY <1>13 DEF PsiFound, SqrtModDone
  <2>2. RootRank(sq) = <<2, 0, 0, 0, 0, 0>>
    BY <2>1 DEF RootRank
  <2>3. Rank = <<2, 0, 0, 0, 0, 0>> /\ Rank' = <<0, 0, 0, 0, 0, 0>>
    BY <2>1, <2>2 DEF Rank
  <2>4. Below(<<0, 0, 0, 0, 0, 0>>, <<2, 0, 0, 0, 0, 0>>)
    BY NextPhase
  <2>5. QED
    BY <2>3, <2>4
<1>14. CASE FactorPhi
  <2>1. pc = "resolve" /\ pc' = "factors" /\ fac'.pc = "start"
    BY <1>14 DEF FactorPhi, NoRootsGiven, CallDistinctPrimeFactors, NoFactoring
  <2>2. FactorRank(fac', mr') = <<3, 0, 0, 0, 0, 0>>
    BY <2>1 DEF FactorRank
  <2>3. Rank = <<4, 0, 0, 0, 0, 0>> /\ Rank' = <<3, 0, 0, 0, 0, 0>>
    BY <2>1, <2>2 DEF Rank
  <2>4. Below(<<3, 0, 0, 0, 0, 0>>, <<4, 0, 0, 0, 0, 0>>)
    BY NextPhase
  <2>5. QED
    BY <2>3, <2>4
<1>15. CASE RunFactoring
  <2>1. pc = "factors" /\ pc' = "factors" /\ FactoringStep
    BY <1>15 DEF RunFactoring
  <2>2. Rank = FactorRank(fac, mr) /\ Rank' = FactorRank(fac', mr')
    BY <2>1 DEF Rank
  <2>3. QED
    BY <1>1, <2>1, <2>2, FactoringDescends
<1>16. CASE PhiFactored
  <2>1. pc = "factors" /\ fac.pc \in {"done", "failed"} /\ pc' \in {"search", "failed"}
        /\ g' = g /\ req' = req
    BY <1>16 DEF PhiFactored, FactoringDone
  <2>2. FactorRank(fac, mr) = <<2, 0, 0, 0, 0, 0>>
    BY <2>1 DEF FactorRank
  <2>3. Rank = <<2, 0, 0, 0, 0, 0>>
    BY <2>1, <2>2 DEF Rank
  <2>4. CASE pc' = "search"
    <3>1. Rank' = <<1, 0, 0, req.q - g, 0, 0>>
      BY <2>1, <2>4 DEF Rank
    <3>2. req.q - g \in Nat
      <4>1. g < req.q
        <5>1. g' < req'.q
          BY <1>1, <2>4 DEF Progress
        <5>2. QED
          BY <2>1, <5>1
      <4>2. QED
        BY <1>4, <4>1
    <3>3. Below(<<1, 0, 0, req.q - g, 0, 0>>, <<2, 0, 0, 0, 0, 0>>)
      BY <1>2, <3>2, Lower1
    <3>4. QED
      BY <2>3, <3>1, <3>3
  <2>5. CASE pc' = "failed"
    <3>1. Rank' = <<0, 0, 0, 0, 0, 0>>
      BY <2>5 DEF Rank
    <3>2. Below(<<0, 0, 0, 0, 0, 0>>, <<2, 0, 0, 0, 0, 0>>)
      BY NextPhase
    <3>3. QED
      BY <2>3, <3>1, <3>2
  <2>6. QED
    BY <2>1, <2>4, <2>5
<1>17. CASE LookUpPhi
  <2>1. pc = "resolve" /\ pc' = "search" /\ g' = g /\ req' = req
    BY <1>17 DEF LookUpPhi, NoRootsGiven
  <2>2. Rank = <<4, 0, 0, 0, 0, 0>> /\ Rank' = <<1, 0, 0, req.q - g, 0, 0>>
    BY <2>1 DEF Rank
  <2>3. req.q - g \in Nat
    <3>1. g < req.q
      <4>1. g' < req'.q
        BY <1>1, <2>1 DEF Progress
      <4>2. QED
        BY <2>1, <4>1
    <3>2. QED
      BY <1>4, <3>1
  <2>4. Below(<<1, 0, 0, req.q - g, 0, 0>>, <<4, 0, 0, 0, 0, 0>>)
    BY <1>2, <2>3, Lower1
  <2>5. QED
    BY <2>2, <2>4
<1>18. CASE NextCandidate \/ RootsFromGenerator
  <2>1. pc = "search" /\ g < req.q
    BY <1>1, <1>18 DEF NextCandidate, RootsFromGenerator, Progress
  <2>2. Rank = <<1, 0, 0, req.q - g, 0, 0>> /\ req.q - g \in Nat
    BY <1>4, <2>1 DEF Rank
  <2>3. CASE pc' \in {"done", "failed"}
    <3>1. Rank' = <<0, 0, 0, 0, 0, 0>>
      BY <2>3 DEF Rank
    <3>2. Below(<<0, 0, 0, 0, 0, 0>>, <<1, 0, 0, req.q - g, 0, 0>>)
      BY <1>2, <2>2, Lower1
    <3>3. QED
      BY <2>2, <3>1, <3>2
  <2>4. CASE pc' = pc
    <3>1. g' = g + 1 /\ req' = req
      BY <1>18, <2>1, <2>4 DEF NextCandidate, RootsFromGenerator
    <3>2. Rank' = <<1, 0, 0, req.q - (g + 1), 0, 0>>
      BY <2>1, <2>4, <3>1 DEF Rank
    <3>3. req.q - (g + 1) \in Nat /\ req.q - (g + 1) < req.q - g
      BY <1>4, <2>1
    <3>4. Below(<<1, 0, 0, req.q - (g + 1), 0, 0>>, <<1, 0, 0, req.q - g, 0, 0>>)
      BY <1>2, <2>2, <3>3, Lower4
    <3>5. QED
      BY <2>2, <3>2, <3>4
  <2>5. pc' = pc \/ pc' \in {"done", "failed"}
    BY <1>18 DEF NextCandidate, RootsFromGenerator
  <2>6. QED
    BY <2>3, <2>4, <2>5
<1>19. QED
  BY <1>5, <1>6, <1>7, <1>8, <1>9, <1>10, <1>11, <1>12, <1>13, <1>14, <1>15, <1>16, <1>17,
     <1>18
  DEF Next, ValidateModulus, CompleteRoots, DeriveRoots

\* A step that lowers the rank
Descends == <<Rank', Rank>> \in RankOrder

(***************************************************************************)
(* Root resolution cannot run for ever: every step lowers a rank, of a set *)
(* in which nothing descends without end.  So it never loops, whatever the *)
(* requests, the witnesses and the moduli, composite ones as well.         *)
(***************************************************************************)
THEOREM ResolutionDescends ==
  /\ IsWellFoundedOn(RankOrder, Ranks)
  /\ Spec => [][Descends]_vars
<1>1. Init => RhoRun
  BY DEF Init, NoFactoring, RhoRun
<1>2. ResolutionInvariant /\ RhoRun /\ [Next]_vars => RhoRun'
  BY RhoKept
<1>3. ResolutionInvariant /\ ResolutionInvariant' /\ RhoRun /\ [Next]_vars
        => [Descends]_vars
  <2> SUFFICES ASSUME ResolutionInvariant, ResolutionInvariant', RhoRun, Next
               PROVE  Descends
    OBVIOUS
  <2>1. Below(Rank', Rank)
    BY DescentStep
  <2> DEFINE s == Rank'
             t == Rank
  <2> HIDE DEF s, t
  <2>2. Below(s, t)
    BY <2>1 DEF s, t
  <2>3. <<s, t>> \in RankOrder
    BY <2>2 DEF RankOrder, Below
  <2>4. QED
    BY <2>3 DEF s, t, Descends
<1>4. Spec => [][Descends]_vars
  BY <1>1, <1>2, <1>3, ResolutionCorrect, PTL DEF Spec
<1>5. QED
  BY <1>4, RanksAreWellFounded

=============================================================================
