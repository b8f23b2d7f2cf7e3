------------------------- MODULE DefaultAdapterProofs -------------------------
(***************************************************************************)
(* Proofs about adapter selection, for any names, directories,             *)
(* environments, modules and number of slots: the default answers the      *)
(* request in force, is never stale, stays until it is replaced, and is    *)
(* mapped while a slot is free; and whatever selection loads, the loader   *)
(* keeps its promises.                                                     *)
(***************************************************************************)
EXTENDS DefaultAdapter, NumberTheoryProofs

\* The loader of DefaultAdapter, with the theorems about it.
Proved == INSTANCE ModuleLoaderProofs

\* A number of a set that bounds it is its maximum.
LEMMA MaxIs ==
  ASSUME NEW S, S \subseteq Nat, NEW m \in S, \A k \in S : k <= m
  PROVE  File!Max(S) = m
<1>1. \A k \in S : (\A j \in S : k >= j) => k = m
  OBVIOUS
<1>2. \A j \in S : m >= j
  OBVIOUS
<1>3. QED
  BY <1>1, <1>2 DEF File!Max

\* A bounded set of numbers has a maximum.
LEMMA MaxExists ==
  ASSUME NEW n \in Nat, NEW S \in SUBSET (0 .. n), S # {}
  PROVE  /\ File!Max(S) \in S
         /\ \A k \in S : k <= File!Max(S)
<1> DEFINE T == {d \in 0 .. n : n - d \in S}
<1>1. T # {} /\ T \in SUBSET Nat
  <2>1. PICK k \in S : TRUE
    OBVIOUS
  <2>2. n - k \in 0 .. n /\ n - (n - k) = k
    OBVIOUS
  <2>3. n - k \in T
    <3>1. n - (n - k) \in S
      BY <2>2
    <3>2. QED
      BY <2>2, <3>1
  <2>4. T # {}
    <3> HIDE DEF T
    <3>1. QED
      BY <2>3
  <2>5. T \in SUBSET Nat
    OBVIOUS
  <2>6. QED
    BY <2>4, <2>5
<1>2. PICK d \in T : \A c \in T : d <= c
  <2> HIDE DEF T
  <2>1. QED
    BY <1>1, LeastElement
<1>3. n - d \in S
  OBVIOUS
<1>4. \A k \in S : k <= n - d
  <2> SUFFICES ASSUME NEW k \in S
               PROVE  k <= n - d
    OBVIOUS
  <2>1. n - (n - k) = k /\ n - k \in 0 .. n
    OBVIOUS
  <2>2. n - k \in T
    BY <2>1
  <2>3. d <= n - k
    BY <1>2, <2>2
  <2>4. QED
    BY <2>1, <2>3
<1>5. File!Max(S) = n - d
  <2>1. S \subseteq Nat
    OBVIOUS
  <2>2. QED
    BY <1>3, <1>4, <2>1, MaxIs
<1>6. QED
  <2> HIDE DEF T
  <2>1. QED
    BY <1>3, <1>4, <1>5

-----------------------------------------------------------------------------

\* A piece of a configuration file leaves the buffers well typed.
LEMMA ParseLineType ==
  ASSUME NEW out \in Buffers, NEW piece \in ConfigPieces
  PROVE  File!ParseLine(out, piece) \in Buffers
<1>1. CASE piece.key = "adapter"
  BY <1>1 DEF File!ParseLine, File!Keys, File!TooLong, Buffers, ConfigPieces, AdapterValues
<1>2. CASE piece.key = "module_dir"
  BY <1>2 DEF File!ParseLine, File!Keys, File!TooLong, Buffers, ConfigPieces, DirValues
<1>3. CASE piece.key \notin File!Keys
  BY <1>3 DEF File!ParseLine
<1>4. QED
  BY <1>1, <1>2, <1>3 DEF File!Keys

\* The fold that FileLoad is, as a function of the set of pieces handled.
IsReading(f, pieces) ==
  f = [s \in SUBSET DOMAIN pieces |->
         IF s = {} THEN File!Cleared
         ELSE File!ParseLine(f[s \ {File!Max(s)}], pieces[File!Max(s)])]

\* Such a function exists: the sets grow smaller.
LEMMA ReadingExists ==
  ASSUME NEW pieces \in Seq(ConfigPieces)
  PROVE  \E f \in [SUBSET DOMAIN pieces -> Buffers] : IsReading(f, pieces)
<1> DEFINE A == SUBSET DOMAIN pieces
           B == {{}}
           C == [s \in A |-> File!Cleared]
           G == [s \in A |-> s \ {File!Max(s)}]
           D == [t \in A \X Buffers |->
                  IF t[1] = {} THEN File!Cleared
                  ELSE File!ParseLine(t[2], pieces[File!Max(t[1])])]
           M == [s \in A |-> Cardinality(s)]
<1>1. \A s \in A \ B : File!Max(s) \in s
  <2> SUFFICES ASSUME NEW s \in A \ B
               PROVE  File!Max(s) \in s
    OBVIOUS
  <2>1. Len(pieces) \in Nat /\ s \in SUBSET (0 .. Len(pieces)) /\ s # {}
    OBVIOUS
  <2>2. QED
    BY <2>1, MaxExists
<1>2. \A s \in A : IsFiniteSet(s) /\ Cardinality(s) \in Nat
  <2> SUFFICES ASSUME NEW s \in A
               PROVE  IsFiniteSet(s) /\ Cardinality(s) \in Nat
    OBVIOUS
  <2>1. IsFiniteSet(1 .. Len(pieces)) /\ s \subseteq 1 .. Len(pieces)
    BY FS_Interval
  <2>2. IsFiniteSet(s)
    BY <2>1, FS_Subset
  <2>3. QED
    BY <2>2, FS_CardinalityType
<1>3. \A s \in A \ B : G[s] \in A /\ M[G[s]] < M[s]
  <2> SUFFICES ASSUME NEW s \in A \ B
               PROVE  G[s] \in A /\ M[G[s]] < M[s]
    OBVIOUS
  <2>1. G[s] = s \ {File!Max(s)} /\ G[s] \in A
    OBVIOUS
  <2>2. Cardinality(s \ {File!Max(s)}) = Cardinality(s) - 1
    BY <1>1, <1>2, FS_RemoveElement
  <2>3. QED
    BY <1>2, <2>1, <2>2
<1>4. File!Cleared \in Buffers
  BY DefaultAssumption DEF File!Cleared, Buffers, AdapterValues, DirValues
<1>5. C \in [A -> Buffers] /\ M \in [A -> Nat]
  BY <1>2, <1>4
<1>6. D \in [A \X Buffers -> Buffers]
  <2> SUFFICES ASSUME NEW t \in A \X Buffers
               PROVE  D[t] \in Buffers
    OBVIOUS
  <2>1. t[1] \in A /\ t[2] \in Buffers
    OBVIOUS
  <2>2. CASE t[1] # {}
    <3>1. File!Max(t[1]) \in DOMAIN pieces
      BY <1>1, <2>1, <2>2
    <3>2. pieces[File!Max(t[1])] \in ConfigPieces
      BY <3>1
    <3>3. QED
      BY <2>1, <2>2, <3>2, ParseLineType
  <2>3. QED
    BY <1>4, <2>2
<1>7. PICK f : Solves(f, A, B, C, D, G)
  <2> HIDE DEF A, B, C, D, G, M
  <2>1. QED
    BY <1>3, <1>5, <1>6, RecursionExists
<1>8. f \in [A -> Buffers]
  <2> HIDE DEF A, B, C, D, G, M
  <2>1. QED
    BY <1>3, <1>5, <1>6, <1>7, RecursionType
<1>9. \A s \in A : f[s] = IF s = {} THEN File!Cleared
                          ELSE File!ParseLine(f[s \ {File!Max(s)}], pieces[File!Max(s)])
  <2> SUFFICES ASSUME NEW s \in A
               PROVE  f[s] = IF s = {} THEN File!Cleared
                          ELSE File!ParseLine(f[s \ {File!Max(s)}], pieces[File!Max(s)])
    OBVIOUS
  <2>1. f[s] = IF s \in B THEN C[s] ELSE D[<<s, f[G[s]]>>]
    <3> HIDE DEF A, B, C, D, G
    <3>1. QED
      BY <1>7 DEF Solves
  <2>2. CASE s = {}
    BY <2>1, <2>2
  <2>3. CASE s # {}
    <3>1. G[s] = s \ {File!Max(s)} /\ G[s] \in A
      OBVIOUS
    <3>2. <<s, f[G[s]]>> \in A \X Buffers
      BY <1>8, <3>1
    <3>3. D[<<s, f[G[s]]>>] = File!ParseLine(f[G[s]], pieces[File!Max(s)])
      BY <2>3, <3>2
    <3>4. QED
      BY <2>1, <2>3, <3>1, <3>3
  <2>4. QED
    BY <2>2, <2>3
<1>10. f \in [SUBSET DOMAIN pieces -> Buffers] /\ IsReading(f, pieces)
  BY <1>8, <1>9 DEF IsReading
<1>11. QED
  BY <1>10

\* FileLoad handles the pieces one by one.
LEMMA FileLoadSteps ==
  ASSUME NEW pieces \in Seq(ConfigPieces)
  PROVE  \E out \in [0 .. Len(pieces) -> Buffers] :
           /\ out[0] = File!Cleared
           /\ \A k \in 0 .. Len(pieces) - 1 :
                out[k + 1] = File!ParseLine(out[k], pieces[k + 1])
           /\ File!FileLoad(pieces) = out[Len(pieces)]
<1> DEFINE iter == CHOOSE f : f = [s \in SUBSET DOMAIN pieces |->
                     IF s = {} THEN File!Cleared
                     ELSE File!ParseLine(f[s \ {File!Max(s)}], pieces[File!Max(s)])]
           out == [k \in 0 .. Len(pieces) |-> iter[1 .. k]]
<1>1. File!FileLoad(pieces) = iter[DOMAIN pieces]
  BY DEF File!FileLoad, File!FoldLeft, File!MapThenFoldSet
<1>2. IsReading(iter, pieces)
  BY ReadingExists DEF IsReading
<1> HIDE DEF iter
<1>3. DOMAIN pieces = 1 .. Len(pieces) /\ Len(pieces) \in Nat
  OBVIOUS
<1>4. \A k \in 0 .. Len(pieces) : 1 .. k \in SUBSET DOMAIN pieces
  BY <1>3
<1>5. out[0] = File!Cleared
  <2>1. 1 .. 0 = {} /\ {} \in SUBSET DOMAIN pieces
    OBVIOUS
  <2>2. QED
    BY <1>2, <2>1 DEF IsReading
<1>6. ASSUME NEW k \in 0 .. Len(pieces) - 1
      PROVE  out[k + 1] = File!ParseLine(out[k], pieces[k + 1])
  <2>1. File!Max(1 .. k + 1) = k + 1
    <3>1. 1 .. k + 1 \subseteq Nat /\ k + 1 \in 1 .. k + 1
      BY <1>3
    <3>2. \A j \in 1 .. k + 1 : j <= k + 1
      BY <1>3
    <3>3. QED
      BY <3>1, <3>2, MaxIs
  <2>2. (1 .. k + 1) \ {k + 1} = 1 .. k /\ 1 .. k + 1 # {}
    <3>1. \A j \in Int : j \in 1 .. k + 1 /\ j # k + 1 <=> j \in 1 .. k
      BY <1>3
    <3>2. 1 .. k + 1 \subseteq Int /\ 1 .. k \subseteq Int
      OBVIOUS
    <3>3. (1 .. k + 1) \ {k + 1} = 1 .. k
      BY <3>1, <3>2
    <3>4. k + 1 \in 1 .. k + 1
      BY <1>3
    <3>5. QED
      BY <3>3, <3>4
  <2>3. 1 .. k + 1 \in SUBSET DOMAIN pieces
    BY <1>4
  <2>4. iter[1 .. k + 1] = File!ParseLine(iter[1 .. k], pieces[k + 1])
    BY <1>2, <2>1, <2>2, <2>3 DEF IsReading
  <2>5. QED
    BY <2>4
<1>7. File!FileLoad(pieces) = out[Len(pieces)]
  BY <1>1, <1>3
<1>8. out \in [0 .. Len(pieces) -> Buffers]
  <2> DEFINE T == {k \in Nat : k \in 0 .. Len(pieces) => out[k] \in Buffers}
  <2>1. 0 \in T
    <3>1. File!Cleared \in Buffers
      BY DefaultAssumption DEF File!Cleared, Buffers, AdapterValues, DirValues
    <3>2. QED
      BY <1>5, <3>1
  <2>2. ASSUME NEW k \in Nat, k \in T
        PROVE  k + 1 \in T
    <3> SUFFICES ASSUME k + 1 \in 0 .. Len(pieces)
                 PROVE  out[k + 1] \in Buffers
      OBVIOUS
    <3>1. k \in 0 .. Len(pieces) - 1 /\ out[k] \in Buffers /\ k + 1 \in 1 .. Len(pieces)
      BY <2>2
    <3>2. pieces[k + 1] \in ConfigPieces
      BY <3>1
    <3> HIDE DEF out
    <3>3. QED
      BY <1>6, <3>1, <3>2, ParseLineType
  <2>3. Nat \subseteq T
    <3> HIDE DEF T
    <3>1. QED
      BY <2>1, <2>2, Induction
  <2>4. \A k \in 0 .. Len(pieces) : out[k] \in Buffers
    <3> HIDE DEF out
    <3>1. QED
      BY <1>3, <2>3
  <2>5. out = [k \in 0 .. Len(pieces) |-> out[k]]
    OBVIOUS
  <2>6. QED
    <3> HIDE DEF out
    <3>1. QED
      BY <2>4, <2>5
<1>9. QED
  <2> HIDE DEF out
  <2>1. QED
    BY <1>5, <1>6, <1>7, <1>8

-----------------------------------------------------------------------------

\* The reading ends at a piece whose value does not fit.
Refused(pieces, i) ==
  /\ pieces[i].key \in File!Keys
  /\ pieces[i].value \in File!TooLong(pieces[i].key)

\* How many pieces were stored, of the first k.
Stored(pieces, k) ==
  File!Max({i \in 0 .. k : \A j \in 1 .. i : ~Refused(pieces, j)})

\* What BuffersAreLastValues says of one reading
HoldsLastValues(pieces, buffers) ==
  CommentsSilent(pieces) =>
    \A key \in File!Keys :
      buffers[key] = LastValue(pieces, key, Stored(pieces, Len(pieces)))

\* The last value among the first k + 1 pieces
LEMMA LastValueStep ==
  ASSUME NEW pieces, NEW key, NEW k \in Nat
  PROVE  /\ LastValue(pieces, key, 0) = Empty
         /\ LastValue(pieces, key, k + 1) =
              IF pieces[k + 1].key = key /\ ~pieces[k + 1].comment THEN pieces[k + 1].value
              ELSE LastValue(pieces, key, k)
<1> DEFINE Sets(i) == pieces[i].key = key /\ ~pieces[i].comment
           Setters(n) == {i \in 1 .. n : Sets(i)}
<1>1. \A n : LastValue(pieces, key, n) =
               IF Setters(n) = {} THEN Empty ELSE pieces[File!Max(Setters(n))].value
  BY DEF LastValue
<1>2. Setters(0) = {}
  OBVIOUS
<1>3. LastValue(pieces, key, k + 1) =
        IF Sets(k + 1) THEN pieces[k + 1].value
        ELSE LastValue(pieces, key, k)
  <2>1. CASE Sets(k + 1)
    <3>1. k + 1 \in Setters(k + 1)
      BY <2>1
    <3>2. Setters(k + 1) \subseteq Nat /\ \A i \in Setters(k + 1) : i <= k + 1
      OBVIOUS
    <3> HIDE DEF Setters
    <3>3. File!Max(Setters(k + 1)) = k + 1
      BY <3>1, <3>2, MaxIs
    <3>4. Setters(k + 1) # {}
      BY <3>1
    <3>5. QED
      BY <1>1, <2>1, <3>3, <3>4
  <2>2. CASE ~Sets(k + 1)
    <3>1. \A i \in Int : i \in Setters(k + 1) <=> i \in Setters(k)
      BY <2>2
    <3>2. Setters(k + 1) \subseteq Int /\ Setters(k) \subseteq Int
      OBVIOUS
    <3> HIDE DEF Setters
    <3>3. Setters(k + 1) = Setters(k)
      BY <3>1, <3>2
    <3>4. QED
      BY <1>1, <2>2, <3>3
  <2>3. QED
    BY <2>1, <2>2
<1>4. LastValue(pieces, key, 0) = Empty
  <2> HIDE DEF Setters
  <2>1. QED
    BY <1>1, <1>2
<1>5. QED
  BY <1>3, <1>4

\* Every piece is stored until one is refused, and none after it.
LEMMA StoredStep ==
  ASSUME NEW pieces
  PROVE  /\ Stored(pieces, 0) = 0
         /\ \A k \in Nat :
              Stored(pieces, k + 1) =
                IF \A j \in 1 .. k + 1 : ~Refused(pieces, j) THEN k + 1
                ELSE Stored(pieces, k)
<1> DEFINE Fine(k) == {i \in 0 .. k : \A j \in 1 .. i : ~Refused(pieces, j)}
<1>1. \A k : Stored(pieces, k) = File!Max(Fine(k))
  BY DEF Stored
<1>2. Stored(pieces, 0) = 0
  <2>1. 0 \in Fine(0) /\ Fine(0) \subseteq Nat /\ \A i \in Fine(0) : i <= 0
    OBVIOUS
  <2> HIDE DEF Fine
  <2>2. QED
    BY <1>1, <2>1, MaxIs
<1>3. ASSUME NEW k \in Nat
      PROVE  Stored(pieces, k + 1) =
               IF \A j \in 1 .. k + 1 : ~Refused(pieces, j) THEN k + 1
               ELSE Stored(pieces, k)
  <2>1. CASE \A j \in 1 .. k + 1 : ~Refused(pieces, j)
    <3>1. k + 1 \in Fine(k + 1)
      BY <2>1
    <3>2. Fine(k + 1) \subseteq Nat /\ \A i \in Fine(k + 1) : i <= k + 1
      OBVIOUS
    <3> HIDE DEF Fine
    <3>3. File!Max(Fine(k + 1)) = k + 1
      BY <3>1, <3>2, MaxIs
    <3>4. QED
      BY <1>1, <2>1, <3>3
  <2>2. CASE ~(\A j \in 1 .. k + 1 : ~Refused(pieces, j))
    <3>1. k + 1 \notin Fine(k + 1)
      BY <2>2
    <3>2. \A i \in Int : i \in Fine(k + 1) <=> i \in Fine(k)
      BY <3>1
    <3>3. Fine(k + 1) \subseteq Int /\ Fine(k) \subseteq Int
      OBVIOUS
    <3> HIDE DEF Fine
    <3>4. Fine(k + 1) = Fine(k)
      BY <3>2, <3>3
    <3>5. QED
      BY <1>1, <2>2, <3>4
  <2>3. QED
    BY <2>1, <2>2
<1>4. QED
  BY <1>2, <1>3

\* One step of the reading: it goes on while nothing is refused, and each
\* buffer follows the last value stored.
LEMMA ParseLineFollows ==
  ASSUME NEW pieces \in Seq(ConfigPieces), NEW k \in 0 .. Len(pieces) - 1,
         NEW out \in Buffers,
         out.ok <=> \A j \in 1 .. k : ~Refused(pieces, j),
         \A key \in File!Keys : out[key] = LastValue(pieces, key, Stored(pieces, k)),
         out.ok => Stored(pieces, k) = k,
         pieces[k + 1].comment => pieces[k + 1].key \notin File!Keys,
         NEW new, new = File!ParseLine(out, pieces[k + 1])
  PROVE  /\ new.ok <=> \A j \in 1 .. k + 1 : ~Refused(pieces, j)
         /\ \A key \in File!Keys :
              new[key] = LastValue(pieces, key, Stored(pieces, k + 1))
         /\ new.ok => Stored(pieces, k + 1) = k + 1
<1>1. k \in Nat /\ k + 1 \in 1 .. Len(pieces) /\ pieces[k + 1] \in ConfigPieces
  <2>1. Len(pieces) \in Nat /\ k + 1 \in 1 .. Len(pieces)
    OBVIOUS
  <2>2. QED
    BY <2>1
<1> DEFINE piece == pieces[k + 1]
           allFine == \A j \in 1 .. k : ~Refused(pieces, j)
           nextFine == \A j \in 1 .. k + 1 : ~Refused(pieces, j)
<1>2. nextFine <=> allFine /\ ~Refused(pieces, k + 1)
  <2>1. \A j \in Int : j \in 1 .. k + 1 <=> j \in 1 .. k \/ j = k + 1
    BY <1>1
  <2>2. k + 1 \in Int /\ 1 .. k \subseteq Int /\ 1 .. k + 1 \subseteq Int
    BY <1>1
  <2>3. QED
    BY <2>1, <2>2, Zenon
<1>3. Stored(pieces, k + 1) = IF nextFine THEN k + 1 ELSE Stored(pieces, k)
  BY <1>1, StoredStep
<1>4. \A key \in File!Keys :
        LastValue(pieces, key, k + 1) =
          IF piece.key = key THEN piece.value ELSE LastValue(pieces, key, k)
  <2> SUFFICES ASSUME NEW key \in File!Keys
               PROVE  LastValue(pieces, key, k + 1) =
                        IF piece.key = key THEN piece.value
                        ELSE LastValue(pieces, key, k)
    OBVIOUS
  <2>1. QED
    BY <1>1, LastValueStep
<1> HIDE DEF allFine, nextFine
<1>5. out.ok <=> allFine
  BY DEF allFine
<1>6. CASE ~out.ok
  <2>1. new = out /\ ~nextFine
    BY <1>2, <1>5, <1>6 DEF File!ParseLine
  <2>2. QED
    BY <1>3, <1>6, <2>1 DEF nextFine
<1>7. CASE out.ok /\ piece.key \notin File!Keys
  <2>1. new = out /\ ~Refused(pieces, k + 1) /\ nextFine
    BY <1>2, <1>5, <1>7 DEF File!ParseLine, Refused
  <2>2. Stored(pieces, k) = k /\ Stored(pieces, k + 1) = k + 1
    BY <1>3, <1>7, <2>1
  <2>3. \A key \in File!Keys : LastValue(pieces, key, k + 1) = LastValue(pieces, key, k)
    BY <1>4, <1>7
  <2>4. QED
    BY <1>7, <2>1, <2>2, <2>3 DEF nextFine
<1>8. CASE out.ok /\ Refused(pieces, k + 1)
  <2>1. new = [out EXCEPT !.ok = FALSE] /\ ~nextFine
    BY <1>2, <1>8 DEF File!ParseLine, Refused
  <2>2. ~new.ok /\ \A key \in File!Keys : new[key] = out[key]
    BY <2>1 DEF Buffers, File!Keys
  <2>3. QED
    BY <1>3, <2>1, <2>2 DEF nextFine
<1>9. CASE out.ok /\ piece.key \in File!Keys /\ ~Refused(pieces, k + 1)
  <2>1. new = [out EXCEPT ![piece.key] = piece.value] /\ nextFine
    BY <1>2, <1>5, <1>9 DEF File!ParseLine, Refused
  <2>2. /\ new.ok /\ new[piece.key] = piece.value
        /\ \A key \in File!Keys : key # piece.key => new[key] = out[key]
    <3>1. CASE piece.key = "adapter"
      BY <1>9, <2>1, <3>1 DEF Buffers, File!Keys
    <3>2. CASE piece.key = "module_dir"
      BY <1>9, <2>1, <3>2 DEF Buffers, File!Keys
    <3>3. QED
      BY <1>9, <3>1, <3>2 DEF File!Keys
  <2>3. Stored(pieces, k) = k /\ Stored(pieces, k + 1) = k + 1
    BY <1>3, <1>9, <2>1
  <2>4. QED
    BY <1>4, <1>9, <2>1, <2>2, <2>3 DEF nextFine
<1>10. QED
  BY <1>6, <1>7, <1>8, <1>9

\* Reading leaves in each buffer the last value stored.
LEMMA FileLoadIs ==
  ASSUME NEW pieces \in Seq(ConfigPieces)
  PROVE  /\ File!FileLoad(pieces) \in Buffers
         /\ HoldsLastValues(pieces, File!FileLoad(pieces))
<1>1. PICK out \in [0 .. Len(pieces) -> Buffers] :
        /\ out[0] = File!Cleared
        /\ \A k \in 0 .. Len(pieces) - 1 :
             out[k + 1] = File!ParseLine(out[k], pieces[k + 1])
        /\ File!FileLoad(pieces) = out[Len(pieces)]
  BY FileLoadSteps
<1>2. Len(pieces) \in Nat /\ File!FileLoad(pieces) \in Buffers
  BY <1>1
<1> SUFFICES ASSUME CommentsSilent(pieces)
             PROVE  \A key \in File!Keys :
                      File!FileLoad(pieces)[key]
                        = LastValue(pieces, key, Stored(pieces, Len(pieces)))
  BY <1>2 DEF HoldsLastValues
<1> DEFINE Follows(k) ==
             /\ out[k].ok <=> \A j \in 1 .. k : ~Refused(pieces, j)
             /\ \A key \in File!Keys :
                  out[k][key] = LastValue(pieces, key, Stored(pieces, k))
             /\ out[k].ok => Stored(pieces, k) = k
           T == {k \in Nat : k <= Len(pieces) => Follows(k)}
<1>3. 0 \in T
  <2>1. /\ out[0].ok
        /\ \A key \in File!Keys : out[0][key] = Empty
    BY <1>1 DEF File!Cleared, File!Keys
  <2>2. Stored(pieces, 0) = 0 /\ \A key : LastValue(pieces, key, 0) = Empty
    BY StoredStep, LastValueStep
  <2>3. \A j \in 1 .. 0 : ~Refused(pieces, j)
    OBVIOUS
  <2>4. QED
    BY <2>1, <2>2, <2>3
<1>4. ASSUME NEW k \in Nat, k \in T
      PROVE  k + 1 \in T
  <2> SUFFICES ASSUME k + 1 <= Len(pieces)
               PROVE  Follows(k + 1)
    OBVIOUS
  <2>1. Follows(k) /\ k \in 0 .. Len(pieces) - 1 /\ k \in 0 .. Len(pieces)
    BY <1>2, <1>4
  <2>2. out[k] \in Buffers /\ out[k + 1] = File!ParseLine(out[k], pieces[k + 1])
    BY <1>1, <2>1
  <2>3. pieces[k + 1].comment => pieces[k + 1].key \notin File!Keys
    BY <2>1 DEF CommentsSilent
  <2>4. QED
    BY <2>1, <2>2, <2>3, ParseLineFollows
<1>5. Nat \subseteq T
  <2> HIDE DEF T
  <2>1. QED
    BY <1>3, <1>4, Induction
<1>6. Follows(Len(pieces))
  BY <1>2, <1>5
<1>7. QED
  BY <1>1, <1>2, <1>6

\* What fgets delivers of a file is a sequence of pieces.
LEMMA PiecesType ==
  ASSUME NEW file \in Seq(Seq(ConfigPieces))
  PROVE  File!Pieces(file) \in Seq(ConfigPieces)
<1>1. CASE Len(file) = 0
  BY <1>1 DEF File!Pieces, File!FlattenSeq
<1>2. CASE Len(file) # 0
  <2> DEFINE n == Len(file)
             V == Seq(ConfigPieces)
             D == [t \in Nat \X V |-> IF t[1] = 1 \/ t[1] \notin 1 .. n THEN file[1]
                                      ELSE t[2] \o file[t[1]]]
             flatten == CHOOSE f : f = [i \in 1 .. n |->
                          IF i = 1 THEN file[i] ELSE f[i - 1] \o file[i]]
  <2>1. n \in Nat \ {0} /\ 1 \in 1 .. n /\ \A i \in 1 .. n : file[i] \in V
    BY <1>2
  <2>2. file[1] \in V
    BY <2>1
  <2>3. D \in [Nat \X V -> V]
    <3> SUFFICES ASSUME NEW t \in Nat \X V
                 PROVE  D[t] \in V
      OBVIOUS
    <3>1. t[1] \in Nat /\ t[2] \in V
      OBVIOUS
    <3>2. CASE t[1] \in 1 .. n
      BY <2>1, <3>1, <3>2
    <3>3. CASE t[1] \notin 1 .. n
      BY <2>2, <3>3
    <3>4. QED
      BY <3>2, <3>3
  <2>4. PICK g \in [Nat -> V] : SolvesNat(g, file[1], D)
    <3> HIDE DEF V, D
    <3>1. QED
      BY <2>2, <2>3, NatRecursion
  <2>5. \A i \in 1 .. n : g[i] = IF i = 1 THEN file[i] ELSE g[i - 1] \o file[i]
    <3> SUFFICES ASSUME NEW i \in 1 .. n
                 PROVE  g[i] = IF i = 1 THEN file[i] ELSE g[i - 1] \o file[i]
      OBVIOUS
    <3>1. i \in Nat /\ i # 0 /\ i - 1 \in Nat
      OBVIOUS
    <3>2. g[i] = D[<<i, g[i - 1]>>]
      <4> HIDE DEF D
      <4>1. QED
        BY <2>4, <3>1 DEF SolvesNat
    <3>3. <<i, g[i - 1]>> \in Nat \X V
      BY <2>4, <3>1
    <3>4. QED
      BY <3>2, <3>3
  <2> DEFINE h == [i \in 1 .. n |-> g[i]]
  <2>6. h = [i \in 1 .. n |-> IF i = 1 THEN file[i] ELSE h[i - 1] \o file[i]]
    <3>1. \A i \in 1 .. n : i # 1 => i - 1 \in 1 .. n
      BY <2>1
    <3>2. \A i \in 1 .. n : h[i] = IF i = 1 THEN file[i] ELSE h[i - 1] \o file[i]
      BY <2>5, <3>1
    <3>3. h = [i \in 1 .. n |-> h[i]]
      OBVIOUS
    <3> HIDE DEF h
    <3>4. QED
      BY <3>2, <3>3
  <2>7. flatten = [i \in 1 .. n |->
                     IF i = 1 THEN file[i] ELSE flatten[i - 1] \o file[i]]
    <3> HIDE DEF h
    <3>1. QED
      BY <2>6
  <2>8. File!Pieces(file) = flatten[n]
    BY <1>2 DEF File!Pieces, File!FlattenSeq
  <2> HIDE DEF flatten, D
  <2> DEFINE T == {k \in Nat : k + 1 \in 1 .. n => flatten[k + 1] \in V}
  <2>9. 0 \in T
    BY <2>1, <2>7
  <2>10. ASSUME NEW k \in Nat, k \in T
         PROVE  k + 1 \in T
    <3> SUFFICES ASSUME k + 2 \in 1 .. n
                 PROVE  flatten[k + 2] \in V
      OBVIOUS
    <3>1. k + 1 \in 1 .. n /\ k + 2 # 1 /\ (k + 2) - 1 = k + 1
      BY <2>1
    <3>2. flatten[k + 2] = flatten[(k + 2) - 1] \o file[k + 2]
      BY <2>7, <3>1
    <3>3. flatten[k + 1] \in V
      BY <2>10, <3>1
    <3>4. file[k + 2] \in V
      BY <2>1
    <3>5. flatten[k + 2] = flatten[k + 1] \o file[k + 2]
      BY <3>1, <3>2
    <3>6. QED
      BY <3>3, <3>4, <3>5
  <2>11. Nat \subseteq T
    <3> HIDE DEF T
    <3>1. QED
      BY <2>9, <2>10, Induction
  <2>12. n - 1 \in Nat /\ (n - 1) + 1 = n /\ n \in 1 .. n
    BY <2>1
  <2>13. QED
    BY <2>8, <2>11, <2>12
<1>3. QED
  BY <1>1, <1>2

\* Whatever the files hold and wherever reading ended, the buffers are well
\* typed and hold the last values stored.
LEMMA ReadsAre ==
  ASSUME NEW e \in Environments, NEW read \in ConfigFileReads(e)
  PROVE  /\ read \in Reads
         /\ HoldsLastValues(read.pieces, read.buffers)
<1>1. \A path \in Paths : File!Pieces(e.file[path]) \in Seq(ConfigPieces)
  <2> SUFFICES ASSUME NEW path \in Paths
               PROVE  File!Pieces(e.file[path]) \in Seq(ConfigPieces)
    OBVIOUS
  <2>1. e.file[path] \in Seq(Seq(ConfigPieces))
    BY EnvironmentAssumption
  <2>2. QED
    BY <2>1, PiecesType
<1>2. ASSUME NEW path \in Paths, NEW pieces \in File!Prefixes(File!Pieces(e.file[path]))
      PROVE  pieces \in Seq(ConfigPieces)
  <2>1. PICK l \in 0 .. Len(File!Pieces(e.file[path])) :
          pieces = SubSeq(File!Pieces(e.file[path]), 1, l)
    BY <1>2 DEF File!Prefixes
  <2>2. QED
    BY <1>1, <2>1
<1>3. CASE read = [pieces |-> << >>, buffers |-> File!Unopened]
  <2>1. "HOME" \in Paths
    BY DEF Paths
  <2>2. << >> \in File!Prefixes(File!Pieces(e.file["HOME"]))
    <3>1. SubSeq(File!Pieces(e.file["HOME"]), 1, 0) = << >>
      BY <1>1, <2>1
    <3>2. 0 \in 0 .. Len(File!Pieces(e.file["HOME"]))
      BY <1>1, <2>1
    <3>3. QED
      BY <3>1, <3>2 DEF File!Prefixes
  <2>3. File!Unopened \in Buffers
    BY DefaultAssumption
    DEF File!Unopened, File!Cleared, Buffers, AdapterValues, DirValues
  <2>4. read \in Reads
    BY <1>3, <2>1, <2>2, <2>3 DEF Reads
  <2>5. \A key \in File!Keys : read.buffers[key] = Empty
    BY <1>3 DEF File!Unopened, File!Cleared, File!Keys
  <2>6. Stored(<< >>, 0) = 0 /\ \A key : LastValue(<< >>, key, 0) = Empty
    BY StoredStep, LastValueStep
  <2>7. QED
    BY <1>3, <2>4, <2>5, <2>6 DEF HoldsLastValues
<1>4. CASE \E path \in Paths :
             \E pieces \in File!Prefixes(File!Pieces(e.file[path])) :
               read = [pieces |-> pieces, buffers |-> File!FileLoad(pieces)]
  <2>1. PICK path \in Paths :
          \E pieces \in File!Prefixes(File!Pieces(e.file[path])) :
            read = [pieces |-> pieces, buffers |-> File!FileLoad(pieces)]
    BY <1>4
  <2>2. PICK pieces \in File!Prefixes(File!Pieces(e.file[path])) :
          read = [pieces |-> pieces, buffers |-> File!FileLoad(pieces)]
    BY <2>1
  <2>3. File!FileLoad(pieces) \in Buffers /\ HoldsLastValues(pieces, File!FileLoad(pieces))
    BY <1>2, FileLoadIs
  <2>4. QED
    BY <2>2, <2>3 DEF Reads
<1>5. File!DefaultPath(e.configFile, e.home) \in Paths \union {"none"}
  BY DEF File!DefaultPath, Paths
<1>6. QED
  BY <1>3, <1>4, <1>5 DEF ConfigFileReads

\* What the environment asks for is a request, resolved from the last values.
LEMMA EnvironmentAsksTyped ==
  ASSUME env \in Environments, NEW request \in EnvironmentAsks
  PROVE  /\ request \in Requests
         /\ request.from = "environment"
         /\ request.name \in Names \union {Empty}
         /\ request.dir \in Dirs \union {Empty}
         /\ HoldsLastValues(request.read.pieces, request.read.buffers)
<1>1. PICK read \in ConfigFileReads(env) : request = EnvironmentRequest(env, read)
  BY DEF EnvironmentAsks
<1>2. read \in Reads /\ HoldsLastValues(read.pieces, read.buffers)
  BY ReadsAre
<1>3. /\ read.buffers.adapter \in Names \union {Empty}
      /\ read.buffers.module_dir \in Dirs \union {Empty}
  BY <1>2 DEF Reads, Buffers, AdapterValues, DirValues
<1>4. env.moduleDir \in Dirs \union {Empty} /\ CutDir \in Dirs
  BY DefaultAssumption, EnvironmentAssumption
<1>5. request \in EnvironmentRequests
  BY <1>1, <1>2, <1>3, <1>4 DEF EnvironmentRequest, EnvironmentRequests
<1>6. request.read = read
  BY <1>1 DEF EnvironmentRequest
<1>7. QED
  BY <1>2, <1>5, <1>6 DEF Requests, EnvironmentRequests

-----------------------------------------------------------------------------

\* The override in force is what the two static buffers hold, unless a
\* refused request wrote over them.
BuffersHoldOverride ==
  /\ explicit <=> override # NULL
  /\ explicit /\ ~torn => defaultName = override.name /\ defaultDir = override.dir

\* A default from a module was handed out since the last unload_all.
CacheHandedOut == cache \in Modules => cache \in handed

\* A request of the environment was resolved from the last values stored.
RequestReadsLastValues ==
  wanted # NULL /\ wanted.from = "environment" =>
    HoldsLastValues(wanted.read.pieces, wanted.read.buffers)

\* The part of the state that the loader does not write.
SelectionTypeOK ==
  /\ env \in Environments
  /\ defaultName \in Names \union {Empty}
  /\ defaultDir \in Dirs \union {Empty}
  /\ explicit \in BOOLEAN /\ torn \in BOOLEAN
  /\ cache \in Adapters \union {NULL}
  /\ override \in SetRequests \union {NULL}
  /\ wanted \in Requests \union {NULL}

SelectionOK ==
  /\ BuffersHoldOverride
  /\ NoStaleDefault
  /\ DefaultHonoursRequest
  /\ CacheHandedOut
  /\ RequestReadsLastValues

\* The inductive invariant.
SelectionInv == SelectionTypeOK /\ Proved!LoaderInv /\ SelectionOK

-----------------------------------------------------------------------------

\* Names, modules and the special values differ.
LEMMA NamesApart ==
  /\ NULL \notin Adapters /\ NULL \notin Modules
  /\ Empty \notin Builtins /\ Builtins \subseteq Names
  /\ Builtins \intersect Modules = {}
BY LoaderAssumption, DefaultAssumption DEF Adapters, Builtins

\* Both instances of the loader take the same steps.
LEMMA SameLoad ==
  ASSUME NEW m \in Modules, NEW found, Loader!LoadFromDir(m, found)
  PROVE  Proved!LoadFromDir(m, found)
<1>1. Loader!LoadNotOpened(m) <=> Proved!LoadNotOpened(m)
  BY DEF Loader!LoadNotOpened, Proved!LoadNotOpened, Loader!loaderVars, Proved!loaderVars
<1>2. Loader!LoadRefused(m) <=> Proved!LoadRefused(m)
  BY DEF Loader!LoadRefused, Proved!LoadRefused, Loader!DlOpen, Proved!DlOpen,
         Loader!DlClose, Proved!DlClose, Loader!Compatible, Proved!Compatible
<1>3. Loader!Accepted(m) <=> Proved!Accepted(m)
  BY DEF Loader!Accepted, Proved!Accepted, Loader!Compatible, Proved!Compatible
<1>4. Loader!FreeSlots = Proved!FreeSlots
  BY DEF Loader!FreeSlots, Proved!FreeSlots, Loader!Slots, Proved!Slots
<1>5. Loader!CacheHandle(m) <=> Proved!CacheHandle(m)
  BY <1>4 DEF Loader!CacheHandle, Proved!CacheHandle
<1>6. Loader!LoadKept(m) <=> Proved!LoadKept(m)
  BY <1>3, <1>5 DEF Loader!LoadKept, Proved!LoadKept, Loader!DlOpen, Proved!DlOpen
<1>7. Loader!LoadSpilled(m) <=> Proved!LoadSpilled(m)
  BY <1>3, <1>4 DEF Loader!LoadSpilled, Proved!LoadSpilled, Loader!DlOpen,
                    Proved!DlOpen, Loader!DlClose, Proved!DlClose
<1>8. QED
  BY <1>1, <1>2, <1>6, <1>7 DEF Loader!LoadFromDir, Proved!LoadFromDir

\* They agree on unload_all too.
LEMMA SameUnload ==
  ASSUME Loader!UnloadAll
  PROVE  Proved!UnloadAll
<1>1. \A m : Loader!SlotsOf(m) = Proved!SlotsOf(m)
  BY DEF Loader!SlotsOf, Proved!SlotsOf, Loader!Slots, Proved!Slots
<1>2. \A m : Loader!Cardinality(Loader!SlotsOf(m)) = Proved!Cardinality(Proved!SlotsOf(m))
  BY <1>1, Zenon DEF Loader!Cardinality, Proved!Cardinality
<1>3. Loader!Slots = Proved!Slots
  BY DEF Loader!Slots, Proved!Slots
<1>4. QED
  BY <1>2, <1>3 DEF Loader!UnloadAll, Proved!UnloadAll

-----------------------------------------------------------------------------

\* A load, from selection or from the caller, keeps the loader's invariant and
\* what was handed out, and hands out what it returns.
LEMMA LoadKeeps ==
  ASSUME Proved!LoaderInv, Proved!LoaderAssumption, NEW m \in Modules,
         NEW found \in {m, NULL}, Loader!LoadFromDir(m, found)
  PROVE  /\ Loader!Next
         /\ Proved!LoaderInv'
         /\ handed \subseteq handed'
         /\ found = m => m \in handed'
<1>1. Proved!LoadFromDir(m, found) /\ m # NULL
  BY SameLoad, NamesApart
<1>2. Loader!Next
  BY DEF Loader!Next
<1>3. Proved!LoaderInv'
  BY <1>1, Proved!NextInv DEF Proved!Next
<1>4. QED
  BY <1>1, <1>2, <1>3
  DEF Proved!LoadFromDir, Proved!LoadNotOpened, Proved!LoadRefused, Proved!LoadKept,
      Proved!LoadSpilled, Proved!loaderVars

\* Resolving a request takes at most one step of the loader and answers with a
\* candidate, which was handed out if it is a module's.
LEMMA ResolveKeeps ==
  ASSUME Proved!LoaderInv, Proved!LoaderAssumption,
         NEW name \in Names \union {Empty}, NEW dir \in Dirs \union {Empty},
         NEW answer, ResolveDefault(name, dir, answer)
  PROVE  /\ Loader!Next \/ UNCHANGED loaderVars
         /\ Proved!LoaderInv'
         /\ handed \subseteq handed'
         /\ answer \in Modules => answer \in handed'
         /\ \A r : r.name = name /\ r.dir = dir => answer \in Candidates(r)
<1>1. CASE name \in Builtins /\ answer = name /\ UNCHANGED loaderVars
  <2>1. Proved!LoaderInv'
    BY <1>1, Proved!NextInv DEF Proved!loaderVars, loaderVars
  <2>2. QED
    BY <1>1, <2>1, NamesApart DEF loaderVars, Candidates
<1>2. CASE /\ name = Empty \/ (name \notin Builtins /\ dir = Empty)
           /\ answer = Scalar
           /\ UNCHANGED loaderVars
  <2>1. Proved!LoaderInv'
    BY <1>2, Proved!NextInv DEF Proved!loaderVars, loaderVars
  <2>2. QED
    BY <1>2, <2>1, NamesApart DEF loaderVars, Candidates, Builtins
<1>3. ASSUME name \notin Builtins \union {Empty}, dir # Empty,
             NEW found \in {<<dir, name>>, NULL},
             Loader!LoadFromDir(<<dir, name>>, found),
             answer = IF found = NULL THEN Scalar ELSE found
      PROVE  /\ Loader!Next \/ UNCHANGED loaderVars
             /\ Proved!LoaderInv'
             /\ handed \subseteq handed'
             /\ answer \in Modules => answer \in handed'
             /\ \A r : r.name = name /\ r.dir = dir => answer \in Candidates(r)
  <2>1. <<dir, name>> \in Modules
    BY <1>3, DefaultAssumption
  <2>2. /\ Loader!Next /\ Proved!LoaderInv' /\ handed \subseteq handed'
        /\ found = <<dir, name>> => <<dir, name>> \in handed'
    BY <1>3, <2>1, LoadKeeps
  <2>3. answer = Scalar \/ (answer = <<dir, name>> /\ found = <<dir, name>>)
    BY <1>3
  <2>4. Scalar \notin Modules
    BY NamesApart DEF Builtins
  <2>5. QED
    BY <1>3, <2>2, <2>3, <2>4 DEF Candidates
<1>4. QED
  BY <1>1, <1>2, <1>3 DEF ResolveDefault

-----------------------------------------------------------------------------

\* The loader's assumption holds of the modules that selection can name.
LEMMA LoaderAssumed == Proved!LoaderAssumption
BY LoaderAssumption DEF Proved!LoaderAssumption, Proved!Descriptors, Descriptors

\* The statics of ntt_adapter.c start out empty.
LEMMA SelectionInit == Init => SelectionInv
<1> SUFFICES ASSUME Init
             PROVE  SelectionInv
  OBVIOUS
<1>1. Proved!Init
  BY DEF Init, Loader!Init, Proved!Init, Loader!Slots, Proved!Slots
<1>2. Proved!LoaderInv
  BY <1>1, LoaderAssumed, Proved!InitInv
<1>3. SelectionTypeOK
  BY DEF Init, SelectionTypeOK
<1>4. SelectionOK
  BY NamesApart
  DEF Init, SelectionOK, BuffersHoldOverride, NoStaleDefault, DefaultHonoursRequest,
      CacheHandedOut, RequestReadsLastValues
<1>5. QED
  BY <1>2, <1>3, <1>4 DEF SelectionInv

\* set_default: a refused request leaves the cache and the request it was
\* resolved for, an accepted one replaces both.
LEMMA SetDefaultKeeps ==
  ASSUME SelectionInv, NEW name \in Names, NEW dir \in Dirs \union {Empty},
         SetDefault(name, dir)
  PROVE  SelectionInv' /\ UNCHANGED loaderVars
<1> USE DEF SelectionInv
<1>1. UNCHANGED loaderVars
  BY DEF SetDefault, SetDefaultNameTooLong, SetDefaultDirTooLong, SetDefaultAccepted
<1>2. Proved!LoaderInv'
  BY <1>1, LoaderAssumed, Proved!NextInv DEF loaderVars, Proved!loaderVars
<1>3. CASE SetDefaultNameTooLong(name)
  <2>1. SelectionTypeOK'
    BY <1>3, DefaultAssumption DEF SetDefaultNameTooLong, SelectionTypeOK
  <2>2. SelectionOK'
    BY <1>1, <1>3
    DEF SetDefaultNameTooLong, SelectionOK, SelectionTypeOK, loaderVars,
        BuffersHoldOverride, NoStaleDefault, DefaultHonoursRequest, CacheHandedOut,
        RequestReadsLastValues
  <2>3. QED
    BY <1>1, <1>2, <2>1, <2>2
<1>4. CASE SetDefaultDirTooLong(name, dir)
  <2>1. SelectionTypeOK'
    BY <1>4, DefaultAssumption DEF SetDefaultDirTooLong, SelectionTypeOK
  <2>2. SelectionOK'
    BY <1>1, <1>4
    DEF SetDefaultDirTooLong, SelectionOK, SelectionTypeOK, loaderVars,
        BuffersHoldOverride, NoStaleDefault, DefaultHonoursRequest, CacheHandedOut,
        RequestReadsLastValues
  <2>3. QED
    BY <1>1, <1>2, <2>1, <2>2
<1>5. CASE SetDefaultAccepted(name, dir)
  <2>1. override' \in SetRequests /\ override' # NULL
    BY <1>5, RequestAssumption DEF SetDefaultAccepted, SetRequest, SetRequests, Requests
  <2>2. override'.name = name /\ override'.dir = dir
    BY <1>5 DEF SetDefaultAccepted, SetRequest
  <2>3. SelectionTypeOK'
    BY <1>5, <2>1 DEF SetDefaultAccepted, SelectionTypeOK
  <2>4. SelectionOK'
    BY <1>5, <2>1, <2>2, NamesApart
    DEF SetDefaultAccepted, SelectionOK, BuffersHoldOverride, NoStaleDefault,
        DefaultHonoursRequest, CacheHandedOut, RequestReadsLastValues
  <2>5. QED
    BY <1>1, <1>2, <2>3, <2>4
<1>6. QED
  BY <1>3, <1>4, <1>5 DEF SetDefault

\* get_default: resolved once, for the override or for the environment.
LEMMA GetDefaultKeeps ==
  ASSUME SelectionInv, NEW answer \in Adapters, GetDefault(answer)
  PROVE  SelectionInv' /\ (Loader!Next \/ UNCHANGED loaderVars)
<1> USE LoaderAssumed DEF SelectionInv
<1>1. CASE GetDefaultCached(answer)
  <2>1. UNCHANGED vars /\ UNCHANGED loaderVars
    BY <1>1 DEF GetDefaultCached, vars
  <2>2. Proved!LoaderInv'
    BY <2>1, Proved!NextInv DEF loaderVars, Proved!loaderVars
  <2>3. QED
    BY <2>1, <2>2
    DEF vars, settings, loaderVars, SelectionTypeOK, SelectionOK, BuffersHoldOverride,
        NoStaleDefault, DefaultHonoursRequest, CacheHandedOut,
        RequestReadsLastValues
<1>2. CASE GetDefaultExplicit(answer)
  <2>1. /\ ResolveDefault(defaultName, defaultDir, answer)
        /\ cache' = answer /\ wanted' = override /\ explicit /\ override # NULL
        /\ UNCHANGED <<env, defaultName, defaultDir, explicit, override, torn>>
    BY <1>2 DEF GetDefaultExplicit, settings, SelectionOK, BuffersHoldOverride
  <2>2. /\ Loader!Next \/ UNCHANGED loaderVars
        /\ Proved!LoaderInv'
        /\ answer \in Modules => answer \in handed'
        /\ \A r : r.name = defaultName /\ r.dir = defaultDir => answer \in Candidates(r)
    BY <2>1, ResolveKeeps DEF SelectionTypeOK
  <2>3. override \in SetRequests /\ override.from # "environment"
    BY <2>1 DEF SelectionTypeOK, SetRequests
  <2>4. SelectionTypeOK'
    BY <2>1, <2>3 DEF SelectionTypeOK, Requests
  <2>5. SelectionOK'
    BY <2>1, <2>2, <2>3
    DEF SelectionOK, BuffersHoldOverride, NoStaleDefault, DefaultHonoursRequest,
        CacheHandedOut, RequestReadsLastValues, Candidates
  <2>6. QED
    BY <2>2, <2>4, <2>5
<1>3. CASE GetDefaultFromEnvironment(answer)
  <2>1. PICK request \in EnvironmentAsks :
          ResolveDefault(request.name, request.dir, answer) /\ wanted' = request
    BY <1>3 DEF GetDefaultFromEnvironment
  <2>2. /\ cache' = answer /\ ~explicit /\ override = NULL
        /\ UNCHANGED <<env, defaultName, defaultDir, explicit, override, torn>>
    BY <1>3 DEF GetDefaultFromEnvironment, settings, SelectionOK, BuffersHoldOverride
  <2>3. /\ request \in Requests /\ request.from = "environment"
        /\ request.name \in Names \union {Empty} /\ request.dir \in Dirs \union {Empty}
        /\ HoldsLastValues(request.read.pieces, request.read.buffers)
    BY EnvironmentAsksTyped DEF SelectionTypeOK
  <2>4. /\ Loader!Next \/ UNCHANGED loaderVars
        /\ Proved!LoaderInv'
        /\ answer \in Modules => answer \in handed'
        /\ answer \in Candidates(request)
    BY <2>1, <2>3, ResolveKeeps
  <2>5. SelectionTypeOK'
    BY <2>1, <2>2, <2>3 DEF SelectionTypeOK
  <2>6. SelectionOK'
    BY <2>1, <2>2, <2>3, <2>4
    DEF SelectionOK, BuffersHoldOverride, NoStaleDefault, DefaultHonoursRequest,
        CacheHandedOut, RequestReadsLastValues, Candidates
  <2>7. QED
    BY <2>4, <2>5, <2>6
<1>4. QED
  BY <1>1, <1>2, <1>3 DEF GetDefault

\* ntt_adapter_load, called by the application, leaves the default alone.
LEMMA LoadStepKeeps ==
  ASSUME SelectionInv, NEW name \in Names \union {Empty}, NEW dir \in Dirs,
         NEW answer \in {<<dir, name>>, NULL}, Load(name, dir, answer)
  PROVE  SelectionInv' /\ Loader!Next
<1> USE DEF SelectionInv
<1>1. <<dir, name>> \in Modules
  BY DefaultAssumption
<1>2. Loader!Next /\ Proved!LoaderInv' /\ handed \subseteq handed'
  BY <1>1, LoadKeeps, LoaderAssumed DEF Load
<1>3. SelectionTypeOK' /\ SelectionOK'
  BY <1>2
  DEF Load, settings, SelectionTypeOK, SelectionOK, BuffersHoldOverride, NoStaleDefault,
      DefaultHonoursRequest, CacheHandedOut, RequestReadsLastValues
<1>4. QED
  BY <1>2, <1>3

\* unload_all takes the default with the modules.
LEMMA UnloadAllKeeps ==
  ASSUME SelectionInv, UnloadAll
  PROVE  SelectionInv' /\ Loader!Next
<1> USE DEF SelectionInv
<1>1. Loader!Next /\ Proved!UnloadAll
  BY SameUnload DEF UnloadAll, Loader!Next
<1>2. Proved!LoaderInv'
  BY <1>1, LoaderAssumed, Proved!NextInv DEF Proved!Next
<1>3. SelectionTypeOK'
  BY DEF UnloadAll, ResetDefault, SelectionTypeOK
<1>4. SelectionOK'
  BY NamesApart
  DEF UnloadAll, ResetDefault, SelectionOK, BuffersHoldOverride, NoStaleDefault,
      DefaultHonoursRequest, CacheHandedOut, RequestReadsLastValues
<1>5. QED
  BY <1>1, <1>2, <1>3, <1>4

\* A change of the environment does not show while the default is cached.
LEMMA QuietStepKeeps ==
  ASSUME SelectionInv, ChangeEnvironment \/ UNCHANGED vars
  PROVE  SelectionInv' /\ UNCHANGED loaderVars
<1> USE DEF SelectionInv
<1>1. UNCHANGED <<loaderVars, settings, cache, wanted>> /\ env' \in Environments
  BY DEF ChangeEnvironment, vars, SelectionTypeOK
<1>2. Proved!LoaderInv'
  BY <1>1, LoaderAssumed, Proved!NextInv DEF loaderVars, Proved!loaderVars
<1>3. SelectionTypeOK' /\ SelectionOK'
  BY <1>1
  DEF settings, loaderVars, SelectionTypeOK, SelectionOK, BuffersHoldOverride,
      NoStaleDefault, DefaultHonoursRequest, CacheHandedOut,
        RequestReadsLastValues
<1>4. QED
  BY <1>1, <1>2, <1>3

\* Every step keeps the invariant and is a step of the loader or none.
LEMMA SelectionNext ==
  ASSUME SelectionInv, [Next]_vars
  PROVE  SelectionInv' /\ (Loader!Next \/ UNCHANGED loaderVars)
<1>1. CASE SetDefaultInvalid \/ ChangeEnvironment \/ UNCHANGED vars
  BY <1>1, QuietStepKeeps DEF SetDefaultInvalid
<1>2. CASE \E name \in Names, dir \in Dirs \union {Empty} : SetDefault(name, dir)
  BY <1>2, SetDefaultKeeps
<1>3. CASE \E answer \in Adapters : GetDefault(answer)
  BY <1>3, GetDefaultKeeps
<1>4. CASE \E name \in Names \union {Empty}, dir \in Dirs :
             \E answer \in {<<dir, name>>, NULL} : Load(name, dir, answer)
  BY <1>4, LoadStepKeeps
<1>5. CASE UnloadAll
  BY <1>5, UnloadAllKeeps
<1>6. QED
  BY <1>1, <1>2, <1>3, <1>4, <1>5 DEF Next

-----------------------------------------------------------------------------

\* Every reachable state satisfies the invariant.
THEOREM SelectionInvariant == Spec => []SelectionInv
BY SelectionInit, SelectionNext, PTL DEF Spec

\* The statics, the table and the histories are well typed.
THEOREM SelectionTyped == Spec => []TypeOK
<1>1. SelectionInv => TypeOK
  <2>1. Proved!LoaderInv => Loader!TypeOK
    BY DEF Proved!LoaderInv, Proved!TypeOK, Loader!TypeOK, Loader!Slots, Proved!Slots
  <2>2. QED
    BY <2>1 DEF SelectionInv, SelectionTypeOK, TypeOK
<1>2. QED
  BY <1>1, SelectionInvariant, PTL

\* The default is an adapter that the request in force allows.
THEOREM SelectionHonoursRequest == Spec => []DefaultHonoursRequest
BY SelectionInvariant, PTL DEF SelectionInv, SelectionOK

\* No default outlives the request it was resolved for.
THEOREM SelectionNoStale == Spec => []NoStaleDefault
BY SelectionInvariant, PTL DEF SelectionInv, SelectionOK

\* What the default was resolved from is the last value of each key.
THEOREM SelectionReadsLastValues == Spec => []BuffersAreLastValues
<1>1. RequestReadsLastValues => BuffersAreLastValues
  BY DEF RequestReadsLastValues, HoldsLastValues, Stored, Refused, BuffersAreLastValues
<1>2. QED
  BY <1>1, SelectionInvariant, PTL DEF SelectionInv, SelectionOK

\* A default from a module is mapped while a slot is free.
THEOREM SelectionResident == Spec => []DefaultResident
<1>1. SelectionInv => DefaultResident
  <2>1. Loader!FreeSlots = Proved!FreeSlots
    BY DEF Loader!FreeSlots, Proved!FreeSlots, Loader!Slots, Proved!Slots
  <2>2. \A m : Loader!Resident(m) <=> Proved!Resident(m)
    BY DEF Loader!Resident, Proved!Resident
  <2>3. QED
    BY <2>1, <2>2
    DEF SelectionInv, SelectionOK, CacheHandedOut, Proved!LoaderInv,
        Proved!HandedOutResident, DefaultResident
<1>2. QED
  BY <1>1, SelectionInvariant, PTL

\* The default changes only by an accepted set_default or by unload_all.
THEOREM SelectionStable == Spec => DefaultStable
<1>1. [Next]_vars =>
        [cache # NULL /\ cache' # cache =>
           \/ \E name \in Names, dir \in Dirs \union {Empty} : SetDefaultAccepted(name, dir)
           \/ UnloadAll]_vars
  BY DEF Next, SetDefaultInvalid, SetDefault, SetDefaultNameTooLong, SetDefaultDirTooLong,
         GetDefault, GetDefaultCached, GetDefaultExplicit, GetDefaultFromEnvironment, Load,
         ChangeEnvironment, vars
<1>2. QED
  BY <1>1, PTL DEF Spec, DefaultStable

\* Both instances of the loader see the same in its state.
LEMMA SameView ==
  /\ \A m : Loader!SlotsOf(m) = Proved!SlotsOf(m)
  /\ \A m : Loader!Resident(m) <=> Proved!Resident(m)
  /\ Loader!Slots = Proved!Slots
  /\ Loader!FreeSlots = Proved!FreeSlots
BY DEF Loader!SlotsOf, Proved!SlotsOf, Loader!Slots, Proved!Slots, Loader!Resident,
       Proved!Resident, Loader!FreeSlots, Proved!FreeSlots

\* The linker's counts are those of the table, also after the loads that fail
\* on the way to a default.
THEOREM SelectionKeepsBalance == Spec => []HandlesBalanced
<1>1. SelectionInv => HandlesBalanced
  <2>1. \A m : Loader!Cardinality(Loader!SlotsOf(m)) = Proved!Cardinality(Proved!SlotsOf(m))
    BY SameView, Zenon DEF Loader!Cardinality, Proved!Cardinality
  <2>2. QED
    BY <2>1 DEF SelectionInv, Proved!LoaderInv, Proved!HandlesBalanced, HandlesBalanced,
                Loader!HandlesBalanced
<1>2. QED
  BY <1>1, SelectionInvariant, PTL

\* What was handed out, by ntt_adapter_load or as a default, is mapped while a
\* slot is free.
THEOREM SelectionKeepsModules == Spec => []HandedOutResident
<1>1. SelectionInv => HandedOutResident
  BY SameView DEF SelectionInv, Proved!LoaderInv, Proved!HandedOutResident,
                  HandedOutResident, Loader!HandedOutResident
<1>2. QED
  BY <1>1, SelectionInvariant, PTL

\* A load leaves mapped what is mapped.
LEMMA LoadUnmapsNothing ==
  ASSUME SelectionInv, NEW m \in Modules, NEW found, Loader!LoadFromDir(m, found),
         NEW k \in Modules, Loader!Resident(k)
  PROVE  Loader!Resident(k)'
<1>1. Proved!LoadFromDir(m, found) /\ Proved!Resident(k) /\ Proved!LoaderInv
  BY SameLoad, SameView DEF SelectionInv
<1>2. Proved!Resident(k)'
  BY <1>1, LoaderAssumed, Proved!LoadNeverUnmaps
<1>3. QED
  BY <1>2 DEF Loader!Resident, Proved!Resident

\* Resolving a request loads at most one module, and unmaps none.
LEMMA ResolveUnmapsNothing ==
  ASSUME SelectionInv, NEW name \in Names \union {Empty}, NEW dir \in Dirs \union {Empty},
         NEW answer, ResolveDefault(name, dir, answer),
         NEW k \in Modules, Loader!Resident(k)
  PROVE  Loader!Resident(k)'
<1>1. CASE UNCHANGED loaderVars
  BY <1>1 DEF loaderVars, Loader!Resident
<1>2. ASSUME name \notin Builtins \union {Empty}, dir # Empty,
             NEW found, Loader!LoadFromDir(<<dir, name>>, found)
      PROVE  Loader!Resident(k)'
  <2>1. <<dir, name>> \in Modules
    BY <1>2, DefaultAssumption
  <2>2. QED
    BY <1>2, <2>1, LoadUnmapsNothing
<1>3. QED
  BY <1>1, <1>2 DEF ResolveDefault

\* Only ntt_adapter_unload_all unmaps a module: neither a load that is refused
\* nor one on the way to a default does.
THEOREM SelectionUnmapsNothing == Spec => OnlyUnloadAllUnmaps
<1>1. SelectionInv /\ [Next]_vars
        => [(\E m \in Modules : Loader!Resident(m) /\ ~Loader!Resident(m)') => UnloadAll]_vars
  <2> SUFFICES ASSUME SelectionInv, Next, ~UnloadAll,
                      NEW k \in Modules, Loader!Resident(k)
               PROVE  Loader!Resident(k)'
    OBVIOUS
  <2>1. CASE UNCHANGED loaderVars
    BY <2>1 DEF loaderVars, Loader!Resident
  <2>2. ASSUME NEW answer, GetDefaultExplicit(answer)
        PROVE  Loader!Resident(k)'
    <3>1. defaultName \in Names \union {Empty} /\ defaultDir \in Dirs \union {Empty}
      BY DEF SelectionInv, SelectionTypeOK
    <3>2. QED
      BY <2>2, <3>1, ResolveUnmapsNothing DEF GetDefaultExplicit
  <2>3. ASSUME NEW answer, GetDefaultFromEnvironment(answer)
        PROVE  Loader!Resident(k)'
    <3>1. PICK request \in EnvironmentAsks : ResolveDefault(request.name, request.dir, answer)
      BY <2>3 DEF GetDefaultFromEnvironment
    <3>2. request.name \in Names \union {Empty} /\ request.dir \in Dirs \union {Empty}
      BY EnvironmentAsksTyped DEF SelectionInv, SelectionTypeOK
    <3>3. QED
      BY <3>1, <3>2, ResolveUnmapsNothing
  <2>4. ASSUME NEW name \in Names \union {Empty}, NEW dir \in Dirs,
               NEW answer, Load(name, dir, answer)
        PROVE  Loader!Resident(k)'
    <3>1. <<dir, name>> \in Modules
      BY DefaultAssumption
    <3>2. QED
      BY <2>4, <3>1, LoadUnmapsNothing DEF Load
  <2>5. CASE \/ SetDefaultInvalid \/ ChangeEnvironment
             \/ \E name \in Names, dir \in Dirs \union {Empty} : SetDefault(name, dir)
    BY <2>1, <2>5 DEF SetDefaultInvalid, ChangeEnvironment, SetDefault, vars,
         SetDefaultNameTooLong, SetDefaultDirTooLong, SetDefaultAccepted
  <2>6. CASE \E answer \in Adapters : GetDefault(answer)
    BY <2>1, <2>2, <2>3, <2>6 DEF GetDefault, GetDefaultCached, vars
  <2>7. QED
    BY <2>4, <2>5, <2>6 DEF Next
<1>2. QED
  BY <1>1, SelectionInvariant, PTL DEF Spec, OnlyUnloadAllUnmaps

\* Both instances map the loader's state to the same state of the contract.
LEMMA SameMapping ==
  /\ {m \in Modules : Loader!Resident(m)} = {m \in Modules : Proved!Resident(m)}
  /\ Loader!Cardinality(Loader!FreeSlots) = Proved!Cardinality(Proved!FreeSlots)
  /\ {m \in Modules : Loader!Resident(m)}' = {m \in Modules : Proved!Resident(m)}'
  /\ Loader!Cardinality(Loader!FreeSlots)' = Proved!Cardinality(Proved!FreeSlots)'
<1>1. /\ {m \in Modules : Loader!Resident(m)} = {m \in Modules : Proved!Resident(m)}
      /\ {m \in Modules : Loader!Resident(m)}' = {m \in Modules : Proved!Resident(m)}'
  BY DEF Loader!Resident, Proved!Resident
<1>2. Loader!FreeSlots = Proved!FreeSlots /\ Loader!FreeSlots' = Proved!FreeSlots'
  BY DEF Loader!FreeSlots, Proved!FreeSlots, Loader!Slots, Proved!Slots
<1>3. \A S : Loader!Cardinality(S) = Proved!Cardinality(S)
  BY Zenon DEF Loader!Cardinality, Proved!Cardinality
<1>4. Loader!Cardinality(Loader!FreeSlots) = Proved!Cardinality(Proved!FreeSlots)
  BY <1>2, <1>3
<1>5. Loader!Cardinality(Loader!FreeSlots)' = Proved!Cardinality(Proved!FreeSlots)'
  BY <1>2, <1>3
<1>6. QED
  BY <1>1, <1>4, <1>5

\* Under all calls of selection the table of handles implements ModuleResidency.
THEOREM SelectionRefinesResidency == Spec => Refinement
<1>1. Init => Loader!Residency!Init
  <2>1. Init => Proved!Residency!Init
    <3>1. Init => Proved!Init
      BY DEF Init, Loader!Init, Proved!Init, Loader!Slots, Proved!Slots
    <3>2. QED
      BY <3>1, LoaderAssumed, Proved!ResidencyInit
  <2>2. Proved!Residency!Init => Loader!Residency!Init
    BY SameMapping DEF Loader!Residency!Init, Proved!Residency!Init
  <2>3. QED
    BY <2>1, <2>2
<1>2. SelectionInv /\ [Next]_vars
        => [Loader!Residency!Next]_(Loader!Residency!residencyVars)
  <2> SUFFICES ASSUME SelectionInv, [Next]_vars
               PROVE  [Loader!Residency!Next]_(Loader!Residency!residencyVars)
    OBVIOUS
  <2>1. [Proved!Next]_(Proved!loaderVars)
    <3>1. Loader!Next \/ UNCHANGED loaderVars
      BY SelectionNext
    <3>2. Loader!Next => Proved!Next
      BY SameLoad, SameUnload DEF Loader!Next, Proved!Next
    <3>3. QED
      BY <3>1, <3>2 DEF loaderVars, Proved!loaderVars
  <2>2. [Proved!Residency!Next]_(Proved!Residency!residencyVars)
    BY <2>1, LoaderAssumed, Proved!ResidencyNext DEF SelectionInv
  <2>3. QED
    BY <2>2, SameMapping
    DEF Loader!Residency!Next, Proved!Residency!Next, Loader!Residency!Keep,
        Proved!Residency!Keep, Loader!Residency!UnloadAll, Proved!Residency!UnloadAll,
        Loader!Residency!residencyVars, Proved!Residency!residencyVars
<1>3. QED
  BY <1>1, <1>2, SelectionInvariant, PTL
  DEF Spec, Refinement, Loader!Refinement, Loader!Residency!Spec

=============================================================================
