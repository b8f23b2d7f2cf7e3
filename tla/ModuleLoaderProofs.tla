-------------------------- MODULE ModuleLoaderProofs --------------------------
(***************************************************************************)
(* Proofs about the module loader: its invariants, the action property and *)
(* the refinement of ModuleResidency, for any set of modules, any answers  *)
(* of their entries and any number of slots.                               *)
(***************************************************************************)
EXTENDS ModuleLoader, FiniteSetTheorems, TLAPS

\* The inductive invariant: residency of what was handed out rests on the
\* balance of the reference counts with the table.
LoaderInv == TypeOK /\ HandlesBalanced /\ HandedOutResident

-----------------------------------------------------------------------------

\* The sets of slots the loader counts are finite.
LEMMA SlotSets ==
  /\ IsFiniteSet(Slots) /\ Cardinality(Slots) = MaxLoaded
  /\ IsFiniteSet(FreeSlots) /\ Cardinality(FreeSlots) \in Nat
  /\ \A m : IsFiniteSet(SlotsOf(m)) /\ Cardinality(SlotsOf(m)) \in Nat
<1>1. IsFiniteSet(Slots) /\ Cardinality(Slots) = MaxLoaded
  BY FS_Interval, LoaderAssumption DEF Slots
<1>2. FreeSlots \in SUBSET Slots /\ \A m : SlotsOf(m) \in SUBSET Slots
  BY DEF FreeSlots, SlotsOf
<1>3. QED
  BY <1>1, <1>2, FS_Subset, FS_CardinalityType

\* Opening and closing a module again leaves the reference counts alone.
LEMMA OpenThenClose ==
  ASSUME TypeOK, NEW m \in Modules
  PROVE  DlClose(DlOpen(refs, m), m) = refs
<1> DEFINE opened == DlOpen(refs, m)
<1>1. /\ opened \in [Modules -> Nat]
      /\ opened[m] = refs[m] + 1
      /\ \A k \in Modules \ {m} : opened[k] = refs[k]
  BY DEF TypeOK, DlOpen
<1> HIDE DEF opened
<1>2. DlClose(opened, m) = [k \in Modules |-> IF k = m THEN opened[m] - 1 ELSE opened[k]]
  BY <1>1 DEF DlClose
<1>3. \A k \in Modules : DlClose(opened, m)[k] = refs[k]
  <2>1. refs[m] \in Nat /\ opened[m] - 1 = refs[m]
    BY <1>1 DEF TypeOK
  <2>2. QED
    BY <1>1, <1>2, <2>1
<1>4. DlClose(opened, m) = refs
  BY <1>2, <1>3 DEF TypeOK
<1>5. QED
  BY <1>4 DEF opened

\* A kept load fills one free slot with one handle of the module, and leaves
\* every other module's slots as they were.
LEMMA KeptFillsOneSlot ==
  ASSUME TypeOK, NEW m \in Modules, LoadKept(m)
  PROVE  \E i \in FreeSlots :
           /\ loaded' = [loaded EXCEPT ![i] = m]
           /\ FreeSlots' = FreeSlots \ {i}
           /\ SlotsOf(m)' = SlotsOf(m) \union {i}
           /\ i \notin SlotsOf(m)
           /\ \A k \in Modules \ {m} : SlotsOf(k)' = SlotsOf(k)
<1>1. PICK i \in FreeSlots : loaded' = [loaded EXCEPT ![i] = m]
  BY DEF LoadKept, CacheHandle
<1>2. /\ i \in Slots /\ loaded[i] = NULL /\ m # NULL
      /\ \A k \in Modules : k # NULL
      /\ \A j \in Slots : loaded'[j] = IF j = i THEN m ELSE loaded[j]
  BY <1>1, LoaderAssumption DEF FreeSlots, TypeOK
<1>3. FreeSlots' = FreeSlots \ {i}
  BY <1>2 DEF FreeSlots, Slots
<1>4. SlotsOf(m)' = SlotsOf(m) \union {i} /\ i \notin SlotsOf(m)
  BY <1>2 DEF SlotsOf, Slots
<1>5. \A k \in Modules \ {m} : SlotsOf(k)' = SlotsOf(k)
  BY <1>2 DEF SlotsOf, Slots
<1>6. QED
  BY <1>1, <1>3, <1>4, <1>5

-----------------------------------------------------------------------------

LEMMA InitInv == Init => LoaderInv
<1> SUFFICES ASSUME Init PROVE LoaderInv
  OBVIOUS
<1>1. TypeOK
  BY DEF Init, TypeOK
<1>2. HandlesBalanced
  <2>1. \A m \in Modules : SlotsOf(m) = {}
    BY LoaderAssumption DEF Init, SlotsOf
  <2>2. QED
    BY <2>1, FS_EmptySet DEF Init, HandlesBalanced
<1>3. HandedOutResident
  BY DEF Init, HandedOutResident
<1>4. QED
  BY <1>1, <1>2, <1>3 DEF LoaderInv

\* A load that fails or is not kept changes neither table nor counts.
LEMMA TransientLoadInv ==
  ASSUME LoaderInv, NEW m \in Modules, LoadRefused(m) \/ LoadSpilled(m)
  PROVE  LoaderInv' /\ UNCHANGED <<loaded, refs>>
<1>1. UNCHANGED <<loaded, refs>>
  BY OpenThenClose DEF LoaderInv, LoadRefused, LoadSpilled
<1>2. TypeOK'
  BY <1>1 DEF LoaderInv, TypeOK, LoadRefused, LoadSpilled
<1>3. HandlesBalanced'
  BY <1>1 DEF LoaderInv, HandlesBalanced, SlotsOf
<1>4. HandedOutResident'
  <2>1. CASE LoadRefused(m)
    BY <2>1, <1>1 DEF LoadRefused, LoaderInv, HandedOutResident, FreeSlots, Resident
  <2>2. CASE LoadSpilled(m)
    BY <2>2, <1>1 DEF LoadSpilled, HandedOutResident, FreeSlots
  <2>3. QED
    BY <2>1, <2>2
<1>5. QED
  BY <1>1, <1>2, <1>3, <1>4 DEF LoaderInv

LEMMA KeptLoadInv ==
  ASSUME LoaderInv, NEW m \in Modules, LoadKept(m)
  PROVE  LoaderInv'
<1> USE DEF LoaderInv
<1>1. refs' = [refs EXCEPT ![m] = @ + 1] /\ handed' = handed \union {m}
  BY DEF LoadKept, DlOpen
<1>2. PICK i \in FreeSlots :
        /\ loaded' = [loaded EXCEPT ![i] = m]
        /\ FreeSlots' = FreeSlots \ {i}
        /\ SlotsOf(m)' = SlotsOf(m) \union {i}
        /\ i \notin SlotsOf(m)
        /\ \A k \in Modules \ {m} : SlotsOf(k)' = SlotsOf(k)
  BY KeptFillsOneSlot
<1>3. TypeOK'
  BY <1>1, <1>2 DEF TypeOK, FreeSlots
<1>4. HandlesBalanced'
  <2>1. Cardinality(SlotsOf(m)') = Cardinality(SlotsOf(m)) + 1
    BY <1>2, SlotSets, FS_AddElement
  <2>2. refs'[m] = Cardinality(SlotsOf(m)')
    BY <2>1, <1>1 DEF HandlesBalanced, TypeOK
  <2>3. \A k \in Modules \ {m} : refs'[k] = Cardinality(SlotsOf(k)')
    BY <1>1, <1>2 DEF HandlesBalanced, TypeOK
  <2>4. QED
    BY <2>2, <2>3 DEF HandlesBalanced, SlotsOf
<1>5. HandedOutResident'
  BY <1>1, <1>2 DEF HandedOutResident, Resident, TypeOK
<1>6. QED
  BY <1>3, <1>4, <1>5

LEMMA UnloadAllInv ==
  ASSUME LoaderInv, UnloadAll
  PROVE  LoaderInv' /\ refs' = [m \in Modules |-> 0]
<1> USE DEF LoaderInv
<1>1. refs' = [m \in Modules |-> 0]
  BY SlotSets DEF UnloadAll, HandlesBalanced
<1>2. \A m \in Modules : SlotsOf(m)' = {}
  BY LoaderAssumption DEF UnloadAll, SlotsOf
<1>3. TypeOK'
  BY <1>1 DEF UnloadAll, TypeOK
<1>4. HandlesBalanced'
  BY <1>1, <1>2, FS_EmptySet DEF HandlesBalanced
<1>5. HandedOutResident'
  BY DEF UnloadAll, HandedOutResident
<1>6. QED
  BY <1>1, <1>3, <1>4, <1>5

LEMMA NextInv == LoaderInv /\ [Next]_loaderVars => LoaderInv'
<1> SUFFICES ASSUME LoaderInv, [Next]_loaderVars PROVE LoaderInv'
  OBVIOUS
<1>1. CASE UNCHANGED loaderVars
  BY <1>1 DEF loaderVars, LoaderInv, TypeOK, HandlesBalanced, HandedOutResident,
              SlotsOf, FreeSlots, Resident
<1>2. CASE UnloadAll
  BY <1>2, UnloadAllInv
<1>3. ASSUME NEW m \in Modules, NEW adapter \in {m, NULL}, LoadFromDir(m, adapter)
      PROVE  LoaderInv'
  <2>1. CASE LoadNotOpened(m)
    BY <2>1, <1>1 DEF LoadNotOpened
  <2>2. CASE LoadRefused(m) \/ LoadSpilled(m)
    BY <2>2, TransientLoadInv
  <2>3. CASE LoadKept(m)
    BY <2>3, KeptLoadInv
  <2>4. QED
    BY <1>3, <2>1, <2>2, <2>3 DEF LoadFromDir
<1>4. QED
  BY <1>1, <1>2, <1>3 DEF Next

\* Every reachable state is well typed, its counts balanced, and what was
\* handed out is mapped while a slot is free.
THEOREM LoaderCorrect == Spec => []LoaderInv
BY InitInv, NextInv, PTL DEF Spec

\* Type correctness of the loader's state.
THEOREM LoaderTypeOK == Spec => []TypeOK
BY LoaderCorrect, PTL DEF LoaderInv

\* No handle leaks and none is closed twice, however loads succeed and fail.
THEOREM LoaderBalanced == Spec => []HandlesBalanced
BY LoaderCorrect, PTL DEF LoaderInv

\* An adapter handed out while slots remain is backed by mapped code.
THEOREM LoaderResidency == Spec => []HandedOutResident
BY LoaderCorrect, PTL DEF LoaderInv

-----------------------------------------------------------------------------

\* A load never unmaps a module.
LEMMA LoadNeverUnmaps ==
  ASSUME LoaderInv, NEW m \in Modules, NEW adapter, LoadFromDir(m, adapter),
         NEW k \in Modules, Resident(k)
  PROVE  Resident(k)'
<1>1. CASE LoadNotOpened(m)
  BY <1>1 DEF LoadNotOpened, loaderVars, Resident
<1>2. CASE LoadRefused(m) \/ LoadSpilled(m)
  BY <1>2, TransientLoadInv DEF Resident
<1>3. CASE LoadKept(m)
  BY <1>3 DEF LoadKept, DlOpen, Resident, LoaderInv, TypeOK
<1>4. QED
  BY <1>1, <1>2, <1>3 DEF LoadFromDir

\* Only unload_all takes a mapped module away.
THEOREM LoaderOnlyUnloadAllUnmaps == Spec => OnlyUnloadAllUnmaps
<1>1. LoaderInv /\ [Next]_loaderVars
        => [(\E m \in Modules : Resident(m) /\ ~Resident(m)') => UnloadAll]_loaderVars
  BY LoadNeverUnmaps DEF Next
<1>2. QED
  BY <1>1, LoaderCorrect, PTL DEF Spec, OnlyUnloadAllUnmaps

-----------------------------------------------------------------------------

\* What the refinement mapping sees of the state.
Mapped == {m \in Modules : Resident(m)}
Room == Cardinality(FreeSlots)

\* The mapping takes the initial state to the contract's.
LEMMA ResidencyInit == Init => Residency!Init
<1> USE DEF Mapped, Room
<1> SUFFICES ASSUME Init PROVE Residency!Init
  OBVIOUS
<1>1. FreeSlots = Slots /\ Mapped = {}
  BY DEF Init, FreeSlots, Resident
<1>2. QED
  BY <1>1, SlotSets DEF Residency!Init

\* Kept loads and unload_all are the contract's two steps, every other outcome
\* of a load leaves it unchanged.
LEMMA ResidencyNext ==
  ASSUME LoaderInv, [Next]_loaderVars
  PROVE  [Residency!Next]_(Residency!residencyVars)
<1> USE DEF LoaderInv, Mapped, Room
<1>1. UNCHANGED <<loaded, refs>> => UNCHANGED Residency!residencyVars
  BY DEF Residency!residencyVars, FreeSlots, Resident
<1>2. CASE UnloadAll
  <2>1. Mapped' = {}
    BY <1>2, UnloadAllInv DEF Resident
  <2>2. FreeSlots' = Slots
    BY <1>2 DEF UnloadAll, FreeSlots
  <2>3. QED
    BY <2>1, <2>2, SlotSets DEF Residency!Next, Residency!UnloadAll
<1>3. ASSUME NEW m \in Modules, LoadKept(m)
      PROVE  Residency!Next
  <2>1. Mapped' = Mapped \union {m}
    BY <1>3 DEF LoadKept, DlOpen, Resident, TypeOK
  <2>2. Room > 0 /\ Room' = Room - 1
    BY <1>3, KeptFillsOneSlot, SlotSets, FS_RemoveElement, FS_EmptySet
  <2>3. QED
    BY <2>1, <2>2 DEF Residency!Next, Residency!Keep
<1>4. ASSUME NEW m \in Modules, NEW adapter \in {m, NULL}, LoadFromDir(m, adapter)
      PROVE  Residency!Next \/ UNCHANGED Residency!residencyVars
  BY <1>1, <1>3, <1>4, TransientLoadInv DEF LoadFromDir, LoadNotOpened, loaderVars
<1>5. CASE UNCHANGED loaderVars
  BY <1>1, <1>5 DEF loaderVars
<1>6. QED
  BY <1>2, <1>4, <1>5 DEF Next

\* The loader implements the residency contract.
THEOREM LoaderRefinesResidency == Spec => Refinement
BY ResidencyInit, ResidencyNext, LoaderCorrect, PTL DEF Spec, Refinement, Residency!Spec

=============================================================================
