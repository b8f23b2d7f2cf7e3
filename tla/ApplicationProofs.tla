-------------------------- MODULE ApplicationProofs --------------------------
(***************************************************************************)
(* Proofs about contexts and about the library in use, for any threads,    *)
(* adapters, modules, blocks and number of slots.  First the lifecycle of  *)
(* contexts by itself: typing, the balance of heap and pointers, what each *)
(* thread owns where in its call, and that the caller's configuration is   *)
(* only read.  Then the composition: this and what ModuleLoaderProofs      *)
(* shows of the loader hold in it too, and with it that a context's        *)
(* callbacks stay mapped and find the core API.                            *)
(***************************************************************************)
EXTENDS Application, TLAPS

LOCAL INSTANCE Functions

-----------------------------------------------------------------------------
(***************************************************************************)
(* The lifecycle of contexts                                               *)
(***************************************************************************)

\* What a thread owns at each place of a call.
PlaceOwns(t) ==
  /\ pc[t] = "idle" <=> adapter[t] = NULL
  /\ pc[t] \in {"idle", "validated"} => ptr[t] = {}
  /\ pc[t] \in {"setup", "cleanup"} => ptr[t] = {"ctx"}
  /\ pc[t] \in {"tables", "teardownState"} => ptr[t] = {"ctx", "state"}
  /\ pc[t] = "live" => ptr[t] = Whole(t)
  /\ pc[t] = "running" =>
       /\ Whole(t) \subseteq ptr[t]
       /\ ptr[t] \subseteq Whole(t) \union Scratch[adapter[t]]
  /\ pc[t] = "teardown" => {"ctx", "state"} \subseteq ptr[t] /\ ptr[t] \subseteq Whole(t)

\* The inductive invariant.
LifecycleInv ==
  /\ TypeOK
  /\ HeapMatchesPointers
  /\ \A t \in Threads : PlaceOwns(t)

-----------------------------------------------------------------------------

\* The names of the blocks of an adapter, and that those of its tables, its
\* scratch buffers and the context itself differ.
LEMMA Names ==
  ASSUME NEW a \in Adapters
  PROVE  /\ Tables[a] \subseteq BlockNames /\ Scratch[a] \subseteq BlockNames
         /\ {"ctx", "state"} \subseteq BlockNames
         /\ "ctx" \notin Tables[a] /\ "state" \notin Tables[a]
         /\ "ctx" \notin Scratch[a] /\ "state" \notin Scratch[a]
         /\ Tables[a] \intersect Scratch[a] = {}
BY LifecycleAssumption DEF BlockNames

\* An allocation keeps heap and pointers in balance and the state typed.
LEMMA CallocKeeps ==
  ASSUME NEW t \in Threads, NEW names \in SUBSET BlockNames,
         ptr \in [Threads -> SUBSET BlockNames], HeapMatchesPointers,
         Calloc(t, names)
  PROVE  /\ HeapMatchesPointers'
         /\ ptr' \in [Threads -> SUBSET BlockNames]
         /\ heap' \subseteq Threads \X BlockNames
         /\ ptr'[t] = ptr[t] \union names
         /\ \A u \in Threads \ {t} : ptr'[u] = ptr[u]
<1>1. /\ ptr' \in [Threads -> SUBSET BlockNames]
      /\ ptr'[t] = ptr[t] \union names
      /\ \A u \in Threads \ {t} : ptr'[u] = ptr[u]
  BY DEF Calloc
<1>2. \A u \in Threads, k \in BlockNames :
        <<u, k>> \in heap' <=> k \in ptr'[u]
  <2> SUFFICES ASSUME NEW u \in Threads, NEW k \in BlockNames
               PROVE  <<u, k>> \in heap' <=> k \in ptr'[u]
    OBVIOUS
  <2>1. <<u, k>> \in heap <=> k \in ptr[u]
    BY DEF HeapMatchesPointers
  <2>2. <<u, k>> \in heap' <=> (<<u, k>> \in heap \/ (u = t /\ k \in names))
    BY DEF Calloc
  <2>3. QED
    BY <1>1, <2>1, <2>2
<1>3. heap' \subseteq Threads \X BlockNames
  BY DEF Calloc, HeapMatchesPointers
<1>4. HeapMatchesPointers'
  BY <1>2, <1>3 DEF HeapMatchesPointers
<1>5. QED
  BY <1>1, <1>3, <1>4

\* So does a free of blocks, unless they hold the only pointer to a block that
\* is still allocated.
LEMMA SafeFreeKeeps ==
  ASSUME NEW t \in Threads, NEW names,
         ptr \in [Threads -> SUBSET BlockNames], HeapMatchesPointers,
         SafeFree(t, names),
         Stored(t, names) \intersect ptr[t] \subseteq names
  PROVE  /\ HeapMatchesPointers'
         /\ ptr' \in [Threads -> SUBSET BlockNames]
         /\ heap' \subseteq Threads \X BlockNames
         /\ ptr'[t] = ptr[t] \ names
         /\ \A u \in Threads \ {t} : ptr'[u] = ptr[u]
<1> DEFINE gone == names \union Stored(t, names)
<1>1. /\ ptr' \in [Threads -> SUBSET BlockNames]
      /\ ptr'[t] = ptr[t] \ gone
      /\ \A u \in Threads \ {t} : ptr'[u] = ptr[u]
  <2> HIDE DEF gone
  <2>1. ptr' = [ptr EXCEPT ![t] = @ \ gone]
    BY DEF SafeFree, gone
  <2>2. QED
    BY <2>1
<1>2. ptr'[t] = ptr[t] \ names
  BY <1>1
<1> HIDE DEF gone
<1>3. \A u \in Threads, k \in BlockNames :
        <<u, k>> \in heap' <=> k \in ptr'[u]
  <2> SUFFICES ASSUME NEW u \in Threads, NEW k \in BlockNames
               PROVE  <<u, k>> \in heap' <=> k \in ptr'[u]
    OBVIOUS
  <2>1. <<u, k>> \in heap <=> k \in ptr[u]
    BY DEF HeapMatchesPointers
  <2>2. <<u, k>> \in heap' <=> (<<u, k>> \in heap /\ ~(u = t /\ k \in names /\ k \in ptr[t]))
    BY DEF SafeFree
  <2>3. QED
    BY <1>1, <1>2, <2>1, <2>2
<1>4. heap' \subseteq Threads \X BlockNames
  BY DEF SafeFree, HeapMatchesPointers
<1>5. HeapMatchesPointers'
  BY <1>3, <1>4 DEF HeapMatchesPointers
<1>6. QED
  BY <1>1, <1>2, <1>4, <1>5

-----------------------------------------------------------------------------

\* A step of t that leaves what the other threads own alone.
OthersKept(t) ==
  \A u \in Threads \ {t} :
    pc'[u] = pc[u] /\ adapter'[u] = adapter[u] /\ ptr'[u] = ptr[u]

\* It preserves the invariant if t owns what it should afterwards.
LEMMA LocalStep ==
  ASSUME NEW t \in Threads, LifecycleInv, OthersKept(t), PlaceOwns(t)',
         TypeOK', HeapMatchesPointers'
  PROVE  LifecycleInv'
<1>1. ASSUME NEW u \in Threads \ {t}
      PROVE  PlaceOwns(u)'
  BY <1>1 DEF OthersKept, LifecycleInv, PlaceOwns, Whole
<1>2. QED
  BY <1>1 DEF LifecycleInv

-----------------------------------------------------------------------------

\* A step of ntt_create preserves the invariant.
LEMMA CreateKeeps ==
  ASSUME LifecycleInv, NEW t \in Threads, NEW available \in SUBSET Adapters,
         Create(t, available)
  PROVE  LifecycleInv'
<1> USE DEF LifecycleInv
<1>1. CASE \E a \in available : Validate(t, a)
  <2>1. PICK a \in available : Validate(t, a)
    BY <1>1
  <2>2. a \in Adapters /\ config \in Configs
    BY <2>1 DEF Validate, Acceptable, TypeOK
  <2>3. TypeOK'
    BY <2>1, <2>2 DEF Validate, Goto, TypeOK, Places
  <2>4. PlaceOwns(t)'
    BY <2>1, <2>2, LifecycleAssumption DEF Validate, Goto, TypeOK, PlaceOwns, Whole
  <2>5. HeapMatchesPointers' /\ OthersKept(t)
    BY <2>1 DEF Validate, Goto, HeapMatchesPointers, OthersKept, TypeOK
  <2>6. QED
    BY <2>3, <2>4, <2>5, LocalStep
<1>2. CASE \E a \in available : Reject(t, a)
  BY <1>2 DEF Reject, vars, TypeOK, HeapMatchesPointers, PlaceOwns, Whole
<1>3. CASE AllocContext(t)
  <2>1. /\ HeapMatchesPointers' /\ ptr' \in [Threads -> SUBSET BlockNames]
        /\ heap' \subseteq Threads \X BlockNames
        /\ ptr'[t] = ptr[t] \union {"ctx"}
        /\ \A u \in Threads \ {t} : ptr'[u] = ptr[u]
    BY <1>3, CallocKeeps DEF AllocContext, TypeOK, BlockNames
  <2>2. TypeOK'
    BY <1>3, <2>1 DEF AllocContext, Goto, TypeOK, Places
  <2>3. PlaceOwns(t)'
    BY <1>3, <2>1 DEF AllocContext, Goto, TypeOK, PlaceOwns
  <2>4. OthersKept(t)
    BY <1>3, <2>1 DEF AllocContext, Goto, TypeOK, OthersKept
  <2>5. QED
    BY <2>1, <2>2, <2>3, <2>4, LocalStep
<1>4. CASE AllocContextFails(t)
  <2>1. TypeOK'
    BY <1>4 DEF AllocContextFails, Forget, Goto, TypeOK, Places
  <2>2. PlaceOwns(t)'
    BY <1>4 DEF AllocContextFails, Forget, Goto, TypeOK, PlaceOwns
  <2>3. HeapMatchesPointers' /\ OthersKept(t)
    BY <1>4 DEF AllocContextFails, Forget, Goto, TypeOK, HeapMatchesPointers, OthersKept
  <2>4. QED
    BY <2>1, <2>2, <2>3, LocalStep
<1>5. CASE AllocState(t)
  <2>1. /\ HeapMatchesPointers' /\ ptr' \in [Threads -> SUBSET BlockNames]
        /\ heap' \subseteq Threads \X BlockNames
        /\ ptr'[t] = ptr[t] \union {"state"}
        /\ \A u \in Threads \ {t} : ptr'[u] = ptr[u]
    BY <1>5, CallocKeeps DEF AllocState, TypeOK, BlockNames
  <2>2. TypeOK'
    BY <1>5, <2>1 DEF AllocState, Goto, TypeOK, Places
  <2>3. PlaceOwns(t)'
    BY <1>5, <2>1 DEF AllocState, Goto, TypeOK, PlaceOwns
  <2>4. OthersKept(t)
    BY <1>5, <2>1 DEF AllocState, Goto, TypeOK, OthersKept
  <2>5. QED
    BY <2>1, <2>2, <2>3, <2>4, LocalStep
<1>6. CASE SetupFails(t)
  <2>1. TypeOK'
    BY <1>6 DEF SetupFails, Goto, TypeOK, Places
  <2>2. PlaceOwns(t)'
    BY <1>6 DEF SetupFails, Goto, TypeOK, PlaceOwns
  <2>3. HeapMatchesPointers' /\ OthersKept(t)
    BY <1>6 DEF SetupFails, Goto, TypeOK, HeapMatchesPointers, OthersKept
  <2>4. QED
    BY <2>1, <2>2, <2>3, LocalStep
<1>7. CASE AllocTables(t)
  <2>1. PICK got \in SUBSET Tables[adapter[t]] :
          /\ pc' = [pc EXCEPT ![t] = IF got = Tables[adapter[t]] THEN "live" ELSE "teardown"]
          /\ Calloc(t, got)
    BY <1>7 DEF AllocTables
  <2>2. pc[t] = "tables" /\ adapter[t] \in Adapters
    BY <1>7 DEF AllocTables, TypeOK, PlaceOwns
  <2>3. got \in SUBSET BlockNames
    BY <2>2, Names
  <2>4. /\ HeapMatchesPointers' /\ ptr' \in [Threads -> SUBSET BlockNames]
        /\ heap' \subseteq Threads \X BlockNames
        /\ ptr'[t] = ptr[t] \union got
        /\ \A u \in Threads \ {t} : ptr'[u] = ptr[u]
    BY <2>1, <2>3, CallocKeeps DEF TypeOK
  <2>5. TypeOK'
    BY <1>7, <2>1, <2>4 DEF AllocTables, TypeOK, Places
  <2>6. PlaceOwns(t)'
    <3>1. ptr[t] = {"ctx", "state"} /\ adapter' = adapter
      BY <1>7, <2>2 DEF AllocTables, PlaceOwns
    <3>2. CASE got = Tables[adapter[t]]
      <4>1. pc'[t] = "live"
        BY <2>1, <3>2 DEF TypeOK
      <4>2. QED
        BY <2>2, <2>4, <3>1, <3>2, <4>1, LifecycleAssumption DEF PlaceOwns, Whole
    <3>3. CASE got # Tables[adapter[t]]
      <4>1. pc'[t] = "teardown"
        BY <2>1, <3>3 DEF TypeOK
      <4>2. QED
        BY <2>2, <2>4, <3>1, <4>1, LifecycleAssumption DEF PlaceOwns, Whole
    <3>4. QED
      BY <3>2, <3>3
  <2>7. OthersKept(t)
    BY <1>7, <2>1, <2>4 DEF AllocTables, TypeOK, OthersKept
  <2>8. QED
    BY <2>4, <2>5, <2>6, <2>7, LocalStep
<1>8. QED
  BY <1>1, <1>2, <1>3, <1>4, <1>5, <1>6, <1>7 DEF Create

-----------------------------------------------------------------------------

\* What SafeFree gives back of a context in pieces: the tables, the scratch
\* buffers and the state hold no pointer to a block that is still allocated,
\* and neither does the context once its state is gone.
LEMMA NothingStored ==
  ASSUME LifecycleInv, NEW t \in Threads, adapter[t] \in Adapters
  PROVE  /\ Stored(t, Tables[adapter[t]]) = {}
         /\ Stored(t, Scratch[adapter[t]]) = {}
         /\ pc[t] = "teardownState" => Stored(t, {"state"}) \intersect ptr[t] = {}
         /\ pc[t] = "cleanup" => Stored(t, {"ctx"}) \intersect ptr[t] = {}
<1> DEFINE a == adapter[t]
<1>1. /\ "ctx" \notin Tables[a] /\ "state" \notin Tables[a]
      /\ "ctx" \notin Scratch[a] /\ "state" \notin Scratch[a]
  BY Names
<1>2. Stored(t, Tables[a]) = {} /\ Stored(t, Scratch[a]) = {}
  BY <1>1 DEF Stored
<1>3. Stored(t, {"state"}) = Tables[a] /\ Stored(t, {"ctx"}) = {"state"} \union Tables[a]
  BY DEF Stored
<1>4. QED
  BY <1>1, <1>2, <1>3 DEF LifecycleInv, PlaceOwns

\* A step of ntt_destroy, or of the cleanup of ntt_create, preserves the
\* invariant.
LEMMA ReleaseKeeps ==
  ASSUME LifecycleInv, NEW t \in Threads, Release(t)
  PROVE  LifecycleInv'
<1> USE DEF LifecycleInv
<1>1. adapter[t] \in Adapters
  BY DEF Release, Destroy, TeardownTables, TeardownState, FreeContext, Goto, TypeOK, PlaceOwns
<1>2. CASE Destroy(t)
  <2>1. TypeOK'
    BY <1>2 DEF Destroy, Goto, TypeOK, Places
  <2>2. PlaceOwns(t)'
    BY <1>2 DEF Destroy, Goto, TypeOK, PlaceOwns, Whole
  <2>3. HeapMatchesPointers' /\ OthersKept(t)
    BY <1>2 DEF Destroy, Goto, TypeOK, HeapMatchesPointers, OthersKept
  <2>4. QED
    BY <2>1, <2>2, <2>3, LocalStep
<1>3. CASE TeardownTables(t)
  <2> DEFINE names == Tables[adapter[t]]
  <2>1. /\ HeapMatchesPointers' /\ ptr' \in [Threads -> SUBSET BlockNames]
        /\ heap' \subseteq Threads \X BlockNames
        /\ ptr'[t] = ptr[t] \ names
        /\ \A u \in Threads \ {t} : ptr'[u] = ptr[u]
    BY <1>1, <1>3, NothingStored, SafeFreeKeeps DEF TeardownTables, TypeOK
  <2>2. TypeOK'
    BY <1>3, <2>1 DEF TeardownTables, Goto, TypeOK, Places
  <2>3. PlaceOwns(t)'
    BY <1>1, <1>3, <2>1, Names DEF TeardownTables, Goto, TypeOK, PlaceOwns, Whole
  <2>4. OthersKept(t)
    BY <1>3, <2>1 DEF TeardownTables, Goto, TypeOK, OthersKept
  <2>5. QED
    BY <2>1, <2>2, <2>3, <2>4, LocalStep
<1>4. CASE TeardownState(t)
  <2>1. /\ HeapMatchesPointers' /\ ptr' \in [Threads -> SUBSET BlockNames]
        /\ heap' \subseteq Threads \X BlockNames
        /\ ptr'[t] = ptr[t] \ {"state"}
        /\ \A u \in Threads \ {t} : ptr'[u] = ptr[u]
    BY <1>1, <1>4, NothingStored, SafeFreeKeeps DEF TeardownState, Goto, TypeOK
  <2>2. TypeOK'
    BY <1>4, <2>1 DEF TeardownState, Goto, TypeOK, Places
  <2>3. PlaceOwns(t)'
    BY <1>1, <1>4, <2>1 DEF TeardownState, Goto, TypeOK, PlaceOwns
  <2>4. OthersKept(t)
    BY <1>4, <2>1 DEF TeardownState, Goto, TypeOK, OthersKept
  <2>5. QED
    BY <2>1, <2>2, <2>3, <2>4, LocalStep
<1>5. CASE FreeContext(t)
  <2>1. /\ HeapMatchesPointers' /\ ptr' \in [Threads -> SUBSET BlockNames]
        /\ heap' \subseteq Threads \X BlockNames
        /\ ptr'[t] = ptr[t] \ {"ctx"}
        /\ \A u \in Threads \ {t} : ptr'[u] = ptr[u]
    BY <1>1, <1>5, NothingStored, SafeFreeKeeps DEF FreeContext, Goto, TypeOK
  <2>2. TypeOK'
    BY <1>5, <2>1 DEF FreeContext, Forget, Goto, TypeOK, Places
  <2>3. PlaceOwns(t)'
    BY <1>1, <1>5, <2>1 DEF FreeContext, Forget, Goto, TypeOK, PlaceOwns
  <2>4. OthersKept(t)
    BY <1>5, <2>1 DEF FreeContext, Forget, Goto, TypeOK, OthersKept
  <2>5. QED
    BY <2>1, <2>2, <2>3, <2>4, LocalStep
<1>6. QED
  BY <1>2, <1>3, <1>4, <1>5 DEF Release

-----------------------------------------------------------------------------

\* A transform or a product, and its return, preserve the invariant.
LEMMA CallKeeps ==
  ASSUME LifecycleInv, NEW t \in Threads, Call(t)
  PROVE  LifecycleInv'
<1> USE DEF LifecycleInv
<1>1. CASE Transform(t)
  <2>1. TypeOK'
    BY <1>1 DEF Transform, Goto, TypeOK, Places
  <2>2. PlaceOwns(t)'
    BY <1>1 DEF Transform, Goto, TypeOK, PlaceOwns, Whole
  <2>3. HeapMatchesPointers' /\ OthersKept(t)
    BY <1>1 DEF Transform, Goto, TypeOK, HeapMatchesPointers, OthersKept
  <2>4. QED
    BY <2>1, <2>2, <2>3, LocalStep
<1>2. CASE Multiply(t)
  <2>1. adapter[t] \in Adapters
    BY <1>2 DEF Multiply, Goto, TypeOK, PlaceOwns
  <2>2. PICK got \in SUBSET Scratch[adapter[t]] : Calloc(t, got)
    BY <1>2 DEF Multiply
  <2>3. got \in SUBSET BlockNames
    BY <2>1, Names
  <2>4. /\ HeapMatchesPointers' /\ ptr' \in [Threads -> SUBSET BlockNames]
        /\ heap' \subseteq Threads \X BlockNames
        /\ ptr'[t] = ptr[t] \union got
        /\ \A u \in Threads \ {t} : ptr'[u] = ptr[u]
    BY <2>2, <2>3, CallocKeeps DEF TypeOK
  <2>5. TypeOK'
    BY <1>2, <2>4 DEF Multiply, Goto, TypeOK, Places
  <2>6. PlaceOwns(t)'
    BY <1>2, <2>1, <2>4 DEF Multiply, Goto, TypeOK, PlaceOwns, Whole
  <2>7. OthersKept(t)
    BY <1>2, <2>4 DEF Multiply, Goto, TypeOK, OthersKept
  <2>8. QED
    BY <2>4, <2>5, <2>6, <2>7, LocalStep
<1>3. CASE Return(t)
  <2> DEFINE names == Scratch[adapter[t]]
  <2>1. adapter[t] \in Adapters
    BY <1>3 DEF Return, Goto, TypeOK, PlaceOwns
  <2>2. /\ HeapMatchesPointers' /\ ptr' \in [Threads -> SUBSET BlockNames]
        /\ heap' \subseteq Threads \X BlockNames
        /\ ptr'[t] = ptr[t] \ names
        /\ \A u \in Threads \ {t} : ptr'[u] = ptr[u]
    BY <1>3, <2>1, NothingStored, SafeFreeKeeps DEF Return, TypeOK
  <2>3. TypeOK'
    BY <1>3, <2>2 DEF Return, Goto, TypeOK, Places
  <2>4. PlaceOwns(t)'
    BY <1>3, <2>1, <2>2, Names DEF Return, Goto, TypeOK, PlaceOwns, Whole
  <2>5. OthersKept(t)
    BY <1>3, <2>2 DEF Return, Goto, TypeOK, OthersKept
  <2>6. QED
    BY <2>2, <2>3, <2>4, <2>5, LocalStep
<1>4. CASE NullCall(t)
  BY <1>4 DEF NullCall, vars, TypeOK, HeapMatchesPointers, PlaceOwns, Whole
<1>5. QED
  BY <1>1, <1>2, <1>3, <1>4 DEF Call

\* A call on the configuration changes nothing else.
LEMMA ConfigCallKeeps ==
  ASSUME LifecycleInv, ConfigCall
  PROVE  LifecycleInv'
<1>1. /\ config' \in Configs \union {NULL}
      /\ UNCHANGED <<pc, adapter, resolved, ptr, heap>>
  BY LifecycleAssumption DEF ConfigCall, NewConfig, SetConfig, FreeConfig
<1>2. QED
  BY <1>1 DEF LifecycleInv, TypeOK, HeapMatchesPointers, PlaceOwns, Whole

\* No step of a thread writes the configuration.
LEMMA ThreadOnlyReads ==
  ASSUME NEW t \in Threads, NEW available, ThreadStep(t, available)
  PROVE  config' = config
BY DEF ThreadStep, Create, Release, Call, Validate, Reject, AllocContext,
       AllocContextFails, AllocState, SetupFails, AllocTables, Destroy,
       TeardownTables, TeardownState, FreeContext, Transform, Multiply, Return,
       NullCall, vars

\* At the start there is no configuration and no context.
LEMMA LifecycleInit == Init => LifecycleInv
<1> SUFFICES ASSUME Init
             PROVE  LifecycleInv
  OBVIOUS
<1>1. TypeOK
  BY DEF Init, TypeOK, Places
<1>2. HeapMatchesPointers
  BY DEF Init, HeapMatchesPointers
<1>3. \A t \in Threads : PlaceOwns(t)
  BY DEF Init, PlaceOwns
<1>4. QED
  BY <1>1, <1>2, <1>3 DEF LifecycleInv

\* Every step keeps the invariant, whichever adapters a thread may choose from.
LEMMA LifecycleStepKeeps ==
  ASSUME LifecycleInv,
         \/ ConfigCall
         \/ \E t \in Threads : \E available \in SUBSET Adapters : ThreadStep(t, available)
         \/ UNCHANGED vars
  PROVE  LifecycleInv'
<1>1. CASE \E t \in Threads : \E available \in SUBSET Adapters : ThreadStep(t, available)
  BY <1>1, CreateKeeps, ReleaseKeeps, CallKeeps DEF ThreadStep
<1>2. CASE UNCHANGED vars
  BY <1>2 DEF vars, LifecycleInv, TypeOK, HeapMatchesPointers, PlaceOwns, Whole
<1>3. QED
  BY <1>1, <1>2, ConfigCallKeeps

-----------------------------------------------------------------------------

\* Every thread owns in every reachable state what its place in its call says,
\* whichever allocations failed.
THEOREM LifecycleInvariant == Spec => []LifecycleInv
<1>1. LifecycleInv /\ [Next]_vars => LifecycleInv'
  BY LifecycleStepKeeps DEF Next
<1>2. QED
  BY LifecycleInit, <1>1, PTL DEF Spec

-----------------------------------------------------------------------------
(***************************************************************************)
(* The library in use                                                      *)
(***************************************************************************)

\* The loader of Application, with the theorems about it.
Proved == INSTANCE ModuleLoaderProofs WITH
  Answers <- [m \in Modules |-> {ModuleInit(m)}], Openable <- Modules, HasEntry <- Modules

\* An adapter in use was handed out, and what was handed out has passed the
\* handshake.
GivenOut == \A t \in Threads : adapter[t] \in Modules => adapter[t] \in handed
HandshakePassed == \A m \in handed : IsCompatible(MinVersion[m])

\* The inductive invariant.
AppInv == LifecycleInv /\ Proved!LoaderInv /\ GivenOut /\ HandshakePassed

-----------------------------------------------------------------------------

\* The loader's assumption holds of the modules of an application.
LEMMA LoaderAssumed == Proved!LoaderAssumption
<1>1. \A m \in Modules : ModuleInit(m) \in Proved!Descriptors \union {NULL}
  BY ApplicationAssumption DEF ModuleInit, Descriptor, Proved!Descriptors
<1>2. NULL \notin Modules
  BY ApplicationAssumption, LifecycleAssumption
<1>3. QED
  BY <1>1, <1>2, ApplicationAssumption DEF Proved!LoaderAssumption

\* Both instances of the loader take the same steps.
LEMMA SameLoads ==
  ASSUME NEW m \in Modules, NEW found, Loader!LoadFromDir(m, found)
  PROVE  Proved!LoadFromDir(m, found)
<1>1. Loader!LoadNotOpened(m) <=> Proved!LoadNotOpened(m)
  BY DEF Loader!LoadNotOpened, Proved!LoadNotOpened, Loader!loaderVars, Proved!loaderVars
<1>2. Loader!LoadRefused(m) <=> Proved!LoadRefused(m)
  BY DEF Loader!LoadRefused, Proved!LoadRefused, Loader!DlOpen, Proved!DlOpen,
         Loader!DlClose, Proved!DlClose, Loader!Compatible, Proved!Compatible
<1>3. Loader!Accepted(m) <=> Proved!Accepted(m)
  BY DEF Loader!Accepted, Proved!Accepted, Loader!Compatible, Proved!Compatible
<1>4. Loader!FreeSlots = Proved!FreeSlots
  BY DEF Loader!FreeSlots, Proved!FreeSlots, Loader!Slots, Proved!Slots
<1>5. Loader!CacheHandle(m) <=> Proved!CacheHandle(m)
  BY <1>4 DEF Loader!CacheHandle, Proved!CacheHandle
<1>6. Loader!LoadKept(m) <=> Proved!LoadKept(m)
  BY <1>3, <1>5 DEF Loader!LoadKept, Proved!LoadKept, Loader!DlOpen, Proved!DlOpen
<1>7. Loader!LoadSpilled(m) <=> Proved!LoadSpilled(m)
  BY <1>3, <1>4 DEF Loader!LoadSpilled, Proved!LoadSpilled, Loader!DlOpen,
                    Proved!DlOpen, Loader!DlClose, Proved!DlClose
<1>8. QED
  BY <1>1, <1>2, <1>6, <1>7 DEF Loader!LoadFromDir, Proved!LoadFromDir

\* They agree on unload_all too.
LEMMA SameUnload ==
  ASSUME Loader!UnloadAll
  PROVE  Proved!UnloadAll
<1>1. \A m : Loader!SlotsOf(m) = Proved!SlotsOf(m)
  BY DEF Loader!SlotsOf, Proved!SlotsOf, Loader!Slots, Proved!Slots
<1>2. \A m : Loader!Cardinality(Loader!SlotsOf(m)) = Proved!Cardinality(Proved!SlotsOf(m))
  BY <1>1, Zenon DEF Loader!Cardinality, Proved!Cardinality
<1>3. Loader!Slots = Proved!Slots
  BY DEF Loader!Slots, Proved!Slots
<1>4. QED
  BY <1>2, <1>3 DEF Loader!UnloadAll, Proved!UnloadAll

\* A step of a thread changes adapters only to available ones and to NULL.
LEMMA AdapterMoves ==
  ASSUME TypeOK, NEW t \in Threads, NEW available, ThreadStep(t, available), NEW u \in Threads
  PROVE  adapter'[u] \in {adapter[u], NULL} \union available
<1>1. CASE \E a \in available : Validate(t, a)
  BY <1>1 DEF Validate, TypeOK
<1>2. CASE AllocContextFails(t) \/ FreeContext(t)
  BY <1>2 DEF AllocContextFails, FreeContext, Forget, TypeOK
<1>3. CASE UNCHANGED adapter
  BY <1>3
<1>4. QED
  BY <1>1, <1>2, <1>3
  DEF ThreadStep, Create, Release, Call, Reject, AllocContext, AllocState, SetupFails,
      AllocTables, Destroy, TeardownTables, TeardownState, Transform, Multiply, Return,
      NullCall, vars

-----------------------------------------------------------------------------

\* At the start nothing is loaded, and no thread has a context.
LEMMA AppInitInv == AppInit => AppInv
<1> SUFFICES ASSUME AppInit
             PROVE  AppInv
  OBVIOUS
<1>1. Proved!Init
  BY DEF AppInit, Loader!Init, Proved!Init, Loader!Slots, Proved!Slots
<1>2. Proved!LoaderInv
  BY <1>1, LoaderAssumed, Proved!InitInv
<1>3. GivenOut
  BY ApplicationAssumption, LifecycleAssumption DEF AppInit, Init, GivenOut
<1>4. HandshakePassed
  BY <1>1 DEF Proved!Init, HandshakePassed
<1>5. QED
  BY <1>2, <1>3, <1>4, LifecycleInit DEF AppInit, AppInv

\* Steps of the threads: the loader does not move, and an adapter taken into
\* use was handed out.
LEMMA LifecycleStepInv ==
  ASSUME AppInv, LifecycleStep
  PROVE  AppInv'
<1> USE DEF AppInv
<1>1. UNCHANGED <<loaded, refs, handed>>
  BY DEF LifecycleStep, loaderVars
<1>2. Available \in SUBSET Adapters
  BY ApplicationAssumption DEF Available, Proved!LoaderInv, Proved!TypeOK
<1>3. LifecycleInv'
  BY <1>2, LifecycleStepKeeps DEF LifecycleStep
<1>4. Proved!LoaderInv'
  BY <1>1, LoaderAssumed, Proved!NextInv DEF Proved!loaderVars
<1>5. GivenOut'
  <2>1. CASE ConfigCall
    BY <1>1, <2>1 DEF ConfigCall, NewConfig, SetConfig, FreeConfig, GivenOut
  <2>2. ASSUME NEW t \in Threads, ThreadStep(t, Available), NEW u \in Threads,
               adapter'[u] \in Modules
        PROVE  adapter'[u] \in handed
    BY <2>2, AdapterMoves, ApplicationAssumption, LifecycleAssumption
    DEF LifecycleInv, Available, GivenOut
  <2>3. QED
    BY <1>1, <2>1, <2>2 DEF LifecycleStep, GivenOut
<1>6. HandshakePassed'
  BY <1>1 DEF HandshakePassed
<1>7. QED
  BY <1>3, <1>4, <1>5, <1>6

\* A load hands out nothing that has not passed the handshake, and takes
\* nothing back.
LEMMA LoadInv ==
  ASSUME AppInv, NEW m \in Modules, NEW found \in {m, NULL}, Load(m, found)
  PROVE  AppInv'
<1> USE DEF AppInv
<1>1. UNCHANGED vars /\ Proved!LoadFromDir(m, found)
  BY SameLoads DEF Load
<1>2. LifecycleInv'
  BY <1>1, LifecycleStepKeeps
<1>3. Proved!LoaderInv'
  BY <1>1, LoaderAssumed, Proved!NextInv DEF Proved!Next
<1>4. \/ handed' = handed
      \/ Proved!Accepted(m) /\ handed' = handed \union {m}
  BY <1>1 DEF Proved!LoadFromDir, Proved!LoadNotOpened, Proved!LoadRefused, Proved!LoadKept,
              Proved!LoadSpilled, Proved!loaderVars
<1>5. Proved!Accepted(m) => IsCompatible(MinVersion[m])
  BY DEF Proved!Accepted, Proved!Compatible, ModuleInit
<1>6. GivenOut' /\ HandshakePassed'
  BY <1>1, <1>4, <1>5 DEF vars, GivenOut, HandshakePassed
<1>7. QED
  BY <1>2, <1>3, <1>6

\* unload_all takes back what no thread has in use.
LEMMA UnloadInv ==
  ASSUME AppInv, UnloadAll
  PROVE  AppInv'
<1> USE DEF AppInv
<1>1. UNCHANGED vars /\ Proved!UnloadAll
  BY SameUnload DEF UnloadAll
<1>2. LifecycleInv'
  BY <1>1, LifecycleStepKeeps
<1>3. Proved!LoaderInv'
  BY <1>1, LoaderAssumed, Proved!NextInv DEF Proved!Next
<1>4. GivenOut' /\ HandshakePassed'
  BY <1>1 DEF UnloadAll, Proved!UnloadAll, vars, GivenOut, HandshakePassed
<1>5. QED
  BY <1>2, <1>3, <1>4

\* Every reachable state of an application satisfies the invariant.
THEOREM AppInvariant == AppSpec => []AppInv
<1>1. AppInv /\ [AppNext]_appVars => AppInv'
  <2>1. ASSUME AppInv, UNCHANGED appVars
        PROVE  AppInv'
    <3>1. UNCHANGED vars /\ UNCHANGED <<loaded, refs, handed>>
      BY <2>1 DEF appVars, loaderVars
    <3>2. LifecycleInv'
      BY <2>1, <3>1, LifecycleStepKeeps DEF AppInv
    <3>3. Proved!LoaderInv'
      BY <2>1, <3>1, LoaderAssumed, Proved!NextInv DEF Proved!loaderVars, AppInv
    <3>4. GivenOut' /\ HandshakePassed'
      BY <2>1, <3>1 DEF AppInv, vars, GivenOut, HandshakePassed
    <3>5. QED
      BY <3>2, <3>3, <3>4 DEF AppInv
  <2>2. QED
    BY <2>1, LifecycleStepInv, LoadInv, UnloadInv DEF AppNext
<1>2. QED
  BY AppInitInv, <1>1, PTL DEF AppSpec

-----------------------------------------------------------------------------

\* Whatever fails and however the steps of threads and loads interleave, the
\* state is well typed.
THEOREM AppTypeOK == AppSpec => []TypeOK
BY AppInvariant, PTL DEF AppInv, LifecycleInv

\* Nothing leaks and nothing is freed twice (ntt_create, ntt_destroy, the
\* setup and teardown of the adapters).
THEOREM AppHeapMatches == AppSpec => []HeapMatchesPointers
BY AppInvariant, PTL DEF AppInv, LifecycleInv

\* A context is whole where a transform may run on it, and a thread without
\* one owns no memory.
THEOREM AppOwns == AppSpec => []OwnsWhatItShould
<1>1. AppInv => OwnsWhatItShould
  BY DEF AppInv, LifecycleInv, PlaceOwns, OwnsWhatItShould
<1>2. QED
  BY <1>1, AppInvariant, PTL

\* No call but those of its owner writes the configuration.
THEOREM AppConfigUntouched == AppSpec => CallerConfigUntouched
<1>1. [AppNext]_appVars => [config' # config => ConfigCall]_vars
  BY ThreadOnlyReads DEF AppNext, LifecycleStep, Load, UnloadAll, appVars, vars
<1>2. QED
  BY <1>1, PTL DEF AppSpec, CallerConfigUntouched

\* While a slot is free, what a context calls is mapped.
THEOREM AppContextsResident == AppSpec => []ContextsResident
<1>1. AppInv => ContextsResident
  <2>1. Loader!FreeSlots = Proved!FreeSlots
    BY DEF Loader!FreeSlots, Proved!FreeSlots, Loader!Slots, Proved!Slots
  <2>2. \A m : Loader!Resident(m) <=> Proved!Resident(m)
    BY DEF Loader!Resident, Proved!Resident
  <2>3. QED
    BY <2>1, <2>2 DEF AppInv, GivenOut, Proved!LoaderInv, Proved!HandedOutResident,
                      ContextsResident
<1>2. QED
  BY <1>1, AppInvariant, PTL

\* If the built-in adapters, compiled against the core, look up only what it
\* has, no adapter in use looks up anything it does not find.
THEOREM AppLookupsSucceed ==
  ASSUME \A a \in Adapters \ Modules : \A id \in Uses[a] : Found(id)
  PROVE  AppSpec => []LookupsSucceed
<1>1. \A id \in Range(CoreOps) \ {"none"} : Found(id)
  BY DEF Range, CoreOps, Found
<1>2. \A m \in Modules : IsCompatible(MinVersion[m]) => \A id \in Uses[m] : Found(id)
  BY <1>1, ApplicationAssumption DEF IsCompatible
<1>3. AppInv => LookupsSucceed
  BY <1>2 DEF AppInv, LifecycleInv, TypeOK, GivenOut, HandshakePassed, LookupsSucceed
<1>4. QED
  BY <1>3, AppInvariant, PTL

=============================================================================
