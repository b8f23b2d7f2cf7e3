--------------------------- MODULE ContextLifecycle ---------------------------
(***************************************************************************)
(* ntt_create, the dispatching calls and ntt_destroy (src/common/ntt_ctx.c *)
(* and ntt_api.c) with the setup and teardown of the adapters, on a heap   *)
(* whose every allocation may fail.  Threads create contexts of their own  *)
(* from one configuration they share and only read.                        *)
(***************************************************************************)
EXTENDS Naturals, FiniteSets

CONSTANTS
  Threads,
  Adapters,
  Tables,          \* Tables[a]: what setup of a allocates besides its state
  Scratch,         \* Scratch[a]: what one negacyclic_mul of a allocates
  SupportedFlags,  \* SupportedFlags[a]: the flags of a's descriptor
  Configs,         \* values of the shared configuration object
  ZeroConfig,      \* the one a new object has
  NULL

\* What the tables of an adapter state may be called
BlockNames == (UNION {Tables[a] \union Scratch[a] : a \in Adapters}) \union {"ctx", "state"}

ASSUME LifecycleAssumption ==
  /\ \A a \in Adapters : {"ctx", "state"} \intersect (Tables[a] \union Scratch[a]) = {}
  /\ \A a \in Adapters : Tables[a] \intersect Scratch[a] = {}
  /\ NULL \notin Adapters /\ NULL \notin Configs
  /\ ZeroConfig \in Configs

VARIABLES
  config,    \* the caller's ntt_config, or NULL
  pc,        \* where in a call each thread is
  adapter,   \* the adapter of the thread's context, or NULL
  resolved,  \* the thread's private copy of the configuration, or NULL
  ptr,       \* names of the blocks the thread still has a pointer to
  heap       \* the allocated blocks

vars == <<config, pc, adapter, resolved, ptr, heap>>

Init ==
  /\ config = NULL
  /\ pc = [t \in Threads |-> "idle"]
  /\ adapter = [t \in Threads |-> NULL]
  /\ resolved = [t \in Threads |-> NULL]
  /\ ptr = [t \in Threads |-> {}]
  /\ heap = {}

-----------------------------------------------------------------------------

Goto(t, from, to) ==
  /\ pc[t] = from
  /\ pc' = [pc EXCEPT ![t] = to]

\* Blocks allocated for t, and their pointers stored.
Calloc(t, names) ==
  /\ ptr' = [ptr EXCEPT ![t] = @ \union names]
  /\ heap' = heap \union ({t} \X names)

\* The pointers a block holds are lost when it is cleared and freed.
Stored(t, names) ==
  CASE "ctx" \in names -> {"state"} \union Tables[adapter[t]]
    [] "state" \in names -> Tables[adapter[t]]
    [] OTHER -> {}

\* SAFE_FREE of each name: a NULL pointer is left alone, another one becomes
\* NULL.
SafeFree(t, names) ==
  /\ heap' = heap \ ({t} \X (names \intersect ptr[t]))
  /\ ptr' = [ptr EXCEPT ![t] = @ \ (names \union Stored(t, names))]

\* The thread is left without a context.
Forget(t) ==
  /\ adapter' = [adapter EXCEPT ![t] = NULL]
  /\ resolved' = [resolved EXCEPT ![t] = NULL]

-----------------------------------------------------------------------------

\* The owner of the configuration changes it only while no thread is in
\* ntt_create, which reads it.
Creating == \E t \in Threads : pc[t] \in {"validated", "setup", "tables"}

\* ntt_config_new; without memory it returns NULL and nothing changes.
NewConfig ==
  /\ config = NULL
  /\ config' = ZeroConfig
  /\ UNCHANGED <<pc, adapter, resolved, ptr, heap>>

\* Any sequence of the ntt_config setters.
SetConfig ==
  /\ config # NULL
  /\ ~Creating
  /\ config' \in Configs
  /\ UNCHANGED <<pc, adapter, resolved, ptr, heap>>

FreeConfig ==
  /\ config # NULL
  /\ ~Creating
  /\ config' = NULL
  /\ UNCHANGED <<pc, adapter, resolved, ptr, heap>>

ConfigCall == NewConfig \/ SetConfig \/ FreeConfig

-----------------------------------------------------------------------------

\* The checks of ntt_create up to root resolution: validate_modulus, the
\* supported flags, the transform parameters, and roots that can be resolved.
Acceptable(a, c) ==
  /\ c # NULL
  /\ c.domainValid
  /\ c.flags \subseteq SupportedFlags[a]

\* The roots left at zero are filled in.
ResolveRoots(c) == [c EXCEPT !.roots = "resolved"]

\* ntt_create refuses before it allocates anything.
Reject(t, a) ==
  /\ pc[t] = "idle"
  /\ ~Acceptable(a, config)
  /\ UNCHANGED vars

\* Faulty variants: setup is given the caller's configuration, or that one
\* takes the roots.
ValidateUnresolved(t, a) ==
  /\ Acceptable(a, config)
  /\ Goto(t, "idle", "validated")
  /\ adapter' = [adapter EXCEPT ![t] = a]
  /\ resolved' = [resolved EXCEPT ![t] = config]
  /\ UNCHANGED <<config, ptr, heap>>

ValidateInPlace(t, a) ==
  /\ Acceptable(a, config)
  /\ Goto(t, "idle", "validated")
  /\ adapter' = [adapter EXCEPT ![t] = a]
  /\ config' = ResolveRoots(config)
  /\ resolved' = [resolved EXCEPT ![t] = config']
  /\ UNCHANGED <<ptr, heap>>

\* ntt_create up to root resolution, which works on a private copy.
Validate(t, a) ==
  /\ Acceptable(a, config)
  /\ Goto(t, "idle", "validated")
  /\ adapter' = [adapter EXCEPT ![t] = a]
  /\ resolved' = [resolved EXCEPT ![t] = ResolveRoots(config)]
  /\ UNCHANGED <<config, ptr, heap>>

AllocContext(t) ==
  /\ Goto(t, "validated", "setup")
  /\ Calloc(t, {"ctx"})
  /\ UNCHANGED <<config, adapter, resolved>>

AllocContextFails(t) ==
  /\ Goto(t, "validated", "idle")
  /\ Forget(t)
  /\ UNCHANGED <<config, ptr, heap>>

\* The adapter's setup: two reductions at once are refused, and so is a
\* setup without memory for its state.
SetupFails(t) ==
  /\ Goto(t, "setup", "cleanup")
  /\ UNCHANGED <<config, adapter, resolved, ptr, heap>>

AllocState(t) ==
  /\ Goto(t, "setup", "tables")
  /\ Cardinality(resolved[t].flags) < 2
  /\ Calloc(t, {"state"})
  /\ UNCHANGED <<config, adapter, resolved>>

\* Setup asks for all its tables before it looks whether it got them.
AllocTables(t) ==
  /\ pc[t] = "tables"
  /\ \E got \in SUBSET Tables[adapter[t]] :
       /\ pc' = [pc EXCEPT ![t] = IF got = Tables[adapter[t]] THEN "live" ELSE "teardown"]
       /\ Calloc(t, got)
  /\ UNCHANGED <<config, adapter, resolved>>

\* The adapter's teardown: of a state set up in part, or by ntt_destroy.
TeardownTables(t) ==
  /\ Goto(t, "teardown", "teardownState")
  /\ SafeFree(t, Tables[adapter[t]])
  /\ UNCHANGED <<config, adapter, resolved>>

TeardownState(t) ==
  /\ Goto(t, "teardownState", "cleanup")
  /\ SafeFree(t, {"state"})
  /\ UNCHANGED <<config, adapter, resolved>>

\* The end of ntt_destroy, and of ntt_create when setup returned NULL.
FreeContext(t) ==
  /\ Goto(t, "cleanup", "idle")
  /\ SafeFree(t, {"ctx"})
  /\ Forget(t)
  /\ UNCHANGED config

\* Faulty variant: the tables are forgotten.
DestroyStateOnly(t) ==
  /\ Goto(t, "live", "teardownState")
  /\ UNCHANGED <<config, adapter, resolved, ptr, heap>>

Destroy(t) ==
  /\ Goto(t, "live", "teardown")
  /\ UNCHANGED <<config, adapter, resolved, ptr, heap>>

\* ntt_destroy(NULL), and a transform of a NULL context: refused.
NullCall(t) ==
  /\ pc[t] = "idle"
  /\ UNCHANGED vars

\* ntt_forward, ntt_inverse: one indirect call that allocates nothing.
Transform(t) ==
  /\ Goto(t, "live", "running")
  /\ UNCHANGED <<config, adapter, resolved, ptr, heap>>

\* ntt_negacyclic_mul: the adapter may need buffers for the call, and get
\* only some of them.
Multiply(t) ==
  /\ Goto(t, "live", "running")
  /\ \E got \in SUBSET Scratch[adapter[t]] : Calloc(t, got)
  /\ UNCHANGED <<config, adapter, resolved>>

\* Faulty variant: an error returns past the cleanup.
ReturnEarly(t) ==
  /\ Goto(t, "running", "live")
  /\ IF Scratch[adapter[t]] \subseteq ptr[t]
       THEN SafeFree(t, Scratch[adapter[t]])
       ELSE UNCHANGED <<ptr, heap>>
  /\ UNCHANGED <<config, adapter, resolved>>

\* The call ends, with NTT_OK or not: both ways free the buffers.
Return(t) ==
  /\ Goto(t, "running", "live")
  /\ SafeFree(t, Scratch[adapter[t]])
  /\ UNCHANGED <<config, adapter, resolved>>

\* The caller has the descriptors of the adapters available.
Create(t, available) ==
  \/ \E a \in available : Validate(t, a) \/ Reject(t, a)
  \/ AllocContext(t) \/ AllocContextFails(t)
  \/ AllocState(t) \/ SetupFails(t) \/ AllocTables(t)

Release(t) ==
  Destroy(t) \/ TeardownTables(t) \/ TeardownState(t) \/ FreeContext(t)

Call(t) == Transform(t) \/ Multiply(t) \/ Return(t) \/ NullCall(t)

ThreadStep(t, available) == Create(t, available) \/ Release(t) \/ Call(t)

Next == ConfigCall \/ \E t \in Threads : ThreadStep(t, Adapters)

Spec == Init /\ [][Next]_vars

-----------------------------------------------------------------------------

Places ==
  {"idle", "validated", "setup", "tables", "live", "running", "teardown",
   "teardownState", "cleanup"}

TypeOK ==
  /\ config \in Configs \union {NULL}
  /\ pc \in [Threads -> Places]
  /\ adapter \in [Threads -> Adapters \union {NULL}]
  /\ resolved \in [Threads -> {ResolveRoots(c) : c \in Configs} \union {NULL}]
  /\ ptr \in [Threads -> SUBSET BlockNames]
  /\ heap \subseteq Threads \X BlockNames

(***************************************************************************)
(* Every allocated block is reachable by a pointer and every pointer leads *)
(* to an allocated block: whichever allocation fails, nothing leaks and    *)
(* nothing is freed twice.                                                 *)
(***************************************************************************)
HeapMatchesPointers == heap = {b \in Threads \X BlockNames : b[2] \in ptr[b[1]]}

(***************************************************************************)
(* A thread outside any call, holding no context, owns no memory; one with *)
(* a context owns what the context is made of and no more; and the         *)
(* adapter's transforms only run on a state set up completely.             *)
(***************************************************************************)
Whole(t) == {"ctx", "state"} \union Tables[adapter[t]]

OwnsWhatItShould ==
  \A t \in Threads :
    /\ pc[t] \in {"idle", "validated"} => ptr[t] = {}
    /\ pc[t] = "live" => ptr[t] = Whole(t)
    /\ pc[t] = "running" => Whole(t) \subseteq ptr[t]

(***************************************************************************)
(* Only its owner writes the configuration: no step of any other call      *)
(* does, so threads may share it.  Roots are resolved in a private copy.   *)
(***************************************************************************)
CallerConfigUntouched == [][config' # config => ConfigCall]_vars

=============================================================================
