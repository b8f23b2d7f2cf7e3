----------------------------- MODULE Application -----------------------------
(***************************************************************************)
(* The library as an application uses it: threads create, use and destroy  *)
(* contexts (ContextLifecycle) of built-in adapters and of adapters the    *)
(* module loader handed out (ModuleLoader), whose modules take what they   *)
(* need of the library from the core API (CoreApi).  Loads run between the *)
(* steps of the threads.                                                   *)
(***************************************************************************)
EXTENDS ContextLifecycle, CoreApi

LOCAL INSTANCE Functions

CONSTANTS
  Modules,      \* those of the adapters that are modules
  MinVersion,   \* MinVersion[m]: the core version m was built against
  Uses,         \* Uses[a]: ids adapter a looks up in validation and setup
  MaxLoaded, AbiVersion, RequiredSize

ASSUME ApplicationAssumption ==
  /\ Modules \subseteq Adapters
  /\ MinVersion \in [Modules -> Nat]
  \* ids are only ever appended, and a module uses those of its version
  /\ \A m \in Modules :
       MinVersion[m] <= CoreVersion => Uses[m] \subseteq Range(CoreOps) \ {"none"}
  /\ MaxLoaded \in Nat \ {0} /\ AbiVersion \in Nat /\ RequiredSize \in Nat

VARIABLES loaded, refs, handed  \* the module loader

loaderVars == <<loaded, refs, handed>>
appVars == <<vars, loaderVars>>

Descriptor == [abi |-> AbiVersion, size |-> RequiredSize]

\* ntt_adapter_module_init of a module: the handshake, then its descriptor
ModuleInit(m) == IF IsCompatible(MinVersion[m]) THEN Descriptor ELSE NULL

Loader == INSTANCE ModuleLoader WITH
  Answers <- [m \in Modules |-> {ModuleInit(m)}], Openable <- Modules, HasEntry <- Modules

AppInit == Init /\ Loader!Init

\* An adapter is a descriptor the library has, or one it handed out.
Available == (Adapters \ Modules) \union handed

LifecycleStep ==
  /\ ConfigCall \/ \E t \in Threads : ThreadStep(t, Available)
  /\ UNCHANGED loaderVars

\* ntt_adapter_load with a directory, or a default that names a module
Load(m, found) ==
  /\ Loader!LoadFromDir(m, found)
  /\ UNCHANGED vars

\* "Existing ntt_ctx objects created from a dynamically loaded adapter must be
\* destroyed before calling this function" (ntt_adapter.h).  That the default
\* is reset too is in DefaultAdapter.
UnloadAll ==
  /\ \A t \in Threads : adapter[t] \notin Modules
  /\ Loader!UnloadAll
  /\ UNCHANGED vars

AppNext ==
  \/ LifecycleStep
  \/ \E m \in Modules : \E found \in {m, NULL} : Load(m, found)
  \/ UnloadAll

AppSpec == AppInit /\ [][AppNext]_appVars

-----------------------------------------------------------------------------

(***************************************************************************)
(* While the table of handles has room, a thread in ntt_create, with a     *)
(* context or in ntt_destroy calls into mapped code, whatever other        *)
(* threads load meanwhile, provided the application keeps the rule for     *)
(* unload_all.                                                             *)
(***************************************************************************)
ContextsResident ==
  Loader!FreeSlots # {} =>
    \A t \in Threads : adapter[t] \in Modules => Loader!Resident(adapter[t])

(***************************************************************************)
(* ntt_core.h: "ntt_core_find() on any id the module references is         *)
(* present": the accessors dereference what they find without a look, and  *)
(* only the handshake of the load keeps a module built against a newer     *)
(* core from running.                                                      *)
(***************************************************************************)
LookupsSucceed ==
  \A t \in Threads : adapter[t] # NULL => \A id \in Uses[adapter[t]] : Found(id)

=============================================================================
