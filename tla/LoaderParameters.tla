--------------------------- MODULE LoaderParameters ---------------------------
(***************************************************************************)
(* What the module loader of libntt works on: shared libraries, what their *)
(* entries may answer, and the constants of the library.                   *)
(***************************************************************************)
EXTENDS Naturals

CONSTANTS
  Modules,       \* shared libraries a load can name (directory and name)
  Answers,       \* Answers[m]: the descriptors m's entry may return, NULL
                 \* standing for a nonzero status or a NULL adapter
  Openable,      \* modules whose file exists and can be mapped
  HasEntry,      \* modules exporting ntt_adapter_module_init
  MaxLoaded,     \* NTT_MAX_LOADED_MODULES
  AbiVersion,    \* NTT_ADAPTER_ABI_VERSION
  RequiredSize,  \* size of a descriptor up to and including negacyclic_mul
  NULL

Descriptors == [abi : Nat, size : Nat]

ASSUME LoaderAssumption ==
  /\ MaxLoaded \in Nat \ {0}
  /\ AbiVersion \in Nat
  /\ RequiredSize \in Nat
  /\ NULL \notin Modules
  /\ Answers \in [Modules -> SUBSET (Descriptors \union {NULL})]

=============================================================================
