----------------------------- MODULE ModuleLoader -----------------------------
(***************************************************************************)
(* The module loader of libntt (src/common/ntt_module.c): the table of     *)
(* handles that keeps adapter modules mapped, on top of the reference      *)
(* counts of the dynamic linker.  Calls are not interleaved: the library   *)
(* takes no lock and leaves it to the application to serialise them.       *)
(***************************************************************************)
EXTENDS LoaderParameters, FiniteSets

VARIABLES
  loaded,   \* ntt__loaded: slot -> module whose handle it holds, or NULL
  refs,     \* the dynamic linker's reference count of each module
  handed    \* modules whose adapter was returned since the last unload

loaderVars == <<loaded, refs, handed>>

Slots == 1 .. MaxLoaded
FreeSlots == {i \in Slots : loaded[i] = NULL}
SlotsOf(m) == {i \in Slots : loaded[i] = m}

\* A module's code and its descriptor exist in memory.
Resident(m) == refs[m] > 0

-----------------------------------------------------------------------------

\* The dynamic linker: opening a mapped library again only counts.
DlOpen(r, m) == [r EXCEPT ![m] = @ + 1]
DlClose(r, m) == [r EXCEPT ![m] = @ - 1]

\* ntt__adapter_is_compatible
Compatible(d) ==
  /\ d # NULL
  /\ d.abi <= AbiVersion
  /\ d.size >= RequiredSize

\* ntt__module_cache_handle: the first free slot takes the handle.
CacheHandle(m) ==
  \E i \in FreeSlots :
    /\ \A j \in 1 .. (i - 1) : loaded[j] # NULL
    /\ loaded' = [loaded EXCEPT ![i] = m]

Init ==
  /\ loaded = [i \in Slots |-> NULL]
  /\ refs = [m \in Modules |-> 0]
  /\ handed = {}

\* The path cannot be allocated, or dlopen fails.
LoadNotOpened(m) == UNCHANGED loaderVars

\* Faulty variants: the refused handle is leaked, or closed twice.
LoadRefusedLeaking(m) ==
  /\ m \in Openable
  /\ m \notin HasEntry \/ \E d \in Answers[m] : ~Compatible(d)
  /\ refs' = DlOpen(refs, m)
  /\ UNCHANGED <<loaded, handed>>

LoadRefusedClosingTwice(m) ==
  /\ m \in Openable
  /\ m \notin HasEntry \/ \E d \in Answers[m] : ~Compatible(d)
  /\ refs' = DlClose(refs, m)
  /\ UNCHANGED <<loaded, handed>>

\* The entry is missing, it refuses the core, or its descriptor does not fit:
\* the handle is closed and NULL returned.
LoadRefused(m) ==
  /\ m \in Openable
  /\ m \notin HasEntry \/ \E d \in Answers[m] : ~Compatible(d)
  /\ refs' = DlClose(DlOpen(refs, m), m)
  /\ UNCHANGED <<loaded, handed>>

\* The entry returns a descriptor the library accepts.
Accepted(m) ==
  /\ m \in Openable
  /\ m \in HasEntry
  /\ \E d \in Answers[m] : Compatible(d)

\* Faulty variant: the kept handle is closed as a refused one is.
LoadKeptClosing(m) ==
  /\ Accepted(m)
  /\ CacheHandle(m)
  /\ refs' = DlClose(DlOpen(refs, m), m)
  /\ handed' = handed \union {m}

\* A slot is free: it takes the handle.
LoadKept(m) ==
  /\ Accepted(m)
  /\ CacheHandle(m)
  /\ refs' = DlOpen(refs, m)
  /\ handed' = handed \union {m}

\* No slot is free: the handle is closed, the adapter returned all the same.
LoadSpilled(m) ==
  /\ Accepted(m)
  /\ FreeSlots = {}
  /\ refs' = DlClose(DlOpen(refs, m), m)
  /\ handed' = handed \union {m}
  /\ UNCHANGED loaded

\* ntt__module_load_from_dir, returning adapter
LoadFromDir(m, adapter) ==
  \/ LoadNotOpened(m) /\ adapter = NULL
  \/ LoadRefused(m) /\ adapter = NULL
  \/ LoadKept(m) /\ adapter = m
  \/ LoadSpilled(m) /\ adapter = m

\* Faulty variant: the handles are closed and stay in the table.
UnloadAllKeepingTable ==
  /\ refs' = [m \in Modules |-> refs[m] - Cardinality(SlotsOf(m))]
  /\ handed' = {}
  /\ UNCHANGED loaded

\* ntt__module_unload_all.  The adapters handed out are void from here on.
UnloadAll ==
  /\ refs' = [m \in Modules |-> refs[m] - Cardinality(SlotsOf(m))]
  /\ loaded' = [i \in Slots |-> NULL]
  /\ handed' = {}

Next ==
  \/ \E m \in Modules : \E adapter \in {m, NULL} : LoadFromDir(m, adapter)
  \/ UnloadAll

Spec == Init /\ [][Next]_loaderVars

-----------------------------------------------------------------------------

TypeOK ==
  /\ loaded \in [Slots -> Modules \union {NULL}]
  /\ refs \in [Modules -> Nat]
  /\ handed \subseteq Modules

(***************************************************************************)
(* Between two calls the linker counts exactly the handles the table       *)
(* holds: no path of a load leaks a handle, and unload_all closes every    *)
(* handle once, however often one module was loaded.                       *)
(***************************************************************************)
HandlesBalanced == \A m \in Modules : refs[m] = Cardinality(SlotsOf(m))

(***************************************************************************)
(* While a slot is free, every adapter returned since the last unload_all  *)
(* is backed by mapped code.                                               *)
(***************************************************************************)
HandedOutResident == FreeSlots # {} => \A m \in handed : Resident(m)

(***************************************************************************)
(* The same without the condition, as docs/ARCHITECTURE.md has it: "the    *)
(* module handle remains resident so that the vtable inside it cannot      *)
(* dangle".                                                                *)
(***************************************************************************)
HandedOutAlwaysResident == \A m \in handed : Resident(m)

(***************************************************************************)
(* Nothing but unload_all unmaps a module: the dlclose of a refused or     *)
(* unkept load never gives back a reference an earlier load holds.         *)
(***************************************************************************)
OnlyUnloadAllUnmaps ==
  [][(\E m \in Modules : Resident(m) /\ ~Resident(m)') => UnloadAll]_loaderVars

\* The loader implements the abstract residency contract.
Residency == INSTANCE ModuleResidency
  WITH resident <- {m \in Modules : Resident(m)}, room <- Cardinality(FreeSlots)

Refinement == Residency!Spec

=============================================================================
