--------------------------- MODULE ModuleResidency ---------------------------
(***************************************************************************)
(* What the module loader promises, without slots or reference counts: a   *)
(* module that was loaded is mapped until everything is unloaded, and only *)
(* so many loads are kept between two unloads.                             *)
(***************************************************************************)
EXTENDS Naturals

CONSTANTS
  Modules,    \* shared libraries on disk
  MaxLoaded   \* loads kept between two calls of unload_all

VARIABLES
  resident,   \* modules mapped into the process
  room        \* loads the loader will still keep

residencyVars == <<resident, room>>

Init ==
  /\ resident = {}
  /\ room = MaxLoaded

\* A kept load maps the module, if it is not mapped yet, and uses up room.
Keep(m) ==
  /\ room > 0
  /\ resident' = resident \union {m}
  /\ room' = room - 1

\* Everything is unmapped at once; nothing else ever unmaps a module.
UnloadAll ==
  /\ resident' = {}
  /\ room' = MaxLoaded

Next ==
  \/ \E m \in Modules : Keep(m)
  \/ UnloadAll

Spec == Init /\ [][Next]_residencyVars

=============================================================================
