---------------------------- MODULE MCModuleLoader ----------------------------
(***************************************************************************)
(* A loader with four slots and one module of each kind: three sound ones *)
(* (one of which sometimes refuses), one without the entry symbol, one too *)
(* new, one too small, and one whose file is missing.                      *)
(***************************************************************************)
EXTENDS ModuleLoader, TLC

CONSTANTS a, b, flaky, plain, tooNew, small, missing

MCModules == {a, b, flaky, plain, tooNew, small, missing}
MCOpenable == MCModules \ {missing}
MCHasEntry == MCModules \ {plain}

Sound == [abi |-> 1, size |-> 88]

MCAnswers == [m \in MCModules |->
  CASE m = flaky  -> {Sound, NULL}
    [] m = tooNew -> {[abi |-> 2, size |-> 96]}
    [] m = small  -> {[abi |-> 1, size |-> 80]}
    [] OTHER      -> {Sound}]

\* refs are bounded by the slots, so no state constraint is needed
=============================================================================
