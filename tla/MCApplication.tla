---------------------------- MODULE MCApplication ----------------------------
(***************************************************************************)
(* Two threads; the built-in adapters and three modules with the blocks    *)
(* they allocate: naive, built against this core; older, built against one *)
(* before, which keeps nothing but its state; and newer, naive built       *)
(* against the next core, of which it uses an id more.  Two slots.         *)
(***************************************************************************)
EXTENDS Application

CONSTANTS Scalar, ScalarToy, naive, older, newer, t1, t2

MCModules == {naive, older, newer}
MCAdapters == {Scalar, ScalarToy} \union MCModules
MCThreads == {t1, t2}

MCTables == [a \in MCAdapters |->
  CASE a = Scalar -> {"fwd_twiddle", "inv_twiddle", "ta", "tb", "bitrev"}
    [] a = older  -> {}
    [] OTHER      -> {"psi_pow", "psi_inv_pow"}]

\* scalar multiplies in its tables ta and tb, the others in fresh buffers
MCScratch == [a \in MCAdapters |->
  IF a \in {Scalar, older} THEN {} ELSE {"mul_ta", "mul_tb"}]

MCSupportedFlags == [a \in MCAdapters |->
  IF a = Scalar THEN {"barrett", "montgomery"} ELSE {}]

MCConfigs ==
  [domainValid : BOOLEAN, flags : {{}, {"barrett"}, {"barrett", "montgomery"}},
   roots : {"unset", "resolved"}]

\* q = 0 is no modulus
MCZeroConfig == [domainValid |-> FALSE, flags |-> {}, roots |-> "unset"]

MCUses == [a \in MCAdapters |->
  CASE a = Scalar    -> ScalarValidateUses \union ScalarSetupUses
    [] a = ScalarToy -> ToyUses
    [] a = naive     -> NaiveUses
    [] a = older     -> {"config_get_modulus", "config_get_size"}
    [] a = newer     -> NaiveUses \union {"appended"}]

MCMinVersion == [m \in MCModules |-> CASE m = older -> 0 [] m = naive -> 1 [] m = newer -> 2]
=============================================================================
