------------------------------- MODULE CoreApi -------------------------------
(***************************************************************************)
(* The core API the library injects into every adapter (src/common/        *)
(* ntt_core.c, include/ntt/ntt_core.h): a versioned stream of dispatch     *)
(* entries, the lookup every accessor goes through, the handshake by which *)
(* a module refuses a core older than the one it was built against, and    *)
(* what the adapters of the repository look up.                            *)
(***************************************************************************)
EXTENDS Naturals, Sequences

\* NTT_CORE_API_VERSION
CoreVersion == 1

\* ntt__core_ops, by its ids
CoreOps ==
  <<"config_get_modulus", "config_get_size", "config_get_transform_type",
    "config_get_flags", "config_get_omega", "config_get_psi", "util_is_prime", "none">>

\* ntt_core_find walks the stream up to its terminator: whether it finds id.
Found(id) ==
  \E i \in DOMAIN CoreOps :
    /\ CoreOps[i] = id
    /\ \A j \in 1 .. i : CoreOps[j] # "none"

\* Faulty variant: the next version is let through.
IsCompatibleNext(minVersion) == CoreVersion + 1 >= minVersion

\* ntt_core_is_compatible
IsCompatible(minVersion) == CoreVersion >= minVersion

-----------------------------------------------------------------------------
\* Lookups in validate_modulus and in setup; the other callbacks make none.

ScalarValidateUses == {"config_get_modulus", "config_get_flags", "util_is_prime"}
ScalarSetupUses ==
  {"config_get_modulus", "config_get_size", "config_get_omega", "config_get_psi",
   "config_get_flags"}

ToyUses == {"config_get_modulus", "config_get_size", "config_get_omega", "config_get_psi"}

NaiveUses == {"config_get_modulus", "config_get_size", "config_get_psi"}

=============================================================================
