---------------------------- MODULE MCLogThreshold ----------------------------
(* Two overlapping set_level calls and a writer at every level.         *)
EXTENDS LogThreshold

CONSTANTS s1, s2, w1

MCSetters == {s1, s2}
MCWriters == {w1}

\* "other" stands for any text ntt_log_env_level does not know, "error" too
MCEnvLevel ==
  [e \in {"unset", "none", "info", "debug", "other"} |->
     CASE e = "none" -> NONE [] e = "info" -> INFO [] e = "debug" -> DEBUG
       [] OTHER -> ERROR]
=============================================================================
