----------------------------- MODULE LogThreshold -----------------------------
(***************************************************************************)
(* The logging threshold of libntt (src/common/ntt_log.c): two atomic      *)
(* statics, written one after the other by ntt_log_set_level and read one  *)
(* after the other by ntt__log_write, in threads that take no lock.        *)
(***************************************************************************)
EXTENDS Naturals

CONSTANTS
  Setters,  \* threads that call ntt_log_set_level
  Writers,  \* threads that log
  EnvLevel, \* what ntt_log_env_level makes of each value of NTT_LOG_LEVEL
  NULL

\* ntt_log_level
NONE == 0
ERROR == 1
INFO == 2
DEBUG == 3
Levels == {NONE, ERROR, INFO, DEBUG}

\* What a caller may pass to set_level: DEBUG + 1 stands for every other int.
Arguments == Levels \union {DEBUG + 1}

ASSUME LogAssumption ==
  /\ NULL \notin Levels
  /\ \A e \in DOMAIN EnvLevel : EnvLevel[e] \in Levels
  /\ Setters \intersect Writers = {}

VARIABLES
  env,       \* the value of NTT_LOG_LEVEL
  level,     \* g_ntt_log_level
  explicit,  \* g_ntt_log_explicit
  pc,        \* where each thread is in its call
  arg,       \* the level a setter sets, the severity of a writer's message
  verdict    \* whether a writer's last message was written

vars == <<env, level, explicit, pc, arg, verdict>>

Threads == Setters \union Writers

Init ==
  /\ env \in DOMAIN EnvLevel
  /\ level = ERROR
  /\ explicit = FALSE
  /\ pc = [t \in Threads |-> "idle"]
  /\ arg = [t \in Threads |-> NULL]
  /\ verdict = [w \in Writers |-> FALSE]

Goto(t, from, to) ==
  /\ pc[t] = from
  /\ pc' = [pc EXCEPT ![t] = to]

-----------------------------------------------------------------------------

\* Faulty variants: any value is stored, or the override is switched on before
\* the level is stored.
SetLevelUnchecked(s, l) ==
  /\ Goto(s, "idle", "storeLevel")
  /\ arg' = [arg EXCEPT ![s] = l]
  /\ UNCHANGED <<env, level, explicit, verdict>>

SetLevelOverridesFirst(s, l) ==
  /\ l \in Levels
  /\ Goto(s, "idle", "storeLevel")
  /\ arg' = [arg EXCEPT ![s] = l]
  /\ explicit' = TRUE
  /\ UNCHANGED <<env, level, verdict>>

\* ntt_log_set_level(l): a value that is no level is ignored.
SetLevel(s, l) ==
  /\ l \in Levels
  /\ Goto(s, "idle", "storeLevel")
  /\ arg' = [arg EXCEPT ![s] = l]
  /\ UNCHANGED <<env, level, explicit, verdict>>

SetLevelIgnored(s, l) ==
  /\ l \notin Levels
  /\ pc[s] = "idle"
  /\ UNCHANGED vars

\* Faulty variant: the level can only be raised.
StoreLevelRaising(s) ==
  /\ Goto(s, "storeLevel", "storeExplicit")
  /\ level' = IF arg[s] > level THEN arg[s] ELSE level
  /\ UNCHANGED <<env, explicit, arg, verdict>>

StoreLevel(s) ==
  /\ Goto(s, "storeLevel", "storeExplicit")
  /\ level' = arg[s]
  /\ UNCHANGED <<env, explicit, arg, verdict>>

StoreExplicit(s) ==
  /\ Goto(s, "storeExplicit", "idle")
  /\ explicit' = TRUE
  /\ arg' = [arg EXCEPT ![s] = NULL]
  /\ UNCHANGED <<env, level, verdict>>

-----------------------------------------------------------------------------

\* ntt__log_write of a message of some severity
LogWrite(w, severity) ==
  /\ Goto(w, "idle", "loadExplicit")
  /\ arg' = [arg EXCEPT ![w] = severity]
  /\ UNCHANGED <<env, level, explicit, verdict>>

LoadExplicit(w) ==
  /\ Goto(w, "loadExplicit", IF explicit THEN "loadLevel" ELSE "getenv")
  /\ UNCHANGED <<env, level, explicit, arg, verdict>>

\* A message passes a threshold.
Passes(severity, threshold) == severity # NONE /\ severity <= threshold

\* The message is dropped or written by the threshold just read.
Judge(w, threshold) ==
  /\ verdict' = [verdict EXCEPT ![w] = Passes(arg[w], threshold)]
  /\ arg' = [arg EXCEPT ![w] = NULL]

LoadLevel(w) ==
  /\ Goto(w, "loadLevel", "idle")
  /\ Judge(w, level)
  /\ UNCHANGED <<env, level, explicit>>

GetEnv(w) ==
  /\ Goto(w, "getenv", "idle")
  /\ Judge(w, EnvLevel[env])
  /\ UNCHANGED <<env, level, explicit>>

\* The application changes the variable; POSIX forbids it while another
\* thread may be in getenv.
ChangeEnv ==
  /\ \A w \in Writers : pc[w] = "idle"
  /\ env' \in DOMAIN EnvLevel
  /\ UNCHANGED <<level, explicit, pc, arg, verdict>>

Set(s) ==
  \/ \E l \in Arguments : SetLevel(s, l) \/ SetLevelIgnored(s, l)
  \/ StoreLevel(s)
  \/ StoreExplicit(s)

Write(w) ==
  \/ \E severity \in Levels : LogWrite(w, severity)
  \/ LoadExplicit(w) \/ LoadLevel(w) \/ GetEnv(w)

Next == (\E s \in Setters : Set(s)) \/ (\E w \in Writers : Write(w)) \/ ChangeEnv

Spec == Init /\ [][Next]_vars

-----------------------------------------------------------------------------

Places(t) ==
  IF t \in Setters THEN {"idle", "storeLevel", "storeExplicit"}
                   ELSE {"idle", "loadExplicit", "loadLevel", "getenv"}

TypeOK ==
  /\ env \in DOMAIN EnvLevel
  /\ level \in Levels
  /\ explicit \in BOOLEAN
  /\ DOMAIN pc = Threads /\ \A t \in Threads : pc[t] \in Places(t)
  /\ arg \in [Threads -> Levels \union {NULL}]
  /\ \A t \in Threads : pc[t] = "idle" <=> arg[t] = NULL
  /\ verdict \in [Writers -> BOOLEAN]

(***************************************************************************)
(* Between the two stores of the first calls, the level waiting in the     *)
(* static is one that some call in progress asked for: when the override   *)
(* is switched on it shows no level nobody requested.                      *)
(***************************************************************************)
PendingLevelRequested ==
  (\E s \in Setters : pc[s] = "storeExplicit") /\ ~explicit =>
     \E s \in Setters : pc[s] = "storeExplicit" /\ level = arg[s]

\* The threshold a message meets now.
Effective == IF explicit THEN level ELSE EnvLevel[env]

\* A request is pending until its level shows in the effective threshold; a
\* message that found no override is as good as decided.
Pending(s) == pc[s] = "storeLevel" \/ (pc[s] = "storeExplicit" /\ ~explicit)
Undecided(w) == pc[w] \in {"loadExplicit", "loadLevel"}

Policy == INSTANCE LogPolicy WITH
  threshold <- Effective,
  overridden <- explicit,
  request <- [s \in Setters |-> IF Pending(s) THEN arg[s] ELSE NULL],
  message <- [w \in Writers |-> IF Undecided(w) THEN arg[w] ELSE NULL],
  verdict <- [w \in Writers |->
               IF pc[w] = "getenv" THEN Passes(arg[w], EnvLevel[env])
                                   ELSE verdict[w]]

(***************************************************************************)
(* Two stores and two loads without a lock behave as one threshold would:  *)
(* a requested level takes effect at one moment before set_level returns   *)
(* and no other ever shows, the override is never lost, and each message   *)
(* is judged by a threshold in force during its call.                      *)
(***************************************************************************)
Linearizable == Policy!Spec

=============================================================================
