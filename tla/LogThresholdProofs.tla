-------------------------- MODULE LogThresholdProofs --------------------------
(***************************************************************************)
(* Proofs about the logging threshold, for any number of threads: its      *)
(* invariants, and that two atomics read and written one after the other   *)
(* behave as the single threshold of LogPolicy.                            *)
(***************************************************************************)
EXTENDS LogThreshold, TLAPS

\* A writer that will read the level has seen the override switched on, which
\* is never switched off.
LevelReadOverridden == \A w \in Writers : pc[w] = "loadLevel" => explicit

\* The inductive invariant
LogInv == TypeOK /\ PendingLevelRequested /\ LevelReadOverridden

-----------------------------------------------------------------------------

\* No thread is in both kinds of call.
LEMMA Roles ==
  /\ \A s \in Setters : s \in Threads /\ s \notin Writers
  /\ \A w \in Writers : w \in Threads /\ w \notin Setters
  /\ NULL \notin Levels
BY LogAssumption DEF Threads

LEMMA InitInv == Init => LogInv
BY LogAssumption
   DEF Init, LogInv, TypeOK, PendingLevelRequested, LevelReadOverridden, Places, Levels,
       Threads

\* What a step of one thread does to the place and the argument of the others.
LEMMA OthersStay ==
  ASSUME TypeOK, NEW t \in Threads, NEW from, NEW to, Goto(t, from, to)
  PROVE  /\ pc[t] = from /\ pc'[t] = to /\ DOMAIN pc' = Threads
         /\ \A k \in Threads \ {t} : pc'[k] = pc[k]
BY DEF TypeOK, Goto

LEMMA SetterInv ==
  ASSUME LogInv, NEW s \in Setters, Set(s)
  PROVE  LogInv'
<1> USE Roles DEF LogInv
<1>1. ASSUME NEW l \in Arguments, SetLevel(s, l)
      PROVE  LogInv'
  <2>1. /\ pc[s] = "idle" /\ pc'[s] = "storeLevel" /\ DOMAIN pc' = Threads
        /\ \A k \in Threads \ {s} : pc'[k] = pc[k]
    BY <1>1, OthersStay DEF SetLevel
  <2>2. /\ l \in Levels
        /\ arg' = [arg EXCEPT ![s] = l]
        /\ UNCHANGED <<env, level, explicit, verdict>>
    BY <1>1 DEF SetLevel
  <2>3. TypeOK'
    BY <2>1, <2>2 DEF TypeOK, Places
  <2>4. PendingLevelRequested' /\ LevelReadOverridden'
    BY <2>1, <2>2 DEF TypeOK, PendingLevelRequested, LevelReadOverridden
  <2>5. QED
    BY <2>3, <2>4
<1>2. ASSUME NEW l \in Arguments, SetLevelIgnored(s, l)
      PROVE  LogInv'
  BY <1>2 DEF SetLevelIgnored, vars, TypeOK, PendingLevelRequested, LevelReadOverridden
<1>3. CASE StoreLevel(s)
  <2>1. /\ pc[s] = "storeLevel" /\ pc'[s] = "storeExplicit" /\ DOMAIN pc' = Threads
        /\ \A k \in Threads \ {s} : pc'[k] = pc[k]
    BY <1>3, OthersStay DEF StoreLevel
  <2>2. level' = arg[s] /\ UNCHANGED <<env, explicit, arg, verdict>>
    BY <1>3 DEF StoreLevel
  <2>3. arg[s] \in Levels
    BY <2>1 DEF TypeOK
  <2>4. TypeOK'
    BY <2>1, <2>2, <2>3 DEF TypeOK, Places
  <2>5. PendingLevelRequested' /\ LevelReadOverridden'
    BY <2>1, <2>2 DEF PendingLevelRequested, LevelReadOverridden
  <2>6. QED
    BY <2>4, <2>5
<1>4. CASE StoreExplicit(s)
  <2>1. /\ pc[s] = "storeExplicit" /\ pc'[s] = "idle" /\ DOMAIN pc' = Threads
        /\ \A k \in Threads \ {s} : pc'[k] = pc[k]
    BY <1>4, OthersStay DEF StoreExplicit
  <2>2. explicit' = TRUE /\ arg' = [arg EXCEPT ![s] = NULL] /\ UNCHANGED <<env, level, verdict>>
    BY <1>4 DEF StoreExplicit
  <2>3. TypeOK'
    BY <2>1, <2>2 DEF TypeOK, Places
  <2>4. PendingLevelRequested' /\ LevelReadOverridden'
    BY <2>2 DEF PendingLevelRequested, LevelReadOverridden
  <2>5. QED
    BY <2>3, <2>4
<1>5. QED
  BY <1>1, <1>2, <1>3, <1>4 DEF Set

\* A writer leaves level, override and the setters alone.
LEMMA WriterKeepsPending ==
  ASSUME LogInv, NEW w \in Writers, NEW from, NEW to, Goto(w, from, to),
         UNCHANGED <<level, explicit>>,
         \A s \in Setters : arg'[s] = arg[s]
  PROVE  PendingLevelRequested'
<1>1. \A s \in Setters : pc'[s] = pc[s]
  BY Roles, OthersStay DEF LogInv
<1>2. QED
  BY <1>1 DEF LogInv, PendingLevelRequested

LEMMA WriterInv ==
  ASSUME LogInv, NEW w \in Writers, Write(w)
  PROVE  LogInv'
<1> USE Roles DEF LogInv
<1>1. ASSUME NEW severity \in Levels, LogWrite(w, severity)
      PROVE  LogInv'
  <2>1. /\ pc[w] = "idle" /\ pc'[w] = "loadExplicit" /\ DOMAIN pc' = Threads
        /\ \A k \in Threads \ {w} : pc'[k] = pc[k]
    BY <1>1, OthersStay DEF LogWrite
  <2>2. arg' = [arg EXCEPT ![w] = severity] /\ UNCHANGED <<env, level, explicit, verdict>>
    BY <1>1 DEF LogWrite
  <2>3. TypeOK'
    BY <2>1, <2>2 DEF TypeOK, Places
  <2>4. PendingLevelRequested'
    BY <1>1, <2>2, WriterKeepsPending DEF LogWrite, TypeOK
  <2>5. LevelReadOverridden'
    BY <2>1, <2>2 DEF LevelReadOverridden
  <2>6. QED
    BY <2>3, <2>4, <2>5
<1>2. CASE LoadExplicit(w)
  <2>1. /\ pc[w] = "loadExplicit"
        /\ pc'[w] = IF explicit THEN "loadLevel" ELSE "getenv"
        /\ DOMAIN pc' = Threads
        /\ \A k \in Threads \ {w} : pc'[k] = pc[k]
    BY <1>2, OthersStay DEF LoadExplicit
  <2>2. UNCHANGED <<env, level, explicit, arg, verdict>>
    BY <1>2 DEF LoadExplicit
  <2>3. TypeOK'
    BY <2>1, <2>2 DEF TypeOK, Places
  <2>4. PendingLevelRequested'
    BY <1>2, <2>2, WriterKeepsPending DEF LoadExplicit
  <2>5. LevelReadOverridden'
    BY <2>1, <2>2 DEF LevelReadOverridden
  <2>6. QED
    BY <2>3, <2>4, <2>5
<1>3. CASE LoadLevel(w) \/ GetEnv(w)
  <2>1. PICK from \in {"loadLevel", "getenv"} :
           /\ Goto(w, from, "idle")
           /\ \E threshold : Judge(w, threshold)
           /\ UNCHANGED <<env, level, explicit>>
    BY <1>3 DEF LoadLevel, GetEnv
  <2>2. /\ pc[w] = from /\ pc'[w] = "idle" /\ DOMAIN pc' = Threads
        /\ \A k \in Threads \ {w} : pc'[k] = pc[k]
    BY <2>1, OthersStay
  <2>3. /\ arg' = [arg EXCEPT ![w] = NULL]
        /\ verdict' \in [Writers -> BOOLEAN]
    BY <2>1 DEF Judge, Passes, TypeOK
  <2>4. TypeOK'
    BY <2>1, <2>2, <2>3 DEF TypeOK, Places
  <2>5. PendingLevelRequested'
    BY <2>1, <2>3, WriterKeepsPending DEF TypeOK
  <2>6. LevelReadOverridden'
    BY <2>1, <2>2 DEF LevelReadOverridden
  <2>7. QED
    BY <2>4, <2>5, <2>6
<1>4. QED
  BY <1>1, <1>2, <1>3 DEF Write

LEMMA NextInv == LogInv /\ [Next]_vars => LogInv'
<1> SUFFICES ASSUME LogInv, [Next]_vars PROVE LogInv'
  OBVIOUS
<1>1. CASE ChangeEnv
  BY <1>1 DEF ChangeEnv, LogInv, TypeOK, PendingLevelRequested, LevelReadOverridden
<1>2. CASE UNCHANGED vars
  BY <1>2 DEF vars, LogInv, TypeOK, PendingLevelRequested, LevelReadOverridden
<1>3. QED
  BY <1>1, <1>2, SetterInv, WriterInv DEF Next

\* Every reachable state is well typed, shows no level nobody asked for, and
\* has the override on wherever the level is about to be read.
THEOREM LogCorrect == Spec => []LogInv
BY InitInv, NextInv, PTL DEF Spec

\* Type correctness of the two statics and of the calls in progress.
THEOREM LogTypeOK == Spec => []TypeOK
BY LogCorrect, PTL DEF LogInv

\* Before the override is on, the level waiting is one somebody requested.
THEOREM LogPendingRequested == Spec => []PendingLevelRequested
BY LogCorrect, PTL DEF LogInv

-----------------------------------------------------------------------------

\* What the refinement mapping sees of the calls in progress.
Requested == [s \in Setters |-> IF Pending(s) THEN arg[s] ELSE NULL]
Submitted == [w \in Writers |-> IF Undecided(w) THEN arg[w] ELSE NULL]
Decided ==
  [w \in Writers |->
     IF pc[w] = "getenv" THEN Passes(arg[w], EnvLevel[env]) ELSE verdict[w]]

Seen == <<Effective, explicit, Requested, Submitted, Decided>>

\* The two modules let a message pass by the same rule.
LEMMA SameRule ==
  ASSUME NEW severity, NEW limit
  PROVE  Policy!Written(severity, limit) = Passes(severity, limit)
BY DEF Policy!Written, Policy!None, Passes, NONE

\* The mapped state of the abstract module, by these names
LEMMA SeenIsPolicy ==
  /\ Policy!policyVars = Seen
  /\ Policy!policyVars' = Seen'
BY DEF Policy!policyVars, Seen, Requested, Submitted, Decided

\* Steps of a setter leave what is seen of the writers alone, and the other
\* way round.
LEMMA SettersStay ==
  ASSUME LogInv, NEW w \in Writers, NEW from, NEW to, Goto(w, from, to),
         UNCHANGED explicit, \A s \in Setters : arg'[s] = arg[s]
  PROVE  Requested' = Requested
<1>1. \A s \in Setters : pc'[s] = pc[s]
  BY Roles, OthersStay DEF LogInv
<1>2. QED
  BY <1>1 DEF Requested, Pending

LEMMA WritersStay ==
  ASSUME LogInv, NEW s \in Setters, NEW from, NEW to, Goto(s, from, to),
         UNCHANGED <<env, verdict>>, \A w \in Writers : arg'[w] = arg[w]
  PROVE  Submitted' = Submitted /\ Decided' = Decided
<1>1. \A w \in Writers : pc'[w] = pc[w]
  BY Roles, OthersStay DEF LogInv
<1>2. QED
  BY <1>1 DEF Submitted, Decided, Undecided

LEMMA SetterRefines ==
  ASSUME LogInv, NEW s \in Setters, Set(s)
  PROVE  Policy!Next \/ UNCHANGED Seen
<1> USE Roles DEF LogInv
<1>1. ASSUME NEW l \in Arguments, SetLevel(s, l)
      PROVE  Policy!Request(s, l) /\ l \in Levels
  <2>1. /\ pc[s] = "idle" /\ pc'[s] = "storeLevel"
        /\ \A k \in Threads \ {s} : pc'[k] = pc[k]
    BY <1>1, OthersStay DEF SetLevel
  <2>2. /\ l \in Levels
        /\ arg' = [arg EXCEPT ![s] = l]
        /\ UNCHANGED <<env, level, explicit, verdict>>
    BY <1>1 DEF SetLevel
  <2>3. Requested[s] = NULL /\ Requested' = [Requested EXCEPT ![s] = l]
    BY <2>1, <2>2 DEF Requested, Pending, TypeOK
  <2>4. Submitted' = Submitted /\ Decided' = Decided
    BY <1>1, <2>2, WritersStay DEF SetLevel, TypeOK
  <2>5. Effective' = Effective
    BY <2>2 DEF Effective
  <2>6. QED
    BY <2>2, <2>3, <2>4, <2>5 DEF Policy!Request, Requested, Submitted, Decided
<1>2. CASE \E l \in Arguments : SetLevelIgnored(s, l)
  BY <1>2 DEF SetLevelIgnored, vars, Seen, Requested, Submitted, Decided, Effective,
              Pending, Undecided
<1>3. CASE StoreLevel(s)
  <2>1. /\ pc[s] = "storeLevel" /\ pc'[s] = "storeExplicit"
        /\ \A k \in Threads \ {s} : pc'[k] = pc[k]
    BY <1>3, OthersStay DEF StoreLevel
  <2>2. level' = arg[s] /\ UNCHANGED <<env, explicit, arg, verdict>>
    BY <1>3 DEF StoreLevel
  <2>3. Submitted' = Submitted /\ Decided' = Decided
    BY <1>3, <2>2, WritersStay DEF StoreLevel
  <2>4. CASE ~explicit
    <3>1. Requested' = Requested
      BY <2>1, <2>2, <2>4 DEF Requested, Pending
    <3>2. Effective' = Effective
      BY <2>2, <2>4 DEF Effective
    <3>3. QED
      BY <2>2, <2>3, <3>1, <3>2 DEF Seen
  <2>5. CASE explicit
    <3>1. Requested[s] = arg[s] /\ arg[s] # NULL
      BY <2>1 DEF Requested, Pending, TypeOK
    <3> DEFINE others == {}
    <3>2. Requested' = [r \in Setters |-> IF r = s \/ r \in others THEN NULL ELSE Requested[r]]
      BY <2>1, <2>2, <2>5 DEF Requested, Pending
    <3>3. Effective' = Requested[s]
      BY <2>2, <2>5, <3>1 DEF Effective
    <3>4. others \in SUBSET Setters
      OBVIOUS
    <3> HIDE DEF others
    <3>5. Policy!TakeEffect(s)
      BY <2>2, <2>3, <2>5, <3>1, <3>2, <3>3, <3>4
         DEF Policy!TakeEffect, Requested, Submitted, Decided
    <3>6. QED
      BY <3>5 DEF Policy!Next
  <2>6. QED
    BY <2>4, <2>5
<1>4. CASE StoreExplicit(s)
  <2>1. /\ pc[s] = "storeExplicit" /\ pc'[s] = "idle"
        /\ \A k \in Threads \ {s} : pc'[k] = pc[k]
    BY <1>4, OthersStay DEF StoreExplicit
  <2>2. explicit' = TRUE /\ arg' = [arg EXCEPT ![s] = NULL] /\ UNCHANGED <<env, level, verdict>>
    BY <1>4 DEF StoreExplicit
  <2>3. Submitted' = Submitted /\ Decided' = Decided
    BY <1>4, <2>2, WritersStay DEF StoreExplicit, TypeOK
  <2>4. CASE explicit
    <3>1. Requested' = Requested
      BY <2>1, <2>2, <2>4 DEF Requested, Pending, TypeOK
    <3>2. Effective' = Effective
      BY <2>2, <2>4 DEF Effective
    <3>3. QED
      BY <2>2, <2>3, <2>4, <3>1, <3>2 DEF Seen, TypeOK
  <2>5. CASE ~explicit
    <3>1. PICK r \in Setters : pc[r] = "storeExplicit" /\ level = arg[r]
      BY <2>1, <2>5 DEF PendingLevelRequested
    <3> DEFINE others == {k \in Setters : pc[k] = "storeExplicit"}
    <3>2. Requested[r] = arg[r] /\ arg[r] # NULL
      BY <2>5, <3>1 DEF Requested, Pending, TypeOK
    <3>3. Requested' = [k \in Setters |-> IF k = r \/ k \in others THEN NULL ELSE Requested[k]]
      BY <2>1, <2>2, <2>5, <3>1 DEF Requested, Pending, TypeOK
    <3>4. Effective' = Requested[r]
      BY <2>2, <3>1, <3>2 DEF Effective
    <3>5. others \in SUBSET Setters
      OBVIOUS
    <3> HIDE DEF others
    <3>6. Policy!TakeEffect(r)
      BY <2>2, <2>3, <3>2, <3>3, <3>4, <3>5
         DEF Policy!TakeEffect, Requested, Submitted, Decided
    <3>7. QED
      BY <3>6 DEF Policy!Next
  <2>6. QED
    BY <2>4, <2>5
<1>5. QED
  BY <1>1, <1>2, <1>3, <1>4 DEF Set, Policy!Next

LEMMA WriterRefines ==
  ASSUME LogInv, NEW w \in Writers, Write(w)
  PROVE  Policy!Next \/ UNCHANGED Seen
<1> USE Roles DEF LogInv
<1>1. ASSUME NEW severity \in Levels, LogWrite(w, severity)
      PROVE  Policy!Submit(w, severity)
  <2>1. /\ pc[w] = "idle" /\ pc'[w] = "loadExplicit"
        /\ \A k \in Threads \ {w} : pc'[k] = pc[k]
    BY <1>1, OthersStay DEF LogWrite
  <2>2. arg' = [arg EXCEPT ![w] = severity] /\ UNCHANGED <<env, level, explicit, verdict>>
    BY <1>1 DEF LogWrite
  <2>3. Submitted[w] = NULL /\ Submitted' = [Submitted EXCEPT ![w] = severity]
    BY <2>1, <2>2 DEF Submitted, Undecided, TypeOK
  <2>4. Decided' = Decided
    BY <2>1, <2>2 DEF Decided, TypeOK
  <2>5. Requested' = Requested
    BY <1>1, <2>2, SettersStay DEF LogWrite, TypeOK
  <2>6. Effective' = Effective
    BY <2>2 DEF Effective
  <2>7. QED
    BY <2>2, <2>3, <2>4, <2>5, <2>6 DEF Policy!Submit, Requested, Submitted, Decided
<1>2. CASE LoadExplicit(w)
  <2>1. /\ pc[w] = "loadExplicit"
        /\ pc'[w] = IF explicit THEN "loadLevel" ELSE "getenv"
        /\ \A k \in Threads \ {w} : pc'[k] = pc[k]
    BY <1>2, OthersStay DEF LoadExplicit
  <2>2. UNCHANGED <<env, level, explicit, arg, verdict>>
    BY <1>2 DEF LoadExplicit
  <2>3. Requested' = Requested
    BY <1>2, <2>2, SettersStay DEF LoadExplicit
  <2>4. Effective' = Effective
    BY <2>2 DEF Effective
  <2>5. CASE explicit
    <3>1. Submitted' = Submitted /\ Decided' = Decided
      BY <2>1, <2>2, <2>5 DEF Submitted, Decided, Undecided
    <3>2. QED
      BY <2>2, <2>3, <2>4, <3>1 DEF Seen
  <2>6. CASE ~explicit
    <3>1. Submitted[w] = arg[w] /\ arg[w] # NULL
      BY <2>1 DEF Submitted, Undecided, TypeOK
    <3>2. Submitted' = [Submitted EXCEPT ![w] = NULL]
      BY <2>1, <2>2, <2>6 DEF Submitted, Undecided
    <3>3. Decided' = [Decided EXCEPT ![w] = Policy!Written(Submitted[w], Effective)]
      BY <2>1, <2>2, <2>6, <3>1, SameRule DEF Decided, Effective
    <3>4. Policy!Decide(w)
      BY <2>2, <2>3, <2>4, <3>1, <3>2, <3>3 DEF Policy!Decide, Requested, Submitted, Decided
    <3>5. QED
      BY <3>4 DEF Policy!Next
  <2>7. QED
    BY <2>5, <2>6
<1>3. CASE LoadLevel(w)
  <2>1. /\ pc[w] = "loadLevel" /\ pc'[w] = "idle"
        /\ \A k \in Threads \ {w} : pc'[k] = pc[k]
    BY <1>3, OthersStay DEF LoadLevel
  <2>2. /\ verdict' = [verdict EXCEPT ![w] = Passes(arg[w], level)]
        /\ arg' = [arg EXCEPT ![w] = NULL]
        /\ UNCHANGED <<env, level, explicit>>
    BY <1>3 DEF LoadLevel, Judge
  <2>3. explicit /\ Effective = level /\ Effective' = Effective
    BY <2>1, <2>2 DEF LevelReadOverridden, Effective
  <2>4. Submitted[w] = arg[w] /\ arg[w] # NULL
    BY <2>1 DEF Submitted, Undecided, TypeOK
  <2>5. Submitted' = [Submitted EXCEPT ![w] = NULL]
    BY <2>1, <2>2 DEF Submitted, Undecided, TypeOK
  <2>6. Decided' = [Decided EXCEPT ![w] = Policy!Written(Submitted[w], Effective)]
    BY <2>1, <2>2, <2>3, <2>4, SameRule DEF Decided, TypeOK
  <2>7. Requested' = Requested
    BY <1>3, <2>2, SettersStay DEF LoadLevel, TypeOK
  <2>8. Policy!Decide(w)
    BY <2>2, <2>3, <2>4, <2>5, <2>6, <2>7 DEF Policy!Decide, Requested, Submitted, Decided
  <2>9. QED
    BY <2>8 DEF Policy!Next
<1>4. CASE GetEnv(w)
  <2>1. /\ pc[w] = "getenv" /\ pc'[w] = "idle"
        /\ \A k \in Threads \ {w} : pc'[k] = pc[k]
    BY <1>4, OthersStay DEF GetEnv
  <2>2. /\ verdict' = [verdict EXCEPT ![w] = Passes(arg[w], EnvLevel[env])]
        /\ arg' = [arg EXCEPT ![w] = NULL]
        /\ UNCHANGED <<env, level, explicit>>
    BY <1>4 DEF GetEnv, Judge
  <2>3. Submitted' = Submitted /\ Decided' = Decided
    BY <2>1, <2>2 DEF Submitted, Decided, Undecided, TypeOK
  <2>4. Requested' = Requested
    BY <1>4, <2>2, SettersStay DEF GetEnv, TypeOK
  <2>5. QED
    BY <2>2, <2>3, <2>4 DEF Seen, Effective
<1>5. QED
  BY <1>1, <1>2, <1>3, <1>4 DEF Write, Policy!Next

\* The environment shows only until a level was requested.
LEMMA EnvironmentRefines ==
  ASSUME LogInv, ChangeEnv
  PROVE  Policy!Next \/ UNCHANGED Seen
<1>1. /\ env' \in DOMAIN EnvLevel /\ \A w \in Writers : pc[w] = "idle"
      /\ UNCHANGED <<level, explicit, pc, arg, verdict>>
  BY DEF ChangeEnv
<1>2. Requested' = Requested /\ Submitted' = Submitted /\ Decided' = Decided
  BY <1>1 DEF Requested, Submitted, Decided, Pending, Undecided
<1>3. CASE explicit
  BY <1>1, <1>2, <1>3 DEF Seen, Effective
<1>4. CASE ~explicit
  <2>1. Effective' = EnvLevel[env'] /\ EnvLevel[env'] \in Levels
    BY <1>1, <1>4, LogAssumption DEF Effective
  <2>2. Policy!Follow(EnvLevel[env'])
    BY <1>1, <1>2, <1>4, <2>1 DEF Policy!Follow, Requested, Submitted, Decided
  <2>3. QED
    BY <2>1, <2>2 DEF Policy!Next
<1>5. QED
  BY <1>3, <1>4

\* Two atomics, read and written one after the other, behave as one threshold:
\* every step of a setter, a writer or the environment is one of LogPolicy or
\* none.
THEOREM LogLinearizable == Spec => Linearizable
<1>1. Init => Policy!Init
  <2> SUFFICES ASSUME Init PROVE Policy!Init
    OBVIOUS
  <2> USE Roles DEF Init
  <2>1. Effective \in Levels
    BY LogAssumption DEF Effective
  <2>2. Requested = [s \in Setters |-> NULL]
    BY DEF Requested, Pending
  <2>3. Submitted = [w \in Writers |-> NULL]
    BY DEF Submitted, Undecided
  <2>4. Decided = [w \in Writers |-> FALSE]
    BY DEF Decided
  <2>5. QED
    BY <2>1, <2>2, <2>3, <2>4 DEF Policy!Init, Requested, Submitted, Decided
<1>2. LogInv /\ [Next]_vars => [Policy!Next]_(Policy!policyVars)
  <2> SUFFICES ASSUME LogInv, [Next]_vars PROVE Policy!Next \/ UNCHANGED Seen
    BY SeenIsPolicy
  <2>1. CASE UNCHANGED vars
    BY <2>1 DEF vars, Seen, Requested, Submitted, Decided, Effective, Pending, Undecided
  <2>2. CASE Next
    BY <2>2, SetterRefines, WriterRefines, EnvironmentRefines DEF Next
  <2>3. QED
    BY <2>1, <2>2
<1>3. QED
  BY <1>1, <1>2, LogCorrect, PTL DEF Spec, Linearizable, Policy!Spec

=============================================================================
