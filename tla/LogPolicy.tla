------------------------------- MODULE LogPolicy -------------------------------
(***************************************************************************)
(* What logging promises threads that set the level and write messages at  *)
(* the same time: one threshold, which a requested level takes over at one *)
(* moment of its call and the environment decides until then, and for      *)
(* every message a verdict by the threshold of one moment of its call.     *)
(***************************************************************************)
EXTENDS Naturals

CONSTANTS
  Setters, Writers,  \* the threads in ntt_log_set_level and in NTT_LOG
  Levels,            \* NTT_LOG_NONE, the least, and the severities above it
  NULL

VARIABLES
  threshold,   \* the level in force
  overridden,  \* a requested level has taken effect
  request,     \* setter -> the level it asks for, not in effect yet, or NULL
  message,     \* writer -> the severity of a message not decided yet, or NULL
  verdict      \* writer -> whether its last decided message is written

policyVars == <<threshold, overridden, request, message, verdict>>

None == 0

Written(severity, limit) == severity # None /\ severity <= limit

Init ==
  /\ threshold \in Levels
  /\ overridden = FALSE
  /\ request = [s \in Setters |-> NULL]
  /\ message = [w \in Writers |-> NULL]
  /\ verdict = [w \in Writers |-> FALSE]

\* Until a level was requested, the threshold follows the environment.
Follow(l) ==
  /\ ~overridden
  /\ threshold' = l
  /\ UNCHANGED <<overridden, request, message, verdict>>

Request(s, l) ==
  /\ request[s] = NULL
  /\ request' = [request EXCEPT ![s] = l]
  /\ UNCHANGED <<threshold, overridden, message, verdict>>

\* Requests of calls that overlap take effect, the one of s last.
TakeEffect(s) ==
  /\ request[s] # NULL
  /\ threshold' = request[s]
  /\ overridden' = TRUE
  /\ \E others \in SUBSET Setters :
       request' = [r \in Setters |-> IF r = s \/ r \in others THEN NULL ELSE request[r]]
  /\ UNCHANGED <<message, verdict>>

Submit(w, severity) ==
  /\ message[w] = NULL
  /\ message' = [message EXCEPT ![w] = severity]
  /\ UNCHANGED <<threshold, overridden, request, verdict>>

Decide(w) ==
  /\ message[w] # NULL
  /\ message' = [message EXCEPT ![w] = NULL]
  /\ verdict' = [verdict EXCEPT ![w] = Written(message[w], threshold)]
  /\ UNCHANGED <<threshold, overridden, request>>

Next ==
  \/ \E l \in Levels : Follow(l)
  \/ \E s \in Setters : TakeEffect(s) \/ \E l \in Levels : Request(s, l)
  \/ \E w \in Writers : Decide(w) \/ \E l \in Levels : Submit(w, l)

Spec == Init /\ [][Next]_policyVars

=============================================================================
