------------------------------ MODULE TaskLife ------------------------------
(***************************************************************************)
(* What a2a/server.py promises the callers of an agent whose handler never *)
(* awaits: one task at a time is WORKING, a task that is over stays so, an *)
(* id is handed out once, and a restart forgets every task there was.      *)
(* Remediation and Triage implement it; Triage also relies on it, for the  *)
(* peer it delegates to.                                                   *)
(***************************************************************************)
CONSTANTS TaskId, None

VARIABLES
    life,   \* the state of every task in the store, None when it holds none
    known   \* the ids ever handed out

lifeVars == <<life, known>>

Terminal == {"COMPLETED", "FAILED", "CANCELED", "REJECTED"}
Paused == {"INPUT_REQUIRED", "AUTH_REQUIRED"}
State == Terminal \cup Paused \cup {"WORKING"}

Init == life = [t \in TaskId |-> None] /\ known = {}

Idle == \A t \in TaskId : life[t] # "WORKING"

Becomes(t, state) == life' = [life EXCEPT ![t] = state]

\* A message starts a task, or goes on with a paused one, and is at once
\* dealt with or leaves the handler waiting for somebody; or a cancel.
Message(t, state) ==
    /\ Idle
    /\ t \notin known \/ life[t] \in Paused
    /\ Becomes(t, state)
    /\ known' = known \cup {t}

\* The handler returns, or raises.
Return(t, state) ==
    /\ life[t] = "WORKING"
    /\ state # "WORKING"
    /\ Becomes(t, state)
    /\ UNCHANGED known

Forget == life' = [t \in TaskId |-> None] /\ UNCHANGED known

Next ==
    \/ \E t \in TaskId, state \in State : Message(t, state) \/ Return(t, state)
    \/ Forget

Spec == Init /\ [][Next]_lifeVars
=============================================================================
