----------------------------- MODULE MC_Triage -----------------------------
(* A small instance of Triage for TLC.                                     *)
EXTENDS Triage

\* At and just under the thresholds.
MCStats == {94, 95, Unreadable}
MCInspection ==
    {[restart_count |-> 5, oom_killed |-> TRUE, memory_limit_bytes |-> 512],
     [restart_count |-> 0, oom_killed |-> FALSE, memory_limit_bytes |-> 512]}

\* No signals; an OOM kill behind a crash loop; a slow service and a log.
MCAlert ==
    {[service |-> "api", episode_id |-> None, signals |-> <<>>],
     [service |-> "api", episode_id |-> "e1", signals |->
         [oom_killed |-> TRUE, restart_count |-> 5, exit_code |-> 137]],
     [service |-> "api", episode_id |-> "e1", signals |->
         [p99_latency_ms |-> 2000, logs |-> "text"]]}

\* The schema leaves the model every failure mode but two; nothing but the
\* schema keeps it from those.
MCOpinion == {"crash_loop", "blind"}

\* A task of the peer that was canceled or rejected, or asks for input, is to
\* triage as one that failed.
MCPeerState == {"WORKING", "AUTH_REQUIRED", "COMPLETED", "FAILED"}
=============================================================================
