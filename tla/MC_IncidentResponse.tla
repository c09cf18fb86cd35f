------------------------ MODULE MC_IncidentResponse ------------------------
(* A small instance of IncidentResponse for TLC: the tools and the service *)
(* with a volume of MC_Remediation.                                        *)
EXTENDS MC_Remediation, IncidentResponse

CONSTANTS i1, i2

\* An OOM kill of an incident the caller names, and readings no rule settles,
\* of one nobody named.
MCAlert ==
    {[service |-> "target-db", episode_id |-> e1, signals |->
         [oom_killed |-> TRUE, memory_limit_bytes |-> 256 * Mb]],
     [service |-> "target-db", episode_id |-> None, signals |->
         [restart_count |-> 1, memory_percent |-> 50, logs |-> "text"]]}

MCOpinion == {"crash_loop"}

MCAlertDomain == {DeriveArguments(tool, "target-db", b) :
                     tool \in AllowedTools, b \in {0, 256 * Mb}}

MCAlertIncident ==
    {Diagnosed(mode, "target-db", b, e) :
        mode \in DOMAIN CandidateTool, b \in {0, 256 * Mb}, e \in {e1} \cup AlertId}

MCAgreement == {Says("drop_volume", "target-db", TRUE)}
=============================================================================
