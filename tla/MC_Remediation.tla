-------------------------- MODULE MC_Remediation ---------------------------
(* Small instances of Remediation for TLC.  Tools and services have the    *)
(* names of the source; a megabyte is two bytes.                           *)
EXTENDS Remediation, TLC

CONSTANTS triage, remediation, e1, t1, t2, r1, r2, r3, human

MCService == {"target-api", "target-db"}
MCManagedVolumes == [s \in MCService |->
                        IF s = "target-db" THEN "sovops_pgdata" ELSE None]

MCTool == {"restart_service", "scale_memory", "restore_memory", "drop_volume"}
RiskOf(reversibility, scope, rollback) ==
    [reversibility |-> reversibility, scope |-> scope, n_targets |-> 1,
     rollback_tool |-> rollback, read_only |-> FALSE]
MCRisk == [restart_service |-> RiskOf("reversible", "container", None),
           scale_memory    |-> RiskOf("compensable", "service", "restore_memory"),
           restore_memory  |-> RiskOf("compensable", "service", "scale_memory"),
           drop_volume     |-> RiskOf("irreversible", "data", None)]

MCTiers == [t \in {triage, remediation} |->
                IF t = triage THEN "read_only" ELSE "operator"]

\* Limits of a service before and after another increase.
Limits == {256 * Mb, 512 * Mb}
MCDomain == {DeriveArguments(tool, s, b) : tool \in AllowedTools, s \in MCService,
                                           b \in Limits}
MCRequests == AgentCalls
MCHash == Arguments
MCHashParams == [a \in Arguments |-> a]

Diagnosed(mode, s, b, e) ==
    [failure_mode |-> mode, service |-> s, memory_limit_bytes |-> b, episode_id |-> e]

\* One incident at a service with a volume, seen as different things and
\* at two limits; the same service without an incident named.
MCIncident ==
    {Diagnosed("disk_pressure", "target-db", 256 * Mb, e1),
     Diagnosed("memory_exhaustion", "target-db", 256 * Mb, e1),
     Diagnosed("memory_exhaustion", "target-db", 512 * Mb, e1),
     Diagnosed("crash_loop", "target-db", 256 * Mb, None),
     Diagnosed("healthy", "target-db", 256 * Mb, e1),
     Diagnosed("unknown", "target-db", 256 * Mb, e1),
     Diagnosed("blind", "target-db", 256 * Mb, e1)}

Says(tool, s, rationale) == [tool |-> tool, service |-> s, rationale |-> rationale]
\* The model agrees, dissents, strays to another service, gives no reason, or
\* names a tool of its own.
MCAnswers ==
    {Says("drop_volume", "target-db", TRUE), Says("scale_memory", "target-api", TRUE),
     Says("drop_volume", "target-db", FALSE), Says(None, "target-db", TRUE)}

TaskSymmetry == Permutations(TaskId)
RefSymmetry == Permutations(Ref)
Symmetry == TaskSymmetry \cup RefSymmetry
=============================================================================
