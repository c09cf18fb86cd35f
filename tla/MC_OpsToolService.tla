------------------------- MODULE MC_OpsToolService -------------------------
(* Small instances of OpsToolService for TLC.                              *)
EXTENDS OpsToolServiceAudit

CONSTANTS get_metrics, restart_service, scale_memory, restore_memory,
          drop_volume, restart_cluster, restore_snapshot,
          triage, remediation, stranger, d1, d2, e1, e2, r1, r2, human

RiskOf(reversibility, scope, n, rollback, read_only) ==
    [reversibility |-> reversibility, scope |-> scope, n_targets |-> n,
     rollback_tool |-> rollback, read_only |-> read_only]

\* The risks build_registry declares, and two tools it does not have: one for
\* the whole cluster, and a compensable action on data, the case the
\* categorical rule is there for.
AllRisks == [t \in {get_metrics, restart_service, scale_memory, restore_memory,
                    drop_volume, restart_cluster, restore_snapshot} |->
    CASE t = get_metrics     -> RiskOf("reversible", "container", 0, None, TRUE)
      [] t = restart_service -> RiskOf("reversible", "container", 1, None, FALSE)
      [] t = scale_memory    -> RiskOf("compensable", "service", 1, restore_memory, FALSE)
      [] t = restore_memory  -> RiskOf("compensable", "service", 1, scale_memory, FALSE)
      [] t = drop_volume     -> RiskOf("irreversible", "data", 1, None, FALSE)
      [] t = restart_cluster -> RiskOf("reversible", "cluster", 1, None, FALSE)
      [] t = restore_snapshot -> RiskOf("compensable", "data", 1, restart_service, FALSE)]

MCTiers == [t \in {triage, remediation, stranger} |->
    CASE t = triage -> "read_only" [] t = remediation -> "operator"
      [] OTHER -> None]

MCTool == {get_metrics, restart_service, scale_memory, restore_memory, drop_volume}
MCRisk == [t \in MCTool |-> AllRisks[t]]
MCDataTool == {restart_service, restart_cluster, restore_snapshot}
MCDataRisk == [t \in MCDataTool |-> AllRisks[t]]

Args(domain, e, r, a) == [domain |-> domain, episode_id |-> e,
                          approval_ref |-> r, approver |-> a]
Req(token, tool, arguments) ==
    [token |-> token, tool |-> tool, attributed |-> TRUE, arguments |-> arguments]

\* SHA-256 without collisions: the hash of the arguments is the arguments.
MCHash == Arguments
MCHashParams == [a \in Arguments |-> a]

\* Requests that never reach the gate, one for each way not to.
Stranger == Req(stranger, restart_service, Args(d1, None, None, None))
Turned ==
    {Stranger,
     [Req(remediation, restart_service, Args(d1, e1, None, None))
        EXCEPT !.attributed = FALSE],
     Req(remediation, None, Args(d1, e1, None, None)),
     Req(triage, restart_service, Args(d1, e1, None, None)),
     Req(remediation, restart_service, Args(d1, None, None, None))}

\* Calls put to the gate, and the same calls presenting an approval.
Asked(calls) == {Req(remediation, c[1], Args(c[2], c[3], None, None)) : c \in calls}
Claims(calls, approvers) ==
    {Req(remediation, c[1], Args(c[2], c[3], r, a)) :
        c \in calls, r \in Ref, a \in approvers}

\* One incident, tools of every kind, two volumes, and approvals presented
\* twice, for another volume, from another incident, without an approver.
MCRequests ==
    Turned
    \cup {Req(triage, get_metrics, Args(d1, None, None, None))}
    \cup Asked({<<scale_memory, d1, e1>>, <<drop_volume, d1, e1>>,
                <<drop_volume, d2, e1>>})
    \cup Claims({<<drop_volume, d1, e1>>, <<drop_volume, d1, e2>>}, {human})
    \cup Claims({<<drop_volume, d2, e1>>}, {human, None})

\* Two incidents that spend ceilings a cluster-wide action fits under - 64 + 1
\* is the ceiling, one more is not - with tools that touch data, and what is
\* referred to a human once a budget is gone.
MCBudgetRequests ==
    {Stranger}
    \cup Asked({<<restart_service, d1, e1>>, <<restart_cluster, d1, e1>>,
                <<restart_cluster, d1, e2>>, <<restore_snapshot, d1, e1>>})
    \cup Claims({<<restart_service, d1, e1>>, <<restore_snapshot, d1, e2>>}, {human})

\* Symmetric: a fresh reference is any unused one.
RefSymmetry == Permutations(Ref)
=============================================================================
