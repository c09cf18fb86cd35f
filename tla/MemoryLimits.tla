---------------------------- MODULE MemoryLimits ---------------------------
(***************************************************************************)
(* One container's memory limit over a sequence of incidents.  The agent   *)
(* plans an increase from a reading of the limit, keeps the plan on its    *)
(* task and applies it as it is, at once or after a person's decision; the *)
(* tool server captures the inverse before it applies a change, and the    *)
(* handlers of mcp_server/ops_tools.py write the limit.  Undoing is a      *)
(* person calling restore_memory with a captured plan, newest first.       *)
(*                                                                         *)
(* Limits are bytes, as docker keeps them; 0 is "no limit".  What is under *)
(* test is the arithmetic between bytes, megabytes and the clamp, and what *)
(* a limit is that was computed from a reading no longer, or never, true.  *)
(***************************************************************************)
EXTENDS RemediationPlan, Sequences

CONSTANTS Task,       \* tasks of the remediation agent about the container
          Deployed,   \* limits the container is deployed with, in bytes
          Claimed,    \* readings of the limit a caller sends, in bytes
          Asked,      \* limits a caller asks scale_memory for, in megabytes
          MaxPlans    \* bound: captured plans not undone yet

ASSUME DeployedAssumption ==
    Deployed \subseteq Nat /\ Claimed \subseteq Nat /\ Asked \subseteq Int

ASSUME BoundAssumption == MaxPlans \in Nat

VARIABLES limit,     \* HostConfig.Memory of the container
          proposed,  \* task.metadata["plan"]: limit_mb, and the reading behind it
          plans,     \* captured plans, newest last: limit_mb, None if not known
          before,    \* history: the limit when the plan was captured
          reading    \* history: the reading behind the last step, when that was
                     \* a remediation, or None

vars == <<limit, proposed, plans, before, reading>>

----------------------------------------------------------------------------
\* Mutants of Captured: the value is read after the change; "or None" is lost.
CapturedAfter(bytes, target) == Clamp(target)
CapturedZero(bytes, target) == bytes \div Mb

\* _build_rollback: int(memory_limit_bytes / 1_048_576) or None.
Captured(bytes, target) == IF bytes \div Mb = 0 THEN None ELSE bytes \div Mb

\* The scale_memory handler: docker update --memory <clamped>m.
ScaledTo(mb) == Clamp(mb) * Mb

Init == /\ limit \in Deployed
        /\ proposed = [t \in Task |-> None]
        /\ plans = <<>>
        /\ before = <<>>
        /\ reading = None

\* scale_memory through the tool server.  The metrics may be out of reach
\* when the plan is captured, and the call goes ahead.
Scale(mb) ==
    /\ Len(plans) < MaxPlans
    /\ limit' = ScaledTo(mb)
    /\ \E plan \in {Captured(limit, mb), None} : plans' = Append(plans, plan)
    /\ before' = Append(before, limit)

\* The readings an incident may come with: what get_metrics says now, nothing
\* (no metrics, or no limit among the signals: 0), or what the caller supplied.
Readings == {limit, 0} \cup Claimed

\* A memory incident is planned for, or planned for again.  The plan depends on
\* nothing but the reading, so that the time a reading travels before it is
\* planned with is no other than the time a plan waits before it is applied.
Propose(t) ==
    /\ \E bytes \in Readings :
        proposed' = [proposed EXCEPT ![t] = [limit_mb |-> TargetMb(bytes), read |-> bytes]]
    /\ reading' = None
    /\ UNCHANGED <<limit, plans, before>>

\* The arguments stored at plan time are applied, not recomputed.  A plan that is
\* declined, refused or lost is one that is never applied.
Remediate(t) ==
    /\ proposed[t] # None
    /\ Scale(proposed[t].limit_mb)
    /\ reading' = proposed[t].read
    /\ proposed' = [proposed EXCEPT ![t] = None]

\* Any other caller with the operator's token.
Operate ==
    /\ \E mb \in Asked : Scale(mb)
    /\ reading' = None
    /\ UNCHANGED proposed

\* restore_memory with the newest plan; without a limit int(None) raises and
\* nothing changes.
Undo ==
    /\ plans # <<>>
    /\ limit' = IF plans[Len(plans)] = None THEN limit
                ELSE ScaledTo(plans[Len(plans)])
    /\ plans' = SubSeq(plans, 1, Len(plans) - 1)
    /\ before' = SubSeq(before, 1, Len(before) - 1)
    /\ reading' = None
    /\ UNCHANGED proposed

Next ==
    \/ \E t \in Task : Propose(t) \/ Remediate(t)
    \/ Operate
    \/ Undo

Spec == Init /\ [][Next]_vars

----------------------------------------------------------------------------
\* A whole number of megabytes within the clamp.
Exact(bytes) == bytes % Mb = 0 /\ bytes \div Mb \in MemoryMinMb..MemoryMaxMb

\* A limit is one the container was deployed with or one of 64 to 4096 whole
\* megabytes, as is every limit proposed; one history entry for each plan, and
\* no plan holds 0.
LimitsTypeOK ==
    /\ limit \in Nat
    /\ limit \in Deployed \/ Exact(limit)
    /\ proposed \in [Task -> [limit_mb: MemoryMinMb..MemoryMaxMb, read: Nat] \cup {None}]
    /\ plans \in Seq((Nat \ {0}) \cup {None})
    /\ before \in Seq(Nat)
    /\ Len(plans) = Len(before)
    /\ reading \in Nat \cup {None}

\* A captured plan takes back just what came after it, a limit lowered by a plan
\* made of an old reading included: undone newest first, a chain of changes is
\* retraced limit by limit, for limits in the tools' range.
UndoRetraces ==
    \A i \in 1..Len(plans) :
        plans[i] # None /\ Exact(before[i]) => ScaledTo(plans[i]) = before[i]

\* However long its plan waited and whatever was set meanwhile, a remediation
\* never leaves less than the limit it was planned from, up to the largest the
\* tools may set, and doubles it until it gets there, but for the part of a
\* megabyte cut off.  It takes memory away, then, only from a container whose
\* limit was raised since it was read, or was not read.
RemediationGrows ==
    reading # None /\ reading \in 1..(MemoryMaxMb * Mb) =>
        /\ limit >= reading
        /\ limit > 2 * (reading - Mb) \/ limit = MemoryMaxMb * Mb

----------------------------------------------------------------------------
\* What makes these inductive.

\* A plan with a limit holds the whole megabytes there were before the change.
PlansAreInverses ==
    \A i \in 1..Len(plans) : plans[i] # None => plans[i] = before[i] \div Mb

\* A task keeps the limit computed from its reading.
ProposalsAreSized ==
    \A t \in Task :
        proposed[t] # None => proposed[t].limit_mb = TargetMb(proposed[t].read)

\* A remediation left the limit computed from its reading.
RemediationIsSized ==
    reading # None => limit = ScaledTo(TargetMb(reading))
=============================================================================
