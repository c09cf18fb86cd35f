----------------------- MODULE OpsToolServiceProofs ------------------------
(***************************************************************************)
(* Proofs about OpsToolService, for every registry, every set of requests  *)
(* and every value of the ceilings and bounds.                             *)
(***************************************************************************)
EXTENDS OpsToolServiceAudit, ReversibilityProofs, SequenceTheorems,
        FiniteSetTheorems

\* Removing the platform's arguments leaves arguments, and tells the domain's
\* own arguments apart.
LEMMA DomainArgumentsType ==
    ASSUME NEW d \in Domain
    PROVE  /\ DomainArguments(d) \in Arguments
           /\ HashParams[DomainArguments(d)] \in Hash
<1>1. DomainArguments(d) \in Arguments
  BY DEF DomainArguments, Arguments
<1> QED
  BY <1>1, HashAssumption

\* With a hash that does not collide, equal hashes mean equal arguments.
LEMMA SameHashSameDomain ==
    ASSUME NEW c \in Domain, NEW d \in Domain,
           HashParams[DomainArguments(c)] = HashParams[DomainArguments(d)]
    PROVE  c = d
<1>1. DomainArguments(c) = DomainArguments(d)
  BY DomainArgumentsType, HashAssumption
<1> QED
  BY <1>1 DEF DomainArguments

\* The fields of a request.
LEMMA RequestType ==
    ASSUME NEW q \in Requests
    PROVE  /\ q.token \in Token
           /\ q.tool \in Tool \cup {None}
           /\ q.arguments \in Arguments
           /\ q.arguments.domain \in Domain
           /\ q.arguments.episode_id \in Episode \cup {None}
           /\ q.arguments.approval_ref \in Ref \cup {None}
           /\ q.arguments.approver \in Approver \cup {None}
           /\ HashParams[q.arguments] \in Hash
<1>1. q \in Request
  BY RequestAssumption
<1>2. q.token \in Token /\ q.tool \in Tool \cup {None} /\ q.arguments \in Arguments
  BY <1>1 DEF Request
<1> QED
  BY <1>2, HashAssumption DEF Arguments

\* A row made from a known tool and typed fields is an audit row.
LEMMA RowType ==
    ASSUME NEW t \in Tool, NEW a \in Arguments,
           NEW decision \in Decision \cup {"denied_by_tier", "read",
                                  "approval_mismatch", "human_approved"},
           NEW approver \in Approver \cup {None},
           NEW rollback_ref \in Ref \cup Tool \cup {None},
           NEW outcome \in {"ok", "error", None}
    PROVE  Row(t, a, decision, approver, rollback_ref, outcome) \in AuditRow
BY HashAssumption DEF Row, AuditRow

\* Requests that get as far as a tool, and as far as an incident.
LEMMA KnownTool ==
    ASSUME NEW q \in Requests, Known(q)
    PROVE  q.tool \in Tool
BY DEF Known

LEMMA AttributedCall ==
    ASSUME NEW q \in Requests, Attributed(q)
    PROVE  q.tool \in Tool /\ q.arguments.episode_id \in Episode
BY RequestType DEF Attributed, Write, Permitted, Known

LEMMA PresentedCall ==
    ASSUME NEW q \in Requests, Presented(q)
    PROVE  /\ q.tool \in Tool
           /\ q.arguments.episode_id \in Episode
           /\ q.arguments.approval_ref \in Ref
           /\ q.arguments.approver \in Approver
           /\ pending[q.arguments.approval_ref] # None
<1>1. Attributed(q) /\ q.arguments.approval_ref # None
      /\ q.arguments.approver # None /\ pending[q.arguments.approval_ref] # None
  BY DEF Presented, Held, Claimed
<1> QED
  BY <1>1, AttributedCall, RequestType

\* ReversibilityGate.rule returns a Decision, and the tool's inverse is a
\* tool's name or absent.
LEMMA ToolType ==
    ASSUME NEW t \in Tool, NEW cost \in Nat
    PROVE  /\ Rule(t, cost) \in Decision
           /\ Risk[t].rollback_tool \in Tool \cup {None}
           /\ RollbackPlan(Rule(t, cost)) \subseteq {"captured", "blank", None}
<1>1. Risk[t] \in RiskDeclaration
  BY RiskAssumption
<1>2. Risk[t].rollback_tool \in Tool \cup {None}
  BY <1>1 DEF RiskDeclaration
<1> QED
  BY <1>2 DEF Rule, Decision, RollbackPlan

----------------------------------------------------------------------------
\* Type correctness.

LEMMA ErrorType ==
    Outcome("error", None, None, None) \in Outcomes
BY DEF Outcome, Outcomes

\* An unaudited failure changes the answer only.
LEMMA FailUnauditedType ==
    ASSUME TypeOK, FailUnaudited PROVE TypeOK'
BY ErrorType DEF TypeOK, FailUnaudited, history

LEMMA DeniedByTierType ==
    ASSUME TypeOK, NEW q \in Requests, DeniedByTier(q) PROVE TypeOK'
<1> DEFINE row == Row(q.tool, q.arguments, "denied_by_tier", None, None, None)
<1>1. q.tool \in Tool /\ q.arguments \in Arguments
  BY RequestType, KnownTool DEF DeniedByTier
<1>2. row \in AuditRow
  BY <1>1, RowType
<1>3. ledger' \in Seq(AuditRow)
  BY <1>2, AppendProperties DEF DeniedByTier, TypeOK
<1> QED
  BY <1>3, ErrorType DEF DeniedByTier, TypeOK, history

LEMMA MismatchType ==
    ASSUME TypeOK, NEW q \in Requests, Mismatch(q) PROVE TypeOK'
<1> DEFINE row == Row(q.tool, DomainArguments(q.arguments.domain),
                      "approval_mismatch", q.arguments.approver, None, None)
<1>1. q.tool \in Tool /\ q.arguments.approver \in Approver
  BY PresentedCall DEF Mismatch
<1>2. DomainArguments(q.arguments.domain) \in Arguments
  BY RequestType, DomainArgumentsType
<1>3. row \in AuditRow
  BY <1>1, <1>2, RowType
<1>4. ledger' \in Seq(AuditRow)
  BY <1>3, AppendProperties DEF Mismatch, TypeOK
<1> QED
  BY <1>4, ErrorType DEF Mismatch, TypeOK, history

\* An execution starts.
LEMMA ReadType ==
    ASSUME TypeOK, NEW q \in Requests, Read(q)
    PROVE  TypeOK' /\ inflight' \in Execution
<1>1. q.tool \in Tool /\ q.arguments \in Arguments
  BY RequestType, KnownTool DEF Read, Permitted
<1>2. inflight' \in Execution
  BY <1>1 DEF Read, Start, Execution
<1> QED
  BY <1>2 DEF Read, TypeOK, history

\* An execution starts.
LEMMA ReleaseType ==
    ASSUME TypeOK, NEW q \in Requests, Release(q)
    PROVE  TypeOK' /\ inflight' \in Execution
<1> DEFINE r == q.arguments.approval_ref
           e == q.arguments.episode_id
           call == [tool |-> q.tool, domain |-> q.arguments.domain, episode |-> e]
<1>1. q.tool \in Tool /\ e \in Episode /\ r \in Ref /\ q.arguments.approver \in Approver
  BY PresentedCall DEF Release
<1>2. q.arguments.domain \in Domain /\ DomainArguments(q.arguments.domain) \in Arguments
  BY RequestType, DomainArgumentsType
<1>3. inflight' \in Execution
  BY <1>1, <1>2 DEF Release, Start, Execution
<1>4. spent' \in [Episode -> Nat]
  BY <1>1, WeightPositive DEF Release, TypeOK, Charged
<1>5. pending' \in [Ref -> PendingApproval \cup {None}]
  BY DEF Release, Consume, TypeOK
<1>6. call \in HeldCall
  BY <1>1, <1>2 DEF HeldCall
<1>7. Append(released[r], call) \in Seq(HeldCall)
  BY <1>1, <1>6, AppendProperties DEF TypeOK
<1>8. released' = [released EXCEPT ![r] = Append(released[r], call)]
  BY <1>1 DEF Release, TypeOK
<1>9. released' \in [Ref -> Seq(HeldCall)]
  BY <1>7, <1>8 DEF TypeOK
<1> QED
  BY <1>3, <1>4, <1>5, <1>9 DEF Release, TypeOK

LEMMA RequireHumanType ==
    ASSUME TypeOK, NEW q \in Requests, NEW r \in Ref, RequireHuman(q, r)
    PROVE  TypeOK'
<1> DEFINE domain_args == DomainArguments(q.arguments.domain)
           e == q.arguments.episode_id
           row == Row(q.tool, domain_args, "require_human", None, r, None)
<1>1. q.tool \in Tool /\ e \in Episode
  BY AttributedCall DEF RequireHuman, Unclaimed
<1>2. q.arguments.domain \in Domain /\ domain_args \in Arguments
      /\ HashParams[domain_args] \in Hash
  BY RequestType, DomainArgumentsType
<1>3. row \in AuditRow
  BY <1>1, <1>2, RowType DEF Decision
<1>4. ledger' \in Seq(AuditRow)
  BY <1>3, AppendProperties DEF RequireHuman, TypeOK
<1>5. pending' \in [Ref -> PendingApproval \cup {None}]
  BY <1>1, <1>2 DEF RequireHuman, TypeOK, PendingApproval
<1>6. refused' \in [Ref -> HeldCall \cup {None}]
  BY <1>1, <1>2 DEF RequireHuman, TypeOK, HeldCall
<1>7. reply' \in Outcomes
  BY DEF RequireHuman, Outcome, Outcomes
<1> QED
  BY <1>4, <1>5, <1>6, <1>7 DEF RequireHuman, TypeOK

\* An execution starts.
LEMMA ApplyType ==
    ASSUME TypeOK, NEW q \in Requests, Apply(q)
    PROVE  TypeOK' /\ inflight' \in Execution
<1> DEFINE e == q.arguments.episode_id
           decision == Rule(q.tool, spent[e])
<1>1. q.tool \in Tool /\ e \in Episode
  BY AttributedCall DEF Apply, Unclaimed
<1>2. DomainArguments(q.arguments.domain) \in Arguments
  BY RequestType, DomainArgumentsType
<1>3. spent[e] \in Nat /\ alone[e] \in Nat /\ Weight(q.tool) \in Nat
  BY <1>1, WeightPositive DEF TypeOK
<1>4. decision \in Autonomous
  BY <1>1, <1>3, AloneIsBounded DEF Apply, Autonomous
<1>5. Risk[q.tool].rollback_tool \in Tool \cup {None}
      /\ RollbackPlan(decision) \subseteq {"captured", "blank", None}
  BY <1>1, <1>3, ToolType
<1>6. inflight' \in Execution
  BY <1>1, <1>2, <1>4, <1>5 DEF Apply, Start, Execution
<1>7. spent' \in [Episode -> Nat] /\ alone' \in [Episode -> Nat]
  BY <1>1, <1>3 DEF Apply, TypeOK, Charged
<1> QED
  BY <1>6, <1>7 DEF Apply, TypeOK

LEMMA HandlerType ==
    ASSUME TypeOK, NEW outcome \in {"ok", "error"}, Handler(outcome)
    PROVE  TypeOK'
<1>1. inflight \in Execution
  BY DEF Handler, TypeOK
<1>2. inflight' \in Execution
  BY <1>1 DEF Handler, Execution
<1> QED
  BY <1>2 DEF Handler, TypeOK, history

LEMMA RecordOutcomeType ==
    ASSUME TypeOK, RecordOutcome PROVE TypeOK'
<1>1. inflight \in Execution /\ inflight.outcome \in {"ok", "error"}
  BY DEF RecordOutcome, Returned, TypeOK, Execution
<1> DEFINE row == Row(inflight.tool, inflight.arguments, inflight.decision,
                      inflight.approver, inflight.rollback_ref, inflight.outcome)
<1>2. row \in AuditRow
  BY <1>1, RowType DEF Execution, Autonomous, Decision
<1>3. ledger' \in Seq(AuditRow)
  BY <1>2, AppendProperties DEF RecordOutcome, TypeOK
<1>4. reply' \in Outcomes
  BY <1>1 DEF RecordOutcome, Outcome, Outcomes, Execution
<1> QED
  BY <1>3, <1>4 DEF RecordOutcome, TypeOK, history

LEMMA RestartType ==
    ASSUME TypeOK, Restart PROVE TypeOK'
BY DEF Restart, TypeOK

\* Every variable keeps its type in every step.
LEMMA TypeStep ==
    ASSUME TypeOK, [Next]_vars PROVE TypeOK'
<1>1. ASSUME NEW q \in Requests, Call(q) PROVE TypeOK'
  <2>1. CASE FailUnaudited
    BY <2>1, FailUnauditedType
  <2>2. CASE DeniedByTier(q)
    BY <2>2, DeniedByTierType
  <2>3. CASE Read(q)
    BY <2>3, ReadType
  <2>4. CASE Mismatch(q)
    BY <2>4, MismatchType
  <2>5. CASE Release(q)
    BY <2>5, ReleaseType
  <2>6. CASE \E r \in Ref : RequireHuman(q, r)
    BY <2>6, RequireHumanType
  <2>7. CASE Apply(q)
    BY <2>7, ApplyType
  <2> QED
    BY <1>1, <2>1, <2>2, <2>3, <2>4, <2>5, <2>6, <2>7
    DEF Call, RejectRequest, UnknownTool, NoEpisode, UnknownRef, NoApprover
<1>2. ASSUME NEW outcome \in {"ok", "error"}, Handler(outcome) PROVE TypeOK'
  BY <1>2, HandlerType
<1>3. CASE RecordOutcome
  BY <1>3, RecordOutcomeType
<1>4. CASE Restart
  BY <1>4, RestartType
<1>5. CASE UNCHANGED vars
  BY <1>5 DEF vars, TypeOK
<1> QED
  BY <1>1, <1>2, <1>3, <1>4, <1>5 DEF Next

LEMMA TypeInit == Init => TypeOK
BY DEF Init, TypeOK

\* The service's state always has the types TypeOK states.
THEOREM TypeCorrect == Spec => []TypeOK
BY TypeInit, TypeStep, PTL DEF Spec
----------------------------------------------------------------------------
\* Approvals: the three maps indexed by reference.

Approvals == HeldAsRefused /\ ReleasedAsRefused

\* Only three kinds of step touch an approval.
LEMMA ApprovalFrame ==
    ASSUME [Next]_vars,
           ~ \E q \in Requests : Release(q),
           ~ \E q \in Requests, r \in Ref : RequireHuman(q, r),
           ~ Restart
    PROVE  UNCHANGED <<pending, refused, released>>
<1>1. ASSUME NEW q \in Requests, Call(q)
      PROVE  UNCHANGED <<pending, refused, released>>
  BY <1>1 DEF Call, RejectRequest, UnknownTool, DeniedByTier, Read, NoEpisode,
     UnknownRef, NoApprover, Mismatch, Apply, FailUnaudited, history
<1>2. ASSUME NEW outcome \in {"ok", "error"}, Handler(outcome)
      PROVE  UNCHANGED <<pending, refused, released>>
  BY <1>2 DEF Handler, history
<1>3. RecordOutcome => UNCHANGED <<pending, refused, released>>
  BY DEF RecordOutcome, history
<1>4. UNCHANGED vars => UNCHANGED <<pending, refused, released>>
  BY DEF vars
<1> QED
  BY <1>1, <1>2, <1>3, <1>4 DEF Next

\* A release executes what was refused under the reference it uses up: equal
\* hashes mean equal arguments.
LEMMA ReleaseKeepsApprovals ==
    ASSUME TypeOK, Approvals, NEW q \in Requests, Release(q)
    PROVE  Approvals'
<1> DEFINE r == q.arguments.approval_ref
           call == [tool |-> q.tool, domain |-> q.arguments.domain,
                    episode |-> q.arguments.episode_id]
<1>1. q.tool \in Tool /\ r \in Ref /\ pending[r] # None
      /\ q.arguments.episode_id \in Episode
  BY PresentedCall DEF Release
<1>2. refused[r] # None /\ refused[r] \in HeldCall /\ released[r] = <<>>
      /\ pending[r] = [tool |-> refused[r].tool,
                       params_hash |-> HashParams[DomainArguments(refused[r].domain)]]
  BY <1>1 DEF Approvals, HeldAsRefused, TypeOK
<1>3. pending[r] = [tool |-> q.tool,
                    params_hash |-> HashParams[DomainArguments(q.arguments.domain)]]
  BY DEF Release, Matches
<1>4. q.tool = refused[r].tool
  BY <1>2, <1>3
<1>5. HashParams[DomainArguments(q.arguments.domain)]
        = HashParams[DomainArguments(refused[r].domain)]
  BY <1>2, <1>3
<1>6. q.arguments.domain = refused[r].domain
  BY <1>2, <1>5, RequestType, SameHashSameDomain DEF HeldCall
<1>7. pending' = [pending EXCEPT ![r] = None] /\ refused' = refused
      /\ released' = [released EXCEPT ![r] = Append(released[r], call)]
  BY <1>1 DEF Release, Consume, TypeOK
<1>8. released'[r] = <<call>>
  BY <1>1, <1>2, <1>7 DEF TypeOK
<1>9. Len(released'[r]) = 1 /\ released'[r][1] = call
  BY <1>8
<1>10. pending'[r] = None
  BY <1>1, <1>7 DEF TypeOK
<1>11. \A s \in Ref : s # r => pending'[s] = pending[s] /\ released'[s] = released[s]
  BY <1>7 DEF TypeOK
<1>12. HeldAsRefused'
  BY <1>7, <1>10, <1>11 DEF Approvals, HeldAsRefused
<1>13. ReleasedAsRefused'
  BY <1>2, <1>4, <1>6, <1>7, <1>9, <1>11 DEF Approvals, ReleasedAsRefused
<1> QED
  BY <1>12, <1>13 DEF Approvals

\* A refusal uses a reference that has no history.
LEMMA RefusalKeepsApprovals ==
    ASSUME TypeOK, Approvals, NEW q \in Requests, NEW r \in Ref, RequireHuman(q, r)
    PROVE  Approvals'
<1> DEFINE call == [tool |-> q.tool, domain |-> q.arguments.domain,
                    episode |-> q.arguments.episode_id]
           held == [tool |-> q.tool,
                    params_hash |-> HashParams[DomainArguments(q.arguments.domain)]]
<1>1. q.tool \in Tool /\ q.arguments.episode_id \in Episode
      /\ q.arguments.domain \in Domain
  BY AttributedCall, RequestType DEF RequireHuman, Unclaimed
<1>2. refused[r] = None /\ released[r] = <<>>
  BY DEF RequireHuman, Approvals, ReleasedAsRefused
<1>3. pending' = [pending EXCEPT ![r] = held] /\ released' = released
      /\ refused' = [refused EXCEPT ![r] = call]
  BY DEF RequireHuman
<1>4. pending'[r] = held /\ refused'[r] = call /\ refused'[r] # None
  BY <1>1, <1>3, AbsenceAssumption DEF TypeOK
<1>5. \A s \in Ref : s # r => pending'[s] = pending[s] /\ refused'[s] = refused[s]
  BY <1>3 DEF TypeOK
<1>6. HeldAsRefused'
  <2> SUFFICES ASSUME NEW s \in Ref, pending'[s] # None
               PROVE  /\ refused'[s] # None
                      /\ pending'[s] = [tool |-> refused'[s].tool,
                           params_hash |->
                             HashParams[DomainArguments(refused'[s].domain)]]
                      /\ released'[s] = <<>>
    BY DEF HeldAsRefused
  <2>1. CASE s = r
    BY <2>1, <1>2, <1>3, <1>4
  <2>2. CASE s # r
    BY <2>2, <1>3, <1>5 DEF Approvals, HeldAsRefused
  <2> QED
    BY <2>1, <2>2
<1>7. ReleasedAsRefused'
  BY <1>2, <1>3, <1>5 DEF Approvals, ReleasedAsRefused
<1> QED
  BY <1>6, <1>7 DEF Approvals

LEMMA RestartKeepsApprovals ==
    ASSUME TypeOK, Approvals, Restart PROVE Approvals'
BY DEF Restart, Approvals, HeldAsRefused, ReleasedAsRefused

LEMMA ApprovalsStep ==
    ASSUME TypeOK, Approvals, [Next]_vars PROVE Approvals'
<1>1. CASE \E q \in Requests : Release(q)
  BY <1>1, ReleaseKeepsApprovals
<1>2. CASE \E q \in Requests, r \in Ref : RequireHuman(q, r)
  BY <1>2, RefusalKeepsApprovals
<1>3. CASE Restart
  BY <1>3, RestartKeepsApprovals
<1>4. CASE /\ ~ \E q \in Requests : Release(q)
           /\ ~ \E q \in Requests, r \in Ref : RequireHuman(q, r)
           /\ ~ Restart
  <2>1. UNCHANGED <<pending, refused, released>>
    BY <1>4, ApprovalFrame
  <2> QED
    BY <2>1 DEF Approvals, HeldAsRefused, ReleasedAsRefused
<1> QED
  BY <1>1, <1>2, <1>3, <1>4

LEMMA ApprovalsInit == Init => Approvals
BY DEF Init, Approvals, HeldAsRefused, ReleasedAsRefused

LEMMA ApprovalsInvariant == Spec => [](TypeOK /\ Approvals)
<1>1. Init => TypeOK /\ Approvals
  BY TypeInit, ApprovalsInit
<1>2. TypeOK /\ Approvals /\ [Next]_vars => (TypeOK /\ Approvals)'
  BY TypeStep, ApprovalsStep
<1> QED
  BY <1>1, <1>2, PTL DEF Spec

\* Whatever is presented and whenever the server restarts, an approval runs
\* at most once, and runs the tool and arguments a human was shown.
THEOREM ApprovalRunsOnceAsRefused == Spec => []ReleasedAsRefused
BY ApprovalsInvariant, PTL DEF Approvals

\* Only the execution it authorises, or a restart, takes an approval away.
THEOREM ApprovalIsNotBurnt == Spec => ApprovalNotBurnt
<1> DEFINE Kept == \A r \in Ref :
        pending[r] # None /\ pending'[r] # pending[r] =>
            Len(released'[r]) = Len(released[r]) + 1 \/ restarts' # restarts
<1>1. TypeOK /\ Approvals /\ [Next]_vars => [Kept]_vars
  <2> SUFFICES ASSUME TypeOK, Approvals, [Next]_vars, NEW r \in Ref,
                      pending[r] # None, pending'[r] # pending[r]
               PROVE  Len(released'[r]) = Len(released[r]) + 1
                      \/ restarts' # restarts
    OBVIOUS
  <2>1. ASSUME NEW q \in Requests, Release(q)
        PROVE  Len(released'[r]) = Len(released[r]) + 1
    <3>1. q.arguments.approval_ref = r
      BY <2>1, PresentedCall DEF Release, Consume, TypeOK
    <3> DEFINE call == [tool |-> q.tool, domain |-> q.arguments.domain,
                        episode |-> q.arguments.episode_id]
    <3>2. q.tool \in Tool /\ q.arguments.episode_id \in Episode
          /\ q.arguments.domain \in Domain
      BY <2>1, PresentedCall, RequestType DEF Release
    <3>3. released'[r] = Append(released[r], call)
      BY <2>1, <3>1 DEF Release, TypeOK
    <3> QED
      BY <3>2, <3>3, AppendProperties DEF TypeOK, HeldCall
  <2>2. ASSUME NEW q \in Requests, NEW s \in Ref, RequireHuman(q, s) PROVE FALSE
    BY <2>2 DEF RequireHuman, Approvals, HeldAsRefused, TypeOK
  <2>3. Restart => restarts' # restarts
    BY DEF Restart, TypeOK
  <2> QED
    BY <2>1, <2>2, <2>3, ApprovalFrame
<1> QED
  BY <1>1, ApprovalsInvariant, PTL DEF Spec, ApprovalNotBurnt
----------------------------------------------------------------------------
\* Budgets.

Autonomy == AloneWithinSpent /\ AutonomyBounded

\* One more start adds one ceiling.
LEMMA CeilingArithmetic ==
    ASSUME NEW n \in Nat
    PROVE  /\ EpisodeCeiling * n \in Nat
           /\ EpisodeCeiling * (n + 1) = EpisodeCeiling * n + EpisodeCeiling
           /\ EpisodeCeiling * 0 = 0
BY CeilingAssumption

LEMMA ReleaseKeepsAutonomy ==
    ASSUME TypeOK, Autonomy, NEW q \in Requests, Release(q) PROVE Autonomy'
<1> DEFINE e == q.arguments.episode_id
<1>1. e \in Episode /\ Weight(q.tool) \in Nat
  BY PresentedCall, WeightPositive DEF Release
<1>2. spent' = [spent EXCEPT ![e] = spent[e] + Weight(q.tool)]
      /\ alone' = alone /\ restarts' = restarts
  BY <1>1 DEF Release, Charged, TypeOK
<1>3. \A f \in Episode : spent'[f] \in Nat /\ spent'[f] >= spent[f]
  BY <1>1, <1>2 DEF TypeOK
<1>4. AloneWithinSpent'
  <2> SUFFICES ASSUME NEW f \in Episode
               PROVE  alone'[f] <= EpisodeCeiling * restarts' + spent'[f]
    BY DEF AloneWithinSpent
  <2>1. alone[f] <= EpisodeCeiling * restarts + spent[f]
    BY DEF Autonomy, AloneWithinSpent
  <2>2. alone[f] \in Nat /\ spent[f] \in Nat /\ EpisodeCeiling * restarts \in Nat
    BY CeilingArithmetic DEF TypeOK
  <2> QED
    BY <2>1, <2>2, <1>2, <1>3
<1> QED
  BY <1>2, <1>4 DEF Autonomy, AutonomyBounded

LEMMA ApplyKeepsAutonomy ==
    ASSUME TypeOK, Autonomy, NEW q \in Requests, Apply(q) PROVE Autonomy'
<1> DEFINE e == q.arguments.episode_id
           cost == Weight(q.tool)
<1>1. q.tool \in Tool /\ e \in Episode /\ cost \in Nat
  BY AttributedCall, WeightPositive DEF Apply, Unclaimed
<1>2. spent[e] \in Nat /\ alone[e] \in Nat /\ restarts \in Nat
  BY <1>1 DEF TypeOK
<1>3. spent[e] + cost <= EpisodeCeiling
  BY <1>1, <1>2, AloneIsBounded DEF Apply
<1>4. spent' = [spent EXCEPT ![e] = spent[e] + cost]
      /\ alone' = [alone EXCEPT ![e] = alone[e] + cost] /\ restarts' = restarts
  BY <1>1 DEF Apply, Charged, TypeOK
<1>5. alone[e] <= EpisodeCeiling * restarts + spent[e]
  BY <1>1 DEF Autonomy, AloneWithinSpent
<1>6. EpisodeCeiling * restarts \in Nat
      /\ EpisodeCeiling * (restarts + 1) = EpisodeCeiling * restarts + EpisodeCeiling
  BY <1>2, CeilingArithmetic
<1>7. spent'[e] = spent[e] + cost /\ alone'[e] = alone[e] + cost
  BY <1>1, <1>4 DEF TypeOK
<1>8. alone'[e] <= EpisodeCeiling * restarts + spent'[e]
  BY <1>1, <1>2, <1>5, <1>6, <1>7
<1>9. alone'[e] <= EpisodeCeiling * (restarts + 1)
  BY <1>1, <1>2, <1>3, <1>6, <1>7, <1>8, CeilingAssumption
<1>10. \A f \in Episode : f # e => spent'[f] = spent[f] /\ alone'[f] = alone[f]
  BY <1>4 DEF TypeOK
<1>11. AloneWithinSpent'
  BY <1>4, <1>8, <1>10 DEF Autonomy, AloneWithinSpent
<1>12. AutonomyBounded'
  BY <1>4, <1>9, <1>10 DEF Autonomy, AutonomyBounded
<1> QED
  BY <1>11, <1>12 DEF Autonomy

\* The budgets start again at zero, and the bound moves up by one ceiling.
LEMMA RestartKeepsAutonomy ==
    ASSUME TypeOK, Autonomy, Restart PROVE Autonomy'
<1>1. restarts' = restarts + 1 /\ alone' = alone /\ spent' = [e \in Episode |-> 0]
  BY DEF Restart
<1>2. restarts \in Nat /\ \A e \in Episode : alone[e] \in Nat
  BY DEF TypeOK
<1>3. \A e \in Episode : alone[e] <= EpisodeCeiling * (restarts + 1)
  BY DEF Autonomy, AutonomyBounded
<1>4. EpisodeCeiling * (restarts + 1) \in Nat
      /\ EpisodeCeiling * (restarts + 1 + 1)
            = EpisodeCeiling * (restarts + 1) + EpisodeCeiling
  BY <1>2, CeilingArithmetic
<1>5. AloneWithinSpent'
  BY <1>1, <1>2, <1>3, <1>4 DEF AloneWithinSpent
<1>6. AutonomyBounded'
  BY <1>1, <1>2, <1>3, <1>4, CeilingAssumption DEF AutonomyBounded
<1> QED
  BY <1>5, <1>6 DEF Autonomy

LEMMA AutonomyStep ==
    ASSUME TypeOK, Autonomy, [Next]_vars PROVE Autonomy'
<1>1. ASSUME UNCHANGED <<spent, alone, restarts>> PROVE Autonomy'
  BY <1>1 DEF Autonomy, AloneWithinSpent, AutonomyBounded
<1>2. ASSUME NEW q \in Requests, Call(q) PROVE Autonomy'
  <2>1. CASE Release(q)
    BY <2>1, ReleaseKeepsAutonomy
  <2>2. CASE Apply(q)
    BY <2>2, ApplyKeepsAutonomy
  <2>3. CASE ~Release(q) /\ ~Apply(q)
    BY <1>1, <1>2, <2>3 DEF Call, RejectRequest, UnknownTool, DeniedByTier, Read,
       NoEpisode, UnknownRef, NoApprover, Mismatch, RequireHuman, FailUnaudited,
       history
  <2> QED
    BY <2>1, <2>2, <2>3
<1>3. ASSUME NEW outcome \in {"ok", "error"}, Handler(outcome) PROVE Autonomy'
  BY <1>1, <1>3 DEF Handler, history
<1>4. CASE RecordOutcome
  BY <1>1, <1>4 DEF RecordOutcome, history
<1>5. CASE Restart
  BY <1>5, RestartKeepsAutonomy
<1>6. CASE UNCHANGED vars
  BY <1>1, <1>6 DEF vars
<1> QED
  BY <1>2, <1>3, <1>4, <1>5, <1>6 DEF Next

LEMMA AutonomyInit == Init => Autonomy
<1> SUFFICES ASSUME Init PROVE Autonomy
  OBVIOUS
<1>1. EpisodeCeiling * 0 = 0 /\ EpisodeCeiling * (0 + 1) = EpisodeCeiling * 0 + EpisodeCeiling
  BY CeilingArithmetic
<1> QED
  BY <1>1, CeilingAssumption DEF Init, Autonomy, AloneWithinSpent, AutonomyBounded

LEMMA AutonomyInvariant == Spec => [](TypeOK /\ Autonomy)
<1>1. Init => TypeOK /\ Autonomy
  BY TypeInit, AutonomyInit
<1>2. TypeOK /\ Autonomy /\ [Next]_vars => (TypeOK /\ Autonomy)'
  BY TypeStep, AutonomyStep
<1> QED
  BY <1>1, <1>2, PTL DEF Spec

\* Whatever is called and whatever humans approve, an incident moves alone at
\* most the episode ceiling for every start of the server.
THEOREM EpisodeCeilingHolds == Spec => []AutonomyBounded
BY AutonomyInvariant, PTL DEF Autonomy
----------------------------------------------------------------------------
\* What runs alone, and what is on record.

\* A call that starts alone is neither categorical nor heavy.
LEMMA ApplyIsBounded ==
    ASSUME TypeOK, NEW q \in Requests, Apply(q)
    PROVE  /\ inflight'.tool = q.tool
           /\ ~Categorical(q.tool)
           /\ Weight(q.tool) <= AutoCeiling
<1>1. q.tool \in Tool /\ q.arguments.episode_id \in Episode
  BY AttributedCall DEF Apply, Unclaimed
<1>2. spent[q.arguments.episode_id] \in Nat
  BY <1>1 DEF TypeOK
<1>3. ~Categorical(q.tool) /\ Weight(q.tool) <= AutoCeiling
  BY <1>1, <1>2, AloneIsBounded DEF Apply
<1> QED
  BY <1>3 DEF Apply, Start

\* Appending a row adds an element at the end and moves none.
LEMMA AppendedRow ==
    ASSUME NEW old \in Seq(AuditRow), NEW row, NEW i \in 1..Len(Append(old, row)),
           row \in AuditRow
    PROVE  \/ i \in 1..Len(old) /\ Append(old, row)[i] = old[i]
           \/ i = Len(old) + 1 /\ Append(old, row)[i] = row
BY AppendProperties

LEMMA KeptRow ==
    ASSUME NEW old \in Seq(AuditRow), NEW row \in AuditRow, NEW i \in 1..Len(old)
    PROVE  i \in 1..Len(Append(old, row)) /\ Append(old, row)[i] = old[i]
BY AppendProperties

\* A row that is not of something run alone keeps the property.
LEMMA OtherRowKeepsCategory ==
    ASSUME TypeOK, NothingCategoricalAlone, NEW row \in AuditRow,
           row.decision \notin Autonomous \/
               (~Categorical(row.tool) /\ Weight(row.tool) <= AutoCeiling),
           ledger' = Append(ledger, row),
           inflight' = None \/ inflight' = inflight
    PROVE  NothingCategoricalAlone'
<1>1. ledger \in Seq(AuditRow)
  BY DEF TypeOK
<1>2. ASSUME NEW i \in 1..Len(ledger'), ledger'[i].decision \in Autonomous
      PROVE  ~Categorical(ledger'[i].tool) /\ Weight(ledger'[i].tool) <= AutoCeiling
  BY <1>1, <1>2, AppendedRow DEF NothingCategoricalAlone
<1> QED
  BY <1>2 DEF NothingCategoricalAlone

LEMMA CategoryStep ==
    ASSUME TypeOK, NothingCategoricalAlone, [Next]_vars
    PROVE  NothingCategoricalAlone'
<1>1. ASSUME UNCHANGED <<ledger, inflight>> PROVE NothingCategoricalAlone'
  BY <1>1 DEF NothingCategoricalAlone
<1>2. ASSUME ledger' = ledger, inflight'.decision \notin Autonomous
      PROVE  NothingCategoricalAlone'
  BY <1>2 DEF NothingCategoricalAlone
<1>3. ASSUME NEW q \in Requests, Call(q) PROVE NothingCategoricalAlone'
  <2>1. CASE DeniedByTier(q)
    <3>1. q.tool \in Tool /\ q.arguments \in Arguments
      BY <2>1, RequestType DEF DeniedByTier, Known
    <3>2. Row(q.tool, q.arguments, "denied_by_tier", None, None, None) \in AuditRow
      BY <3>1, RowType
    <3> QED
      BY <2>1, <3>2, OtherRowKeepsCategory DEF DeniedByTier, Row, Autonomous
  <2>2. CASE Mismatch(q)
    <3>1. q.tool \in Tool /\ q.arguments.approver \in Approver
          /\ DomainArguments(q.arguments.domain) \in Arguments
      BY <2>2, PresentedCall, RequestType, DomainArgumentsType DEF Mismatch
    <3>2. Row(q.tool, DomainArguments(q.arguments.domain), "approval_mismatch",
              q.arguments.approver, None, None) \in AuditRow
      BY <3>1, RowType
    <3> QED
      BY <2>2, <3>2, OtherRowKeepsCategory DEF Mismatch, Row, Autonomous
  <2>3. CASE \E r \in Ref : RequireHuman(q, r)
    <3> PICK r \in Ref : RequireHuman(q, r)
      BY <2>3
    <3>1. q.tool \in Tool /\ DomainArguments(q.arguments.domain) \in Arguments
      BY AttributedCall, RequestType, DomainArgumentsType DEF RequireHuman, Unclaimed
    <3>2. Row(q.tool, DomainArguments(q.arguments.domain), "require_human",
              None, r, None) \in AuditRow
      BY <3>1, RowType DEF Decision
    <3> QED
      BY <3>2, OtherRowKeepsCategory DEF RequireHuman, Row, Autonomous
  <2>4. CASE Read(q)
    BY <1>2, <2>4 DEF Read, Start, Autonomous
  <2>5. CASE Release(q)
    BY <1>2, <2>5 DEF Release, Start, Autonomous
  <2>6. CASE Apply(q)
    <3>1. ledger' = ledger
      BY <2>6 DEF Apply
    <3> QED
      BY <2>6, <3>1, ApplyIsBounded DEF NothingCategoricalAlone
  <2>7. CASE FailUnaudited
    BY <1>1, <2>7 DEF FailUnaudited
  <2> QED
    BY <1>3, <2>1, <2>2, <2>3, <2>4, <2>5, <2>6, <2>7
    DEF Call, RejectRequest, UnknownTool, NoEpisode, UnknownRef, NoApprover
<1>4. ASSUME NEW outcome \in {"ok", "error"}, Handler(outcome)
      PROVE  NothingCategoricalAlone'
  <2>1. inflight \in Execution /\ inflight # None
    BY <1>4 DEF Handler, TypeOK
  <2>2. inflight'.decision = inflight.decision /\ inflight'.tool = inflight.tool
    BY <1>4, <2>1 DEF Handler, Execution
  <2> QED
    BY <1>4, <2>1, <2>2 DEF Handler, NothingCategoricalAlone
<1>5. CASE RecordOutcome
  <2> DEFINE row == Row(inflight.tool, inflight.arguments, inflight.decision,
                        inflight.approver, inflight.rollback_ref, inflight.outcome)
  <2>1. inflight \in Execution /\ inflight # None
        /\ inflight.outcome \in {"ok", "error"}
    BY <1>5 DEF RecordOutcome, Returned, TypeOK, Execution
  <2>2. row \in AuditRow
    BY <2>1, RowType DEF Execution, Autonomous, Decision
  <2>3. row.decision = inflight.decision /\ row.tool = inflight.tool
    BY DEF Row
  <2>4. row.decision \notin Autonomous \/
            (~Categorical(row.tool) /\ Weight(row.tool) <= AutoCeiling)
    BY <2>1, <2>3 DEF NothingCategoricalAlone
  <2>5. ledger' = Append(ledger, row) /\ inflight' = None
    BY <1>5 DEF RecordOutcome
  <2> QED
    BY <2>2, <2>4, <2>5, OtherRowKeepsCategory
<1>6. CASE Restart
  BY <1>6 DEF Restart, NothingCategoricalAlone
<1>7. CASE UNCHANGED vars
  BY <1>1, <1>7 DEF vars
<1> QED
  BY <1>3, <1>4, <1>5, <1>6, <1>7 DEF Next

\* For every registry and every ceilings: nothing that touches data without
\* being reversible, nothing irreversible and nothing above the per-action
\* ceiling is started, or recorded, without a human.
THEOREM DataNeedsAHuman == Spec => []NothingCategoricalAlone
<1>1. Init => TypeOK /\ NothingCategoricalAlone
  BY TypeInit DEF Init, NothingCategoricalAlone
<1>2. TypeOK /\ NothingCategoricalAlone /\ [Next]_vars
        => (TypeOK /\ NothingCategoricalAlone)'
  BY TypeStep, CategoryStep
<1> QED
  BY <1>1, <1>2, PTL DEF Spec
----------------------------------------------------------------------------
\* Every usable approval is on record.

\* The ledger only grows, and no other step makes an approval.
LEMMA OnRecordFrame ==
    ASSUME TypeOK, PendingIsOnRecord,
           ledger' = ledger \/ (\E row \in AuditRow : ledger' = Append(ledger, row)),
           \A r \in Ref : pending'[r] = None \/ pending'[r] = pending[r]
    PROVE  PendingIsOnRecord'
<1> SUFFICES ASSUME NEW r \in Ref, pending'[r] # None
             PROVE  \E i \in 1..Len(ledger') :
                        /\ ledger'[i].decision = "require_human"
                        /\ ledger'[i].rollback_ref = r
                        /\ ledger'[i].tool = pending'[r].tool
                        /\ ledger'[i].params_hash = pending'[r].params_hash
  BY DEF PendingIsOnRecord
<1>1. pending'[r] = pending[r] /\ pending[r] # None
  OBVIOUS
<1>2. PICK i \in 1..Len(ledger) :
            /\ ledger[i].decision = "require_human"
            /\ ledger[i].rollback_ref = r
            /\ ledger[i].tool = pending[r].tool
            /\ ledger[i].params_hash = pending[r].params_hash
  BY <1>1 DEF PendingIsOnRecord
<1>3. i \in 1..Len(ledger') /\ ledger'[i] = ledger[i]
  BY KeptRow DEF TypeOK
<1> QED
  BY <1>1, <1>2, <1>3

LEMMA RefusalIsOnRecord ==
    ASSUME TypeOK, PendingIsOnRecord, NEW q \in Requests, NEW r \in Ref,
           RequireHuman(q, r)
    PROVE  PendingIsOnRecord'
<1> DEFINE args == DomainArguments(q.arguments.domain)
           row == Row(q.tool, args, "require_human", None, r, None)
           held == [tool |-> q.tool, params_hash |-> HashParams[args]]
<1>1. q.tool \in Tool /\ args \in Arguments
  BY AttributedCall, RequestType, DomainArgumentsType DEF RequireHuman, Unclaimed
<1>2. row \in AuditRow
  BY <1>1, RowType DEF Decision
<1>3. ledger' = Append(ledger, row) /\ pending' = [pending EXCEPT ![r] = held]
  BY DEF RequireHuman
<1>4. Len(ledger) + 1 \in 1..Len(ledger') /\ ledger'[Len(ledger) + 1] = row
  BY <1>2, <1>3, AppendProperties DEF TypeOK
<1>5. pending'[r] = held
  BY <1>3 DEF TypeOK
<1> SUFFICES ASSUME NEW s \in Ref, pending'[s] # None
             PROVE  \E i \in 1..Len(ledger') :
                        /\ ledger'[i].decision = "require_human"
                        /\ ledger'[i].rollback_ref = s
                        /\ ledger'[i].tool = pending'[s].tool
                        /\ ledger'[i].params_hash = pending'[s].params_hash
  BY DEF PendingIsOnRecord
<1>6. CASE s = r
  <2>1. /\ row.decision = "require_human" /\ row.rollback_ref = r
        /\ row.tool = held.tool /\ row.params_hash = held.params_hash
    BY DEF Row
  <2> QED
    BY <1>4, <1>5, <1>6, <2>1
<1>7. CASE s # r
  <2>1. pending'[s] = pending[s]
    BY <1>3, <1>7 DEF TypeOK
  <2>2. PICK i \in 1..Len(ledger) :
              /\ ledger[i].decision = "require_human"
              /\ ledger[i].rollback_ref = s
              /\ ledger[i].tool = pending[s].tool
              /\ ledger[i].params_hash = pending[s].params_hash
    BY <2>1 DEF PendingIsOnRecord
  <2>3. i \in 1..Len(ledger') /\ ledger'[i] = ledger[i]
    BY <1>2, <1>3, KeptRow DEF TypeOK
  <2> QED
    BY <2>1, <2>2, <2>3
<1> QED
  BY <1>6, <1>7

LEMMA OnRecordStep ==
    ASSUME TypeOK, PendingIsOnRecord, [Next]_vars PROVE PendingIsOnRecord'
<1>1. ASSUME NEW q \in Requests, Call(q) PROVE PendingIsOnRecord'
  <2>1. CASE \E r \in Ref : RequireHuman(q, r)
    BY <2>1, RefusalIsOnRecord
  <2>2. CASE DeniedByTier(q)
    <3>1. q.tool \in Tool /\ q.arguments \in Arguments
      BY <2>2, RequestType DEF DeniedByTier, Known
    <3>2. Row(q.tool, q.arguments, "denied_by_tier", None, None, None) \in AuditRow
      BY <3>1, RowType
    <3> QED
      BY <2>2, <3>2, OnRecordFrame DEF DeniedByTier
  <2>3. CASE Mismatch(q)
    <3>1. q.tool \in Tool /\ q.arguments.approver \in Approver
          /\ DomainArguments(q.arguments.domain) \in Arguments
      BY <2>3, PresentedCall, RequestType, DomainArgumentsType DEF Mismatch
    <3>2. Row(q.tool, DomainArguments(q.arguments.domain), "approval_mismatch",
              q.arguments.approver, None, None) \in AuditRow
      BY <3>1, RowType
    <3> QED
      BY <2>3, <3>2, OnRecordFrame DEF Mismatch
  <2>4. CASE Release(q)
    <3>1. \A s \in Ref : pending'[s] = None \/ pending'[s] = pending[s]
      BY <2>4 DEF Release, Consume, TypeOK
    <3>2. ledger' = ledger
      BY <2>4 DEF Release
    <3> QED
      BY <3>1, <3>2, OnRecordFrame
  <2>5. CASE Apply(q) \/ Read(q) \/ FailUnaudited
    <3>1. ledger' = ledger /\ pending' = pending
      BY <2>5 DEF Apply, Read, FailUnaudited
    <3> QED
      BY <3>1, OnRecordFrame
  <2> QED
    BY <1>1, <2>1, <2>2, <2>3, <2>4, <2>5
    DEF Call, RejectRequest, UnknownTool, NoEpisode, UnknownRef, NoApprover
<1>2. ASSUME NEW outcome \in {"ok", "error"}, Handler(outcome)
      PROVE  PendingIsOnRecord'
  BY <1>2, OnRecordFrame DEF Handler
<1>3. CASE RecordOutcome
  <2> DEFINE row == Row(inflight.tool, inflight.arguments, inflight.decision,
                        inflight.approver, inflight.rollback_ref, inflight.outcome)
  <2>1. inflight \in Execution /\ inflight.outcome \in {"ok", "error"}
    BY <1>3 DEF RecordOutcome, Returned, TypeOK, Execution
  <2>2. row \in AuditRow
    BY <2>1, RowType DEF Execution, Autonomous, Decision
  <2>3. ledger' = Append(ledger, row) /\ pending' = pending
    BY <1>3 DEF RecordOutcome
  <2> QED
    BY <2>2, <2>3, OnRecordFrame
<1>4. CASE Restart
  BY <1>4 DEF Restart, PendingIsOnRecord
<1>5. CASE UNCHANGED vars
  BY <1>5, OnRecordFrame DEF vars
<1> QED
  BY <1>1, <1>2, <1>3, <1>4, <1>5 DEF Next

\* An approval that can release anything has its refusal in the ledger.
THEOREM ApprovalsAreOnRecord == Spec => []PendingIsOnRecord
<1>1. Init => TypeOK /\ PendingIsOnRecord
  BY TypeInit DEF Init, PendingIsOnRecord
<1>2. TypeOK /\ PendingIsOnRecord /\ [Next]_vars => (TypeOK /\ PendingIsOnRecord)'
  BY TypeStep, OnRecordStep
<1> QED
  BY <1>1, <1>2, PTL DEF Spec

----------------------------------------------------------------------------
\* The service implements Consent.

LEMMA PromiseInit == Init => Promise!Init
BY DEF Init, Promise!Init

LEMMA ReleaseKeepsPromise ==
    ASSUME TypeOK, Approvals, NEW q \in Requests, Release(q)
    PROVE  Promise!Next
<1> DEFINE r == q.arguments.approval_ref
           call == [tool |-> q.tool, domain |-> q.arguments.domain,
                    episode |-> q.arguments.episode_id]
<1>1. q.tool \in Tool /\ r \in Ref /\ pending[r] # None
      /\ q.arguments.episode_id \in Episode /\ q.arguments.domain \in Domain
  BY PresentedCall, RequestType DEF Release
<1>2. refused[r] # None /\ refused[r] \in HeldCall /\ released[r] = <<>>
  BY <1>1 DEF Approvals, HeldAsRefused, TypeOK
<1>3. Approvals'
  BY ReleaseKeepsApprovals
<1>4. refused' = refused /\ alone' = alone /\ restarts' = restarts
  BY DEF Release
<1>5. released' = [released EXCEPT ![r] = <<call>>]
  BY <1>1, <1>2 DEF Release, TypeOK
<1>6. released'[r] = <<call>>
  BY <1>1, <1>5 DEF TypeOK
<1>7. q.tool = refused[r].tool /\ q.arguments.domain = refused[r].domain
  BY <1>1, <1>3, <1>4, <1>6 DEF Approvals, ReleasedAsRefused
<1>8. [tool |-> refused[r].tool, domain |-> refused[r].domain] # None
  BY <1>2, AbsenceAssumption DEF HeldCall
<1> DEFINE action == [tool |-> refused[r].tool, domain |-> refused[r].domain]
           Ran(calls) == IF calls = <<>> THEN <<>>
                         ELSE [i \in 1..Len(calls) |->
                                [tool |-> calls[i].tool, domain |-> calls[i].domain]]
           asked == [s \in Ref |->
                        IF refused[s] = None THEN None
                        ELSE [tool |-> refused[s].tool, domain |-> refused[s].domain]]
           done == [s \in Ref |-> Ran(released[s])]
<1>9. Ran(released'[r]) = <<action>>
  <2>1. Len(<<call>>) = 1 /\ <<call>>[1] = call /\ <<call>> # <<>>
    OBVIOUS
  <2>2. Ran(<<call>>) = [i \in 1..1 |-> action]
    BY <1>7, <2>1
  <2>3. [i \in 1..1 |-> action] = <<action>>
    OBVIOUS
  <2> QED
    BY <1>6, <2>2, <2>3
<1>10. asked[r] = action /\ asked' = asked /\ done[r] = <<>>
  BY <1>1, <1>2, <1>4
<1>11. done' = [done EXCEPT ![r] = <<action>>]
  <2>1. done' = [s \in Ref |-> Ran(released'[s])]
    OBVIOUS
  <2>2. \A s \in Ref : s # r => released'[s] = released[s]
    BY <1>5 DEF TypeOK
  <2> HIDE DEF Ran
  <2>3. \A s \in Ref : Ran(released'[s]) = IF s = r THEN <<action>> ELSE Ran(released[s])
    BY <1>9, <2>2
  <2> QED
    BY <2>1, <2>3
<1>12. Promise!ActWithConsent(r)
  BY <1>4, <1>8, <1>10, <1>11 DEF Promise!ActWithConsent
<1> QED
  BY <1>1, <1>12 DEF Promise!Next

LEMMA RefusalKeepsPromise ==
    ASSUME TypeOK, NEW q \in Requests, NEW r \in Ref, RequireHuman(q, r)
    PROVE  Promise!Next
<1> DEFINE action == [tool |-> q.tool, domain |-> q.arguments.domain]
           call == [tool |-> q.tool, domain |-> q.arguments.domain,
                    episode |-> q.arguments.episode_id]
<1>1. q.tool \in Tool /\ q.arguments.episode_id \in Episode
      /\ q.arguments.domain \in Domain
  BY AttributedCall, RequestType DEF RequireHuman, Unclaimed
<1>2. refused[r] = None /\ refused' = [refused EXCEPT ![r] = call]
      /\ released' = released /\ alone' = alone /\ restarts' = restarts
  BY DEF RequireHuman
<1>3. refused'[r] = call /\ call # None
  BY <1>1, <1>2, AbsenceAssumption DEF TypeOK
<1>4. Promise!Ask(r, action)
  BY <1>1, <1>2, <1>3 DEF TypeOK, Promise!Ask
<1>5. action \in [tool: Tool, domain: Domain]
  BY <1>1
<1> QED
  BY <1>4, <1>5 DEF Promise!Next

LEMMA ApplyKeepsPromise ==
    ASSUME TypeOK, Autonomy, NEW q \in Requests, Apply(q)
    PROVE  Promise!Next
<1> DEFINE e == q.arguments.episode_id
           cost == Weight(q.tool)
<1>1. q.tool \in Tool /\ e \in Episode
  BY AttributedCall DEF Apply, Unclaimed
<1>2. ~Categorical(q.tool)
  BY ApplyIsBounded
<1>3. alone' = [alone EXCEPT ![e] = alone[e] + cost] /\ alone[e] + cost = alone'[e]
      /\ refused' = refused /\ released' = released /\ restarts' = restarts
  BY <1>1 DEF Apply, TypeOK
<1>4. alone'[e] <= EpisodeCeiling * (restarts + 1)
  BY <1>1, <1>3, ApplyKeepsAutonomy DEF Autonomy, AutonomyBounded
<1>5. Promise!ActAlone(e, cost)
  BY <1>3, <1>4 DEF Promise!ActAlone, Promise!Allowance
<1>6. cost \in {Weight(t) : t \in {u \in Tool : ~Categorical(u)}}
  BY <1>1, <1>2
<1> QED
  BY <1>1, <1>5, <1>6 DEF Promise!Next

LEMMA PromiseStep ==
    ASSUME TypeOK, Approvals, Autonomy, [Next]_vars
    PROVE  [Promise!Next]_(Promise!vars)
<1>1. ASSUME UNCHANGED history PROVE UNCHANGED Promise!vars
  BY <1>1 DEF history, Promise!vars
<1>2. ASSUME NEW q \in Requests, Call(q) PROVE [Promise!Next]_(Promise!vars)
  <2>1. CASE Release(q)
    BY <2>1, ReleaseKeepsPromise
  <2>2. CASE \E r \in Ref : RequireHuman(q, r)
    BY <2>2, RefusalKeepsPromise
  <2>3. CASE Apply(q)
    BY <2>3, ApplyKeepsPromise
  <2>4. CASE /\ ~Release(q) /\ ~Apply(q)
             /\ ~ \E r \in Ref : RequireHuman(q, r)
    <3>1. UNCHANGED history
      BY <1>2, <2>4 DEF Call, RejectRequest, UnknownTool, DeniedByTier, Read,
         NoEpisode, UnknownRef, NoApprover, Mismatch, FailUnaudited
    <3> QED
      BY <1>1, <3>1
  <2> QED
    BY <2>1, <2>2, <2>3, <2>4
<1>3. ASSUME NEW outcome \in {"ok", "error"}, Handler(outcome)
      PROVE  [Promise!Next]_(Promise!vars)
  BY <1>1, <1>3 DEF Handler
<1>4. CASE RecordOutcome
  BY <1>1, <1>4 DEF RecordOutcome
<1>5. CASE Restart
  <2>1. Promise!Reboot
    BY <1>5 DEF Restart, Promise!Reboot
  <2> QED
    BY <2>1 DEF Promise!Next
<1>6. CASE UNCHANGED vars
  BY <1>1, <1>6 DEF vars, history
<1> QED
  BY <1>2, <1>3, <1>4, <1>5, <1>6 DEF Next

\* The detailed service implements the abstract promise: consent once, as
\* asked, or autonomy within the allowance.
THEOREM ServiceKeepsConsent == Spec => ConsentKept
<1>1. TypeOK /\ Approvals /\ Autonomy /\ [Next]_vars => [Promise!Next]_(Promise!vars)
  BY PromiseStep
<1> QED
  BY <1>1, PromiseInit, ApprovalsInvariant, AutonomyInvariant, PTL
  DEF Spec, ConsentKept, Promise!Spec

----------------------------------------------------------------------------
\* The answers, and the rows they speak of.

\* The newest row is the one just written.
LEMMA NewestRow ==
    ASSUME ledger \in Seq(AuditRow), NEW row \in AuditRow,
           ledger' = Append(ledger, row)
    PROVE  ledger' # <<>> /\ Last(ledger)' = row
BY AppendProperties DEF Last


\* What a refusal, and the end of an execution, leave behind.
LEMMA RefusalIsAnswered ==
    ASSUME TypeOK, NEW q \in Requests, NEW r \in Ref, RequireHuman(q, r)
    PROVE  AnswerIsOnRecord'
<1> DEFINE domain_args == DomainArguments(q.arguments.domain)
           row == Row(q.tool, domain_args, "require_human", None, r, None)
<1>1. q.tool \in Tool /\ domain_args \in Arguments
  BY AttributedCall, RequestType, DomainArgumentsType DEF RequireHuman, Unclaimed
<1>2. row \in AuditRow
  BY <1>1, RowType DEF Decision
<1>3. ledger' = Append(ledger, row) /\ ledger \in Seq(AuditRow)
  BY DEF RequireHuman, TypeOK
<1>4. ledger' # <<>> /\ Last(ledger)' = row
  BY <1>2, <1>3, NewestRow
<1>5. row.decision = "require_human" /\ row.rollback_ref = r
  BY DEF Row
<1> HIDE DEF row
<1>6. reply'.status = "approval_required" /\ reply'.decision = "require_human"
      /\ reply'.approval_ref = r
  BY DEF RequireHuman, Outcome
<1> QED
  BY <1>4, <1>5, <1>6 DEF AnswerIsOnRecord

LEMMA ExecutionIsAnswered ==
    ASSUME TypeOK, RecordOutcome
    PROVE  AnswerIsOnRecord'
<1>1. inflight \in Execution /\ inflight.outcome \in {"ok", "error"}
  BY DEF RecordOutcome, Returned, TypeOK, Execution
<1> DEFINE row == Row(inflight.tool, inflight.arguments, inflight.decision,
                      inflight.approver, inflight.rollback_ref, inflight.outcome)
<1>2. row \in AuditRow
  BY <1>1, RowType DEF Execution, Autonomous, Decision
<1>3. ledger' = Append(ledger, row) /\ ledger \in Seq(AuditRow)
  BY DEF RecordOutcome, TypeOK
<1>4. ledger' # <<>> /\ Last(ledger)' = row
  BY <1>2, <1>3, NewestRow
<1>5. row.decision = inflight.decision /\ row.outcome = inflight.outcome
  BY DEF Row
<1> HIDE DEF row
<1>6. reply'.status = inflight.outcome /\ reply'.decision = inflight.decision
  BY DEF RecordOutcome, Outcome
<1> QED
  BY <1>1, <1>4, <1>5, <1>6 DEF AnswerIsOnRecord

LEMMA AnswerStep ==
    ASSUME TypeOK, AnswerIsOnRecord, [Next]_vars PROVE AnswerIsOnRecord'
<1>1. Outcome("error", None, None, None).decision = None
  BY DEF Outcome
<1>2. ASSUME NEW q \in Requests, Call(q) PROVE AnswerIsOnRecord'
  <2>1. CASE FailUnaudited
    BY <2>1, <1>1 DEF FailUnaudited, AnswerIsOnRecord
  <2>2. CASE DeniedByTier(q)
    BY <2>2, <1>1 DEF DeniedByTier, AnswerIsOnRecord
  <2>3. CASE Mismatch(q)
    BY <2>3, <1>1 DEF Mismatch, AnswerIsOnRecord
  <2>4. CASE Read(q)
    <3>1. inflight' # None
      BY <2>4, ReadType, ExecutionAssumption
    <3> QED
      BY <3>1 DEF AnswerIsOnRecord
  <2>5. CASE Release(q)
    <3>1. inflight' # None
      BY <2>5, ReleaseType, ExecutionAssumption
    <3> QED
      BY <3>1 DEF AnswerIsOnRecord
  <2>6. CASE Apply(q)
    <3>1. inflight' # None
      BY <2>6, ApplyType, ExecutionAssumption
    <3> QED
      BY <3>1 DEF AnswerIsOnRecord
  <2>7. CASE \E r \in Ref : RequireHuman(q, r)
    BY <2>7, RefusalIsAnswered
  <2> QED
    BY <1>2, <2>1, <2>2, <2>3, <2>4, <2>5, <2>6, <2>7
    DEF Call, RejectRequest, UnknownTool, NoEpisode, UnknownRef, NoApprover
<1>3. ASSUME NEW outcome \in {"ok", "error"}, Handler(outcome)
      PROVE  AnswerIsOnRecord'
  <2>1. inflight \in Execution
    BY <1>3 DEF Handler, TypeOK
  <2>2. inflight' \in Execution
    BY <1>3, <2>1 DEF Handler, Execution
  <2> QED
    BY <2>2, ExecutionAssumption DEF AnswerIsOnRecord
<1>4. CASE RecordOutcome
  BY <1>4, ExecutionIsAnswered
<1>5. CASE Restart
  BY <1>5 DEF Restart, AnswerIsOnRecord
<1>6. CASE UNCHANGED vars
  BY <1>6 DEF vars, AnswerIsOnRecord
<1> QED
  BY <1>2, <1>3, <1>4, <1>5, <1>6 DEF Next

\* What a caller is told of a decision - which one, that it was executed, the
\* reference to approve it under - the newest row of the ledger says too: no
\* such answer without its row.
THEOREM AnswersAreOnRecord == Spec => []AnswerIsOnRecord
<1>1. Init => AnswerIsOnRecord
  BY DEF Init, AnswerIsOnRecord
<1> QED
  BY <1>1, AnswerStep, TypeCorrect, PTL DEF Spec

----------------------------------------------------------------------------
\* The refusals, counted.

\* A row of the given decision, tool and arguments.
Concerns(row, decision, call) ==
    /\ row.decision = decision
    /\ row.tool = call.tool
    /\ row.params_hash = call.params_hash

\* Counting one set more: an element that was not there.
LEMMA OneMore ==
    ASSUME NEW S, IsFiniteSet(S), NEW x, x \notin S
    PROVE  /\ IsFiniteSet(S \cup {x})
           /\ Cardinality(S) \in Nat
           /\ Cardinality(S \cup {x}) = Cardinality(S) + 1
BY FS_AddElement, FS_CardinalityType

\* The rows of a kind are counted by a natural number, and a new row counts
\* for what it is.
LEMMA RowsCounted ==
    ASSUME ledger \in Seq(AuditRow), NEW decision, NEW call
    PROVE  RowsOf(decision, call) \in Nat
<1> DEFINE S == {i \in 1..Len(ledger) :
        /\ ledger[i].decision = decision
        /\ ledger[i].tool = call.tool
        /\ ledger[i].params_hash = call.params_hash}
<1>1. IsFiniteSet(1..Len(ledger))
  BY FS_Interval
<1>2. IsFiniteSet(S)
  BY <1>1, FS_Subset
<1>3. Cardinality(S) \in Nat
  BY <1>2, FS_CardinalityType
<1> QED
  BY <1>3 DEF RowsOf

LEMMA RowCounts ==
    ASSUME ledger \in Seq(AuditRow), NEW row \in AuditRow,
           ledger' = Append(ledger, row), NEW decision, NEW call
    PROVE  RowsOf(decision, call)' =
               IF Concerns(row, decision, call)
               THEN RowsOf(decision, call) + 1 ELSE RowsOf(decision, call)
<1> DEFINE S == {i \in 1..Len(ledger) :
        /\ ledger[i].decision = decision
        /\ ledger[i].tool = call.tool
        /\ ledger[i].params_hash = call.params_hash}
           n == Len(ledger) + 1
<1>1. n \in Nat /\ n \notin S /\ n > Len(ledger) /\ Len(ledger) \in Nat
  BY LenProperties
<1>2. Len(ledger') = n /\ ledger'[n] = row
      /\ \A i \in 1..Len(ledger) : ledger'[i] = ledger[i]
  BY AppendProperties
<1>3. 1..Len(ledger') = (1..Len(ledger)) \cup {n}
  BY <1>1, <1>2
<1>4. IsFiniteSet(S)
  <2>1. IsFiniteSet(1..Len(ledger))
    BY <1>1, FS_Interval
  <2> QED
    BY <2>1, FS_Subset
<1>5. S' = IF Concerns(row, decision, call) THEN S \cup {n} ELSE S
  <2>1. S' = {i \in (1..Len(ledger)) \cup {n} : Concerns(ledger'[i], decision, call)}
    BY <1>3 DEF Concerns
  <2>2. S = {i \in 1..Len(ledger) : Concerns(ledger'[i], decision, call)}
    BY <1>2 DEF Concerns
  <2>3. Concerns(ledger'[n], decision, call) <=> Concerns(row, decision, call)
    BY <1>2
  <2> HIDE DEF S, n
  <2> QED
    BY <2>1, <2>2, <2>3
<1>6. RowsOf(decision, call) = Cardinality(S)
      /\ RowsOf(decision, call)' = Cardinality(S')
  BY DEF RowsOf
<1>7. Cardinality(S \cup {n}) = Cardinality(S) + 1
  BY <1>1, <1>4, OneMore
<1> HIDE DEF S, n
<1> QED
  BY <1>5, <1>6, <1>7

\* A call is told apart by its tool and its hash.
LEMMA SameCall ==
    ASSUME NEW call \in PendingApproval, NEW t, NEW h
    PROVE  (call = [tool |-> t, params_hash |-> h])
               <=> (call.tool = t /\ call.params_hash = h)
BY DEF PendingApproval

\* The approvals pending for one call are few as well.
LEMMA WaitingCounted ==
    ASSUME FewPending, NEW call \in PendingApproval
    PROVE  /\ IsFiniteSet({r \in Ref : pending[r] = call})
           /\ Waiting(call) \in Nat
<1>1. call # None
  BY AbsenceAssumption DEF PendingApproval
<1>2. {r \in Ref : pending[r] = call} \in SUBSET {r \in Ref : pending[r] # None}
  BY <1>1
<1>3. IsFiniteSet({r \in Ref : pending[r] = call})
  BY <1>2, FS_Subset DEF FewPending
<1> QED
  BY <1>3, FS_CardinalityType DEF Waiting

\* What is pending and what is on record for one call; nothing is being
\* executed when a call starts.
LEMMA NothingReleased ==
    ASSUME inflight = None, NEW call PROVE BeingReleased(call) = 0
BY DEF BeingReleased

Books == RefusalsAccounted /\ FewPending

\* A step that refuses nothing, uses up no approval and ends no execution.
LEMMA BooksFrame ==
    ASSUME TypeOK, Books, pending' = pending,
           \/ ledger' = ledger
           \/ \E row \in AuditRow :
                  /\ ledger' = Append(ledger, row)
                  /\ row.decision \notin {"require_human", "human_approved"},
           \A call \in PendingApproval : BeingReleased(call)' = BeingReleased(call)
    PROVE  Books'
<1>1. FewPending'
  BY DEF Books, FewPending
<1>2. ASSUME NEW call \in PendingApproval,
             NEW decision \in {"require_human", "human_approved"}
      PROVE  RowsOf(decision, call)' = RowsOf(decision, call)
  <2>1. CASE ledger' = ledger
    BY <2>1 DEF RowsOf
  <2>2. CASE \E row \in AuditRow :
                  /\ ledger' = Append(ledger, row)
                  /\ row.decision \notin {"require_human", "human_approved"}
    <3>1. PICK row \in AuditRow :
                  /\ ledger' = Append(ledger, row)
                  /\ row.decision \notin {"require_human", "human_approved"}
      BY <2>2
    <3>2. ~Concerns(row, decision, call)
      BY <3>1 DEF Concerns
    <3>3. ledger \in Seq(AuditRow)
      BY DEF TypeOK
    <3> QED
      BY <3>1, <3>2, <3>3, RowCounts
  <2> QED
    BY <2>1, <2>2
<1>3. ASSUME NEW call \in PendingApproval PROVE Waiting(call)' = Waiting(call)
  BY DEF Waiting
<1>4. RefusalsAccounted'
  BY <1>2, <1>3 DEF Books, RefusalsAccounted
<1> QED
  BY <1>1, <1>4 DEF Books

\* A refusal is a row, and an approval pending.
LEMMA RefusalKeepsBooks ==
    ASSUME TypeOK, Approvals, Books, NEW q \in Requests, NEW r \in Ref,
           RequireHuman(q, r)
    PROVE  Books'
<1> DEFINE domain_args == DomainArguments(q.arguments.domain)
           row == Row(q.tool, domain_args, "require_human", None, r, None)
           held == [tool |-> q.tool, params_hash |-> HashParams[domain_args]]
<1>1. q.tool \in Tool /\ domain_args \in Arguments /\ HashParams[domain_args] \in Hash
  BY AttributedCall, RequestType, DomainArgumentsType DEF RequireHuman, Unclaimed
<1>2. row \in AuditRow
  BY <1>1, RowType DEF Decision
<1>3. ledger' = Append(ledger, row) /\ ledger \in Seq(AuditRow)
      /\ pending' = [pending EXCEPT ![r] = held] /\ inflight' = inflight
      /\ inflight = None
  BY DEF RequireHuman, TypeOK, Room, Free
<1>4. pending[r] = None
  BY DEF RequireHuman, Approvals, HeldAsRefused
<1>5. row.decision = "require_human" /\ row.tool = q.tool
      /\ row.params_hash = HashParams[domain_args]
  BY DEF Row
<1>6. pending'[r] = held /\ \A s \in Ref : s # r => pending'[s] = pending[s]
  BY <1>3 DEF TypeOK
<1> HIDE DEF row
<1>7. ASSUME NEW call \in PendingApproval
      PROVE  RowsOf("require_human", call)' =
                RowsOf("human_approved", call)' + Waiting(call)' + BeingReleased(call)'
  <2> DEFINE S == {s \in Ref : pending[s] = call}
  <2>1. call # None
    BY AbsenceAssumption DEF PendingApproval
  <2>2. IsFiniteSet(S) /\ r \notin S
    BY <1>4, <2>1, WaitingCounted DEF Books
  <2>3. Cardinality(S) \in Nat /\ Cardinality(S \cup {r}) = Cardinality(S) + 1
    BY <2>2, OneMore
  <2>4. S' = IF call = held THEN S \cup {r} ELSE S
    BY <1>4, <1>6, <2>1
  <2>5. Waiting(call) = Cardinality(S) /\ Waiting(call)' = Cardinality(S')
    BY DEF Waiting
  <2>6. RowsOf("human_approved", call)' = RowsOf("human_approved", call)
    <3>1. ~Concerns(row, "human_approved", call)
      BY <1>5 DEF Concerns
    <3> QED
      BY <3>1, <1>2, <1>3, RowCounts
  <2>7. Concerns(row, "require_human", call) <=> call = held
    BY <1>5, SameCall DEF Concerns
  <2>8. RowsOf("require_human", call)' =
            IF call = held THEN RowsOf("require_human", call) + 1
                           ELSE RowsOf("require_human", call)
    BY <2>7, <1>2, <1>3, RowCounts
  <2>9. BeingReleased(call) = 0 /\ BeingReleased(call)' = 0
    BY <1>3, NothingReleased DEF BeingReleased
  <2>10. RowsOf("require_human", call) \in Nat
         /\ RowsOf("human_approved", call) \in Nat
    BY <1>3, RowsCounted
  <2>11. RowsOf("require_human", call) =
            RowsOf("human_approved", call) + Waiting(call) + BeingReleased(call)
    BY DEF Books, RefusalsAccounted
  <2> HIDE DEF S, held
  <2> QED
    BY <2>3, <2>4, <2>5, <2>6, <2>8, <2>9, <2>10, <2>11
<1>8. FewPending'
  <2>1. {s \in Ref : pending'[s] # None}
            \in SUBSET ({s \in Ref : pending[s] # None} \cup {r})
    BY <1>6
  <2>2. IsFiniteSet({s \in Ref : pending[s] # None} \cup {r})
    BY FS_AddElement DEF Books, FewPending
  <2>3. IsFiniteSet({s \in Ref : pending'[s] # None})
    BY <2>1, <2>2, FS_Subset
  <2> QED
    BY <2>3 DEF FewPending
<1> QED
  BY <1>7, <1>8 DEF Books, RefusalsAccounted

\* A release uses up one approval, and is under way.
LEMMA ReleaseKeepsBooks ==
    ASSUME TypeOK, Books, NEW q \in Requests, Release(q)
    PROVE  Books'
<1> DEFINE domain_args == DomainArguments(q.arguments.domain)
           r == q.arguments.approval_ref
           held == [tool |-> q.tool, params_hash |-> HashParams[domain_args]]
<1>1. r \in Ref /\ pending[r] = held
  BY PresentedCall DEF Release, Matches
<1>2. ledger' = ledger /\ ledger \in Seq(AuditRow) /\ inflight = None
      /\ pending' = [pending EXCEPT ![r] = None]
  BY DEF Release, Consume, TypeOK, Room, Free
<1>3. inflight' # None
  BY ReleaseType, ExecutionAssumption
<1>4. inflight'.decision = "human_approved" /\ inflight'.tool = q.tool
      /\ inflight'.arguments = domain_args
  BY DEF Release, Start
<1>5. pending'[r] = None /\ \A s \in Ref : s # r => pending'[s] = pending[s]
  BY <1>1, <1>2 DEF TypeOK
<1>6. ASSUME NEW call \in PendingApproval
      PROVE  RowsOf("require_human", call)' =
                RowsOf("human_approved", call)' + Waiting(call)' + BeingReleased(call)'
  <2> DEFINE S == {s \in Ref : pending[s] = call}
  <2>1. call # None
    BY AbsenceAssumption DEF PendingApproval
  <2>2. IsFiniteSet(S) /\ (r \in S <=> call = held)
    BY <1>1, <2>1, WaitingCounted DEF Books
  <2>3. S' = S \ {r}
    BY <1>5, <2>1
  <2>4. Cardinality(S) \in Nat
        /\ Cardinality(S') = IF call = held THEN Cardinality(S) - 1 ELSE Cardinality(S)
    <3>1. Cardinality(S) \in Nat
      BY <2>2, FS_CardinalityType
    <3>2. Cardinality(S \ {r}) =
              IF r \in S THEN Cardinality(S) - 1 ELSE Cardinality(S)
      BY <2>2, FS_RemoveElement
    <3> HIDE DEF S, held
    <3> QED
      BY <2>2, <2>3, <3>1, <3>2
  <2>5. Waiting(call) = Cardinality(S) /\ Waiting(call)' = Cardinality(S')
    BY DEF Waiting
  <2>6. BeingReleased(call) = 0
    BY <1>2, NothingReleased
  <2>7. BeingReleased(call)' = IF call = held THEN 1 ELSE 0
    <3>1. (call = held)
              <=> (inflight'.tool = call.tool
                   /\ HashParams[inflight'.arguments] = call.params_hash)
      BY <1>4, SameCall
    <3> HIDE DEF held
    <3> QED
      BY <1>3, <1>4, <3>1 DEF BeingReleased
  <2>8. RowsOf("require_human", call) \in Nat
        /\ RowsOf("human_approved", call) \in Nat
    BY <1>2, RowsCounted
  <2>9. RowsOf("require_human", call)' = RowsOf("require_human", call)
        /\ RowsOf("human_approved", call)' = RowsOf("human_approved", call)
    BY <1>2 DEF RowsOf
  <2>10. RowsOf("require_human", call) =
            RowsOf("human_approved", call) + Waiting(call) + BeingReleased(call)
    BY DEF Books, RefusalsAccounted
  <2> HIDE DEF S, held
  <2> QED
    BY <2>4, <2>5, <2>6, <2>7, <2>8, <2>9, <2>10
<1>7. FewPending'
  <2>1. {s \in Ref : pending'[s] # None} \in SUBSET {s \in Ref : pending[s] # None}
    BY <1>5
  <2>2. IsFiniteSet({s \in Ref : pending'[s] # None})
    BY <2>1, FS_Subset DEF Books, FewPending
  <2> QED
    BY <2>2 DEF FewPending
<1> QED
  BY <1>6, <1>7 DEF Books, RefusalsAccounted

\* An approved execution ends as a row.
LEMMA RecordKeepsBooks ==
    ASSUME TypeOK, Books, RecordOutcome
    PROVE  Books'
<1>1. inflight \in Execution /\ inflight.outcome \in {"ok", "error"}
      /\ inflight # None
  BY DEF RecordOutcome, Returned, TypeOK, Execution
<1> DEFINE row == Row(inflight.tool, inflight.arguments, inflight.decision,
                      inflight.approver, inflight.rollback_ref, inflight.outcome)
<1>2. row \in AuditRow
  BY <1>1, RowType DEF Execution, Autonomous, Decision
<1>3. ledger' = Append(ledger, row) /\ ledger \in Seq(AuditRow)
      /\ pending' = pending /\ inflight' = None
  BY DEF RecordOutcome, TypeOK
<1>4. row.decision = inflight.decision /\ row.tool = inflight.tool
      /\ row.params_hash = HashParams[inflight.arguments]
  BY DEF Row
<1>5. inflight.decision # "require_human"
  BY <1>1 DEF Execution, Autonomous
<1> HIDE DEF row
<1>6. ASSUME NEW call \in PendingApproval
      PROVE  RowsOf("require_human", call)' =
                RowsOf("human_approved", call)' + Waiting(call)' + BeingReleased(call)'
  <2>1. ~Concerns(row, "require_human", call)
    BY <1>4, <1>5 DEF Concerns
  <2>2. RowsOf("require_human", call)' = RowsOf("require_human", call)
    BY <2>1, <1>2, <1>3, RowCounts
  <2>3. RowsOf("human_approved", call)' =
            RowsOf("human_approved", call) + BeingReleased(call)
    <3>1. BeingReleased(call) =
              IF Concerns(row, "human_approved", call) THEN 1 ELSE 0
      BY <1>1, <1>4 DEF BeingReleased, Concerns
    <3>2. RowsOf("human_approved", call) \in Nat
      BY <1>3, RowsCounted
    <3> QED
      BY <3>1, <3>2, <1>2, <1>3, RowCounts
  <2>4. Waiting(call)' = Waiting(call) /\ Waiting(call) \in Nat
    BY <1>3, WaitingCounted DEF Waiting, Books
  <2>5. BeingReleased(call)' = 0 /\ BeingReleased(call) \in {0, 1}
    BY <1>3 DEF BeingReleased
  <2>6. RowsOf("human_approved", call) \in Nat
    BY <1>3, RowsCounted
  <2>7. RowsOf("require_human", call) =
            RowsOf("human_approved", call) + Waiting(call) + BeingReleased(call)
    BY DEF Books, RefusalsAccounted
  <2> QED
    BY <2>2, <2>3, <2>4, <2>5, <2>6, <2>7
<1>7. FewPending'
  BY <1>3 DEF Books, FewPending
<1> QED
  BY <1>6, <1>7 DEF Books, RefusalsAccounted

\* A start of the server begins with empty books.
NewBooks ==
    ledger = <<>> /\ pending = [r \in Ref |-> None] /\ inflight = None

LEMMA NewBooksBalance == NewBooks => Books
<1> SUFFICES ASSUME NewBooks PROVE Books
  OBVIOUS
<1>0. ledger = <<>> /\ pending = [r \in Ref |-> None] /\ inflight = None
  BY DEF NewBooks
<1>1. {r \in Ref : pending[r] # None} = {}
  BY <1>0
<1>2. FewPending
  BY <1>1, FS_EmptySet DEF FewPending
<1>3. ASSUME NEW call \in PendingApproval
      PROVE  RowsOf("require_human", call) =
                RowsOf("human_approved", call) + Waiting(call) + BeingReleased(call)
  <2>1. ASSUME NEW decision PROVE RowsOf(decision, call) = 0
    <3>1. {i \in 1..Len(ledger) :
            /\ ledger[i].decision = decision
            /\ ledger[i].tool = call.tool
            /\ ledger[i].params_hash = call.params_hash} = {}
      BY <1>0
    <3> QED
      BY <3>1, FS_EmptySet DEF RowsOf
  <2>2. {r \in Ref : pending[r] = call} = {}
    BY <1>0, AbsenceAssumption DEF PendingApproval
  <2>3. Waiting(call) = 0
    BY <2>2, FS_EmptySet DEF Waiting
  <2>4. BeingReleased(call) = 0
    BY <1>0, NothingReleased
  <2> QED
    BY <2>1, <2>3, <2>4
<1> QED
  BY <1>2, <1>3 DEF Books, RefusalsAccounted

LEMMA BooksStep ==
    ASSUME TypeOK, Approvals, Books, [Next]_vars PROVE Books' \/ NewBooks'
<1>1. ASSUME NEW q \in Requests, Call(q) PROVE Books'
  <2>1. CASE FailUnaudited
    BY <2>1, BooksFrame DEF FailUnaudited, BeingReleased
  <2>2. CASE DeniedByTier(q)
    <3> DEFINE row == Row(q.tool, q.arguments, "denied_by_tier", None, None, None)
    <3>1. row \in AuditRow /\ row.decision = "denied_by_tier"
      BY <2>2, RequestType, KnownTool, RowType DEF DeniedByTier, Row
    <3>2. ledger' = Append(ledger, row) /\ pending' = pending /\ inflight' = inflight
      BY <2>2 DEF DeniedByTier
    <3>3. \A call \in PendingApproval : BeingReleased(call)' = BeingReleased(call)
      BY <3>2 DEF BeingReleased
    <3> HIDE DEF row
    <3> QED
      BY <3>1, <3>2, <3>3, BooksFrame
  <2>3. CASE Mismatch(q)
    <3> DEFINE row == Row(q.tool, DomainArguments(q.arguments.domain),
                      "approval_mismatch", q.arguments.approver, None, None)
    <3>1. q.tool \in Tool /\ q.arguments.approver \in Approver
          /\ DomainArguments(q.arguments.domain) \in Arguments
      BY <2>3, PresentedCall, RequestType, DomainArgumentsType DEF Mismatch
    <3>2. row \in AuditRow /\ row.decision = "approval_mismatch"
      BY <3>1, RowType DEF Row
    <3>3. ledger' = Append(ledger, row) /\ pending' = pending /\ inflight' = inflight
      BY <2>3 DEF Mismatch
    <3>4. \A call \in PendingApproval : BeingReleased(call)' = BeingReleased(call)
      BY <3>3 DEF BeingReleased
    <3> HIDE DEF row
    <3> QED
      BY <3>2, <3>3, <3>4, BooksFrame
  <2>4. CASE Read(q)
    <3>1. pending' = pending /\ ledger' = ledger /\ inflight = None
          /\ inflight'.decision = "read"
      BY <2>4 DEF Read, Start, Room, Free
    <3>2. \A call \in PendingApproval : BeingReleased(call)' = BeingReleased(call)
      BY <3>1 DEF BeingReleased
    <3> QED
      BY <3>1, <3>2, BooksFrame
  <2>5. CASE Apply(q)
    <3>1. pending' = pending /\ ledger' = ledger /\ inflight = None
          /\ inflight'.decision = Rule(q.tool, spent[q.arguments.episode_id])
      BY <2>5 DEF Apply, Start, Room, Free
    <3>2. Rule(q.tool, spent[q.arguments.episode_id]) # "human_approved"
      BY DEF Rule
    <3>3. \A call \in PendingApproval : BeingReleased(call)' = BeingReleased(call)
      BY <3>1, <3>2 DEF BeingReleased
    <3> QED
      BY <3>1, <3>3, BooksFrame
  <2>6. CASE Release(q)
    BY <2>6, ReleaseKeepsBooks
  <2>7. CASE \E r \in Ref : RequireHuman(q, r)
    BY <2>7, RefusalKeepsBooks
  <2> QED
    BY <1>1, <2>1, <2>2, <2>3, <2>4, <2>5, <2>6, <2>7
    DEF Call, RejectRequest, UnknownTool, NoEpisode, UnknownRef, NoApprover
<1>2. ASSUME NEW outcome \in {"ok", "error"}, Handler(outcome) PROVE Books'
  <2>1. inflight \in Execution /\ inflight # None /\ pending' = pending
        /\ ledger' = ledger /\ inflight' = [inflight EXCEPT !.outcome = outcome]
    BY <1>2 DEF Handler, TypeOK
  <2>2. inflight' \in Execution /\ inflight'.decision = inflight.decision
        /\ inflight'.tool = inflight.tool
        /\ inflight'.arguments = inflight.arguments
    BY <2>1 DEF Execution
  <2>3. inflight' # None
    BY <2>2, ExecutionAssumption
  <2>4. \A call \in PendingApproval : BeingReleased(call)' = BeingReleased(call)
    BY <2>1, <2>2, <2>3 DEF BeingReleased
  <2> QED
    BY <2>1, <2>4, BooksFrame
<1>3. CASE RecordOutcome
  BY <1>3, RecordKeepsBooks
<1>4. CASE Restart
  BY <1>4 DEF Restart, NewBooks
<1>5. CASE UNCHANGED vars
  BY <1>5, BooksFrame DEF vars, BeingReleased
<1> QED
  BY <1>1, <1>2, <1>3, <1>4, <1>5 DEF Next

\* No refusal is lost or answered twice in the books: what was referred to a
\* human is pending, was executed with approval, or is being executed.
THEOREM EveryRefusalIsAccounted == Spec => []RefusalsAccounted
<1>1. Init => NewBooks
  BY DEF Init, NewBooks
<1>2. TypeOK /\ Approvals /\ Books /\ [Next]_vars => Books' \/ NewBooks'
  BY BooksStep
<1>3. Books => RefusalsAccounted
  BY DEF Books
<1> QED
  BY <1>1, <1>2, <1>3, NewBooksBalance, ApprovalsInvariant, PTL DEF Spec

----------------------------------------------------------------------------
\* The budgets, added up.

Balance == BudgetMatchesLedger /\ FewSpenders

LEMMA ExecutedRowsFew ==
    ASSUME ledger \in Seq(AuditRow)
    PROVE  /\ IsFiniteSet(ExecutedRows)
           /\ \A i \in ExecutedRows : Weight(ledger[i].tool) \in Nat
           /\ WeightOnRecord \in Nat
<1>1. DOMAIN ledger = 1..Len(ledger) /\ Len(ledger) \in Nat
      /\ \A i \in DOMAIN ledger : ledger[i] \in AuditRow
  BY ElementOfSeq, LenProperties
<1>2. IsFiniteSet(ExecutedRows)
  <2>1. IsFiniteSet(1..Len(ledger)) /\ ExecutedRows \in SUBSET (1..Len(ledger))
    BY <1>1, FS_Interval DEF ExecutedRows
  <2> QED
    BY <2>1, FS_Subset
<1>3. \A i \in ExecutedRows : Weight(ledger[i].tool) \in Nat
  BY <1>1, WeightPositive DEF ExecutedRows, AuditRow
<1> DEFINE w == [i \in ExecutedRows |-> Weight(ledger[i].tool)]
<1>4. DOMAIN w = ExecutedRows /\ \A i \in ExecutedRows : w[i] \in Nat
  BY <1>3
<1>5. WeightOnRecord = SumFunctionOnSet(w, ExecutedRows)
  BY <1>4 DEF WeightOnRecord, SumFunction
<1> HIDE DEF w
<1> QED
  BY <1>2, <1>3, <1>4, <1>5, SumType

\* A new row weighs what was executed, and nothing otherwise.
LEMMA RecordWeighs ==
    ASSUME ledger \in Seq(AuditRow), NEW row \in AuditRow,
           ledger' = Append(ledger, row)
    PROVE  WeightOnRecord' =
               IF row.decision \in Executed
               THEN WeightOnRecord + Weight(row.tool) ELSE WeightOnRecord
<1> DEFINE n == Len(ledger) + 1
           old == [i \in ExecutedRows |-> Weight(ledger[i].tool)]
           new == [i \in ExecutedRows' |-> Weight(ledger'[i].tool)]
<1>1. n \in Nat /\ n \notin DOMAIN ledger /\ DOMAIN ledger' = DOMAIN ledger \cup {n}
  BY LenProperties, AppendProperties
<1>2. ledger'[n] = row /\ \A i \in DOMAIN ledger : ledger'[i] = ledger[i]
  BY AppendProperties, LenProperties
<1>3. ledger' \in Seq(AuditRow)
  BY AppendProperties
<1>4. n \notin ExecutedRows
  BY <1>1 DEF ExecutedRows
<1>5. ExecutedRows' = IF row.decision \in Executed THEN ExecutedRows \cup {n}
                      ELSE ExecutedRows
  <2>1. ExecutedRows' = {i \in DOMAIN ledger \cup {n} : ledger'[i].decision \in Executed}
    BY <1>1 DEF ExecutedRows, Executed, Autonomous
  <2>2. ExecutedRows = {i \in DOMAIN ledger : ledger'[i].decision \in Executed}
    BY <1>2 DEF ExecutedRows
  <2>3. ledger'[n].decision = row.decision
    BY <1>2
  <2> HIDE DEF n
  <2> QED
    BY <2>1, <2>2, <2>3
<1>6. WeightOnRecord = SumFunctionOnSet(old, ExecutedRows)
  BY DEF WeightOnRecord, SumFunction
<1>7. WeightOnRecord' = SumFunctionOnSet(new, ExecutedRows')
  BY DEF WeightOnRecord, SumFunction
<1>8. IsFiniteSet(ExecutedRows) /\ WeightOnRecord \in Nat
  BY ExecutedRowsFew
<1>9. IsFiniteSet(ExecutedRows') /\ \A i \in ExecutedRows' : new[i] \in Nat
  <2>1. IsFiniteSet(ExecutedRows')
    BY <1>5, <1>8, FS_AddElement
  <2>2. \A i \in ExecutedRows' : ledger'[i] \in AuditRow
    BY <1>3, ElementOfSeq, LenProperties DEF ExecutedRows
  <2>3. \A i \in ExecutedRows' : Weight(ledger'[i].tool) \in Nat
    BY <2>2, WeightPositive DEF AuditRow
  <2> QED
    BY <2>1, <2>3
<1>10. \A i \in ExecutedRows : i \in ExecutedRows' /\ old[i] = new[i]
  BY <1>2, <1>5 DEF ExecutedRows
<1>11. SumFunctionOnSet(old, ExecutedRows) = SumFunctionOnSet(new, ExecutedRows)
  <2> HIDE DEF old, new
  <2> QED
    BY <1>8, <1>10, SumSame
<1>12. CASE row.decision \in Executed
  <2>1. ExecutedRows' = ExecutedRows \cup {n} /\ n \in ExecutedRows'
        /\ ExecutedRows' \ {n} = ExecutedRows
    BY <1>4, <1>5, <1>12
  <2>2. new[n] = Weight(row.tool) /\ Weight(row.tool) \in Nat
    BY <1>2, <2>1, WeightPositive DEF AuditRow
  <2> HIDE DEF old, new, n
  <2>3. SumFunctionOnSet(new, ExecutedRows') =
            new[n] + SumFunctionOnSet(new, ExecutedRows' \ {n})
    BY <1>9, <2>1, SumSplit
  <2>4. SumFunctionOnSet(new, ExecutedRows') = Weight(row.tool) + WeightOnRecord
    BY <1>6, <1>11, <2>1, <2>2, <2>3
  <2> QED
    BY <1>7, <1>8, <1>12, <2>2, <2>4
<1>13. CASE row.decision \notin Executed
  <2>1. ExecutedRows' = ExecutedRows
    BY <1>5, <1>13
  <2> HIDE DEF old, new, n
  <2> QED
    BY <1>6, <1>7, <1>11, <1>13, <2>1
<1> QED
  BY <1>12, <1>13

LEMMA SameRowsWeighTheSame ==
    ASSUME ledger' = ledger PROVE WeightOnRecord' = WeightOnRecord
<1>1. ExecutedRows' = ExecutedRows
  BY DEF ExecutedRows, Executed, Autonomous
<1>2. [i \in ExecutedRows |-> Weight(ledger[i].tool)]'
        = [i \in ExecutedRows |-> Weight(ledger[i].tool)]
  BY <1>1
<1> QED
  BY <1>2 DEF WeightOnRecord

\* A step that charges nothing, executes nothing and records nothing executed.
LEMMA BalanceFrame ==
    ASSUME TypeOK, Balance, spent' = spent, WeightInFlight' = WeightInFlight,
           \/ ledger' = ledger
           \/ \E row \in AuditRow :
                  ledger' = Append(ledger, row) /\ row.decision \notin Executed
    PROVE  Balance'
<1>1. WeightOnRecord' = WeightOnRecord
  <2>1. CASE ledger' = ledger
    BY <2>1, SameRowsWeighTheSame
  <2>2. CASE ledger' # ledger
    BY <2>2, RecordWeighs DEF TypeOK
  <2> QED
    BY <2>1, <2>2
<1>2. Spenders' = Spenders
  BY DEF Spenders
<1> QED
  BY <1>1, <1>2 DEF Balance, BudgetMatchesLedger, FewSpenders

\* A call that starts is charged what it weighs.
LEMMA ChargeKeepsBalance ==
    ASSUME TypeOK, Balance, NEW e \in Episode, NEW t \in Tool,
           spent' = [spent EXCEPT ![e] = Charged(@, Weight(t))],
           ledger' = ledger, inflight = None, inflight' # None,
           inflight'.decision \in Executed, inflight'.tool = t
    PROVE  Balance'
<1>1. spent \in [Episode -> Nat] /\ Weight(t) \in Nat /\ Weight(t) # 0
  BY WeightPositive DEF TypeOK
<1>2. spent' = [spent EXCEPT ![e] = spent[e] + Weight(t)]
  BY DEF Charged
<1>3. /\ IsFiniteSet(Spenders')
      /\ SumFunctionOnSet(spent, Spenders) \in Nat
      /\ SumFunctionOnSet(spent', Spenders') =
            SumFunctionOnSet(spent, Spenders) + Weight(t)
  <2>1. Spenders = Support(Episode, spent) /\ Spenders' = Support(Episode, spent')
    BY DEF Spenders, Support
  <2>2. IsFiniteSet(Support(Episode, spent))
    BY <2>1 DEF Balance, FewSpenders
  <2>3. /\ spent' \in [Episode -> Nat] /\ spent'[e] = spent[e] + Weight(t)
        /\ \A x \in Episode : x # e => spent'[x] = spent[x]
    BY <1>1, <1>2
  <2>4. \A g \in [Episode -> Nat] :
          g[e] = spent[e] + Weight(t) /\ (\A x \in Episode : x # e => g[x] = spent[x])
          =>
            /\ IsFiniteSet(Support(Episode, g))
            /\ SumFunctionOnSet(spent, Support(Episode, spent)) \in Nat
            /\ SumFunctionOnSet(g, Support(Episode, g)) =
                  SumFunctionOnSet(spent, Support(Episode, spent)) + Weight(t)
    BY <1>1, <2>2, SumRaised
  <2> QED
    BY <2>1, <2>3, <2>4
<1>4. WeightOnRecord' = WeightOnRecord /\ WeightOnRecord \in Nat
  BY ExecutedRowsFew, SameRowsWeighTheSame DEF TypeOK
<1>5. WeightInFlight = 0 /\ WeightInFlight' = Weight(t)
  BY DEF WeightInFlight
<1> QED
  BY <1>1, <1>3, <1>4, <1>5 DEF Balance, BudgetMatchesLedger, FewSpenders

\* A call that ends is on record for what it was charged.
LEMMA RecordKeepsBalance ==
    ASSUME TypeOK, Balance, RecordOutcome
    PROVE  Balance'
<1>1. inflight \in Execution /\ inflight.outcome \in {"ok", "error"}
      /\ inflight # None
  BY DEF RecordOutcome, Returned, TypeOK, Execution
<1> DEFINE row == Row(inflight.tool, inflight.arguments, inflight.decision,
                      inflight.approver, inflight.rollback_ref, inflight.outcome)
<1>2. row \in AuditRow
  BY <1>1, RowType DEF Execution, Autonomous, Decision
<1>3. ledger' = Append(ledger, row) /\ ledger \in Seq(AuditRow)
      /\ spent' = spent /\ inflight' = None
  BY DEF RecordOutcome, TypeOK
<1>4. row.decision = inflight.decision /\ row.tool = inflight.tool
  BY DEF Row
<1>5. Weight(inflight.tool) \in Nat /\ WeightOnRecord \in Nat
  BY <1>1, <1>3, ExecutedRowsFew, WeightPositive DEF Execution
<1> HIDE DEF row
<1>6. WeightOnRecord' = WeightOnRecord + WeightInFlight /\ WeightInFlight \in Nat
  BY <1>1, <1>2, <1>3, <1>4, <1>5, RecordWeighs DEF WeightInFlight
<1>7. WeightInFlight' = 0
  BY <1>3 DEF WeightInFlight
<1>8. Spenders' = Spenders
  BY <1>3 DEF Spenders
<1> QED
  BY <1>3, <1>5, <1>6, <1>7, <1>8 DEF Balance, BudgetMatchesLedger, FewSpenders

\* A start of the server begins with no budgets and no rows.
NewBudgets ==
    ledger = <<>> /\ spent = [e \in Episode |-> 0] /\ inflight = None

LEMMA NewBudgetsBalance == NewBudgets => Balance
<1> SUFFICES ASSUME NewBudgets PROVE Balance
  OBVIOUS
<1>0. ledger = <<>> /\ spent = [e \in Episode |-> 0] /\ inflight = None
  BY DEF NewBudgets
<1>1. Spenders = {} /\ ExecutedRows = {}
  BY <1>0 DEF Spenders, ExecutedRows
<1>2. \A f : SumFunctionOnSet(f, {}) = 0
  BY FS_EmptySet, SumStep
<1>3. WeightOnRecord = 0
  BY <1>1, <1>2 DEF WeightOnRecord, SumFunction
<1>4. WeightInFlight = 0
  BY <1>0 DEF WeightInFlight
<1> QED
  BY <1>1, <1>2, <1>3, <1>4, FS_EmptySet
  DEF Balance, BudgetMatchesLedger, FewSpenders

LEMMA BalanceStep ==
    ASSUME TypeOK, Balance, [Next]_vars PROVE Balance' \/ NewBudgets'
<1>1. ASSUME NEW q \in Requests, Call(q) PROVE Balance'
  <2>1. CASE FailUnaudited
    BY <2>1, BalanceFrame DEF FailUnaudited, WeightInFlight
  <2>2. CASE DeniedByTier(q)
    <3> DEFINE row == Row(q.tool, q.arguments, "denied_by_tier", None, None, None)
    <3>1. row \in AuditRow /\ row.decision = "denied_by_tier"
      BY <2>2, RequestType, KnownTool, RowType DEF DeniedByTier, Row
    <3>2. ledger' = Append(ledger, row) /\ spent' = spent /\ inflight' = inflight
      BY <2>2 DEF DeniedByTier
    <3> HIDE DEF row
    <3> QED
      BY <3>1, <3>2, BalanceFrame DEF WeightInFlight, Executed, Autonomous
  <2>3. CASE Mismatch(q)
    <3> DEFINE row == Row(q.tool, DomainArguments(q.arguments.domain),
                      "approval_mismatch", q.arguments.approver, None, None)
    <3>1. q.tool \in Tool /\ q.arguments.approver \in Approver
          /\ DomainArguments(q.arguments.domain) \in Arguments
      BY <2>3, PresentedCall, RequestType, DomainArgumentsType DEF Mismatch
    <3>2. row \in AuditRow /\ row.decision = "approval_mismatch"
      BY <3>1, RowType DEF Row
    <3>3. ledger' = Append(ledger, row) /\ spent' = spent /\ inflight' = inflight
      BY <2>3 DEF Mismatch
    <3> HIDE DEF row
    <3> QED
      BY <3>2, <3>3, BalanceFrame DEF WeightInFlight, Executed, Autonomous
  <2>4. CASE Read(q)
    <3>1. spent' = spent /\ ledger' = ledger /\ inflight = None
          /\ inflight'.decision = "read"
      BY <2>4 DEF Read, Start, Room, Free
    <3> QED
      BY <3>1, BalanceFrame DEF WeightInFlight, Executed, Autonomous
  <2>5. CASE Apply(q)
    <3>1. q.tool \in Tool /\ q.arguments.episode_id \in Episode
      BY <2>5, AttributedCall DEF Apply, Unclaimed
    <3>2. Rule(q.tool, spent[q.arguments.episode_id]) \in Executed
      BY <2>5 DEF Apply, Rule, Executed, Autonomous
    <3>3. inflight' # None
      BY <2>5, ApplyType, ExecutionAssumption
    <3>4. inflight = None /\ ledger' = ledger
          /\ inflight'.tool = q.tool /\ inflight'.decision \in Executed
      BY <2>5, <3>2 DEF Apply, Start, Room, Free
    <3>5. spent' = [spent EXCEPT ![q.arguments.episode_id] =
                        Charged(@, Weight(q.tool))]
      BY <2>5 DEF Apply
    <3> QED
      BY <3>1, <3>3, <3>4, <3>5, ChargeKeepsBalance
  <2>6. CASE Release(q)
    <3>1. q.tool \in Tool /\ q.arguments.episode_id \in Episode
      BY <2>6, PresentedCall DEF Release
    <3>4. inflight' # None
      BY <2>6, ReleaseType, ExecutionAssumption
    <3>2. inflight = None /\ ledger' = ledger
          /\ inflight'.tool = q.tool /\ inflight'.decision \in Executed
      BY <2>6 DEF Release, Start, Room, Free, Executed
    <3>3. spent' = [spent EXCEPT ![q.arguments.episode_id] =
                        Charged(@, Weight(q.tool))]
      BY <2>6 DEF Release
    <3> QED
      BY <3>1, <3>2, <3>3, <3>4, ChargeKeepsBalance
  <2>7. CASE \E r \in Ref : RequireHuman(q, r)
    <3>1. PICK r \in Ref : RequireHuman(q, r)
      BY <2>7
    <3> DEFINE row == Row(q.tool, DomainArguments(q.arguments.domain),
                          "require_human", None, r, None)
    <3>2. q.tool \in Tool /\ DomainArguments(q.arguments.domain) \in Arguments
      BY <3>1, AttributedCall, RequestType, DomainArgumentsType
      DEF RequireHuman, Unclaimed
    <3>3. row \in AuditRow /\ row.decision = "require_human"
      BY <3>2, RowType DEF Row, Decision
    <3>4. ledger' = Append(ledger, row) /\ spent' = spent /\ inflight' = inflight
      BY <3>1 DEF RequireHuman
    <3> HIDE DEF row
    <3> QED
      BY <3>3, <3>4, BalanceFrame DEF WeightInFlight, Executed, Autonomous
  <2> QED
    BY <1>1, <2>1, <2>2, <2>3, <2>4, <2>5, <2>6, <2>7
    DEF Call, RejectRequest, UnknownTool, NoEpisode, UnknownRef, NoApprover
<1>2. ASSUME NEW outcome \in {"ok", "error"}, Handler(outcome) PROVE Balance'
  <2>1. inflight \in Execution /\ inflight # None /\ spent' = spent
        /\ ledger' = ledger /\ inflight' = [inflight EXCEPT !.outcome = outcome]
    BY <1>2 DEF Handler, TypeOK
  <2>2. inflight' \in Execution /\ inflight'.decision = inflight.decision
        /\ inflight'.tool = inflight.tool
    BY <2>1 DEF Execution
  <2>3. inflight' # None
    BY <2>2, ExecutionAssumption
  <2> QED
    BY <2>1, <2>2, <2>3, BalanceFrame DEF WeightInFlight, Executed, Autonomous
<1>3. CASE RecordOutcome
  BY <1>3, RecordKeepsBalance
<1>4. CASE Restart
  BY <1>4 DEF Restart, NewBudgets
<1>5. CASE UNCHANGED vars
  BY <1>5, BalanceFrame DEF vars, WeightInFlight
<1> QED
  BY <1>1, <1>2, <1>3, <1>4, <1>5 DEF Next

\* The budgets and the ledger never disagree about what was executed, whether
\* its handler succeeded, failed, or is still running.
THEOREM BudgetsMatchTheLedger == Spec => []BudgetMatchesLedger
<1>1. Init => NewBudgets
  BY DEF Init, NewBudgets
<1>2. TypeOK /\ Balance /\ [Next]_vars => Balance' \/ NewBudgets'
  BY BalanceStep
<1>3. Balance => BudgetMatchesLedger
  BY DEF Balance
<1> QED
  BY <1>1, <1>2, <1>3, NewBudgetsBalance, TypeCorrect, PTL DEF Spec
=============================================================================
