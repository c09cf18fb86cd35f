--------------------------- MODULE OpsToolService --------------------------
(***************************************************************************)
(* mcp_server/server.py and the JSON-RPC endpoint of mcp_server/app.py in  *)
(* front of it: tier check, reversibility gate, approvals and audit around *)
(* every tool call.                                                        *)
(*                                                                         *)
(* The endpoint is an `async def` that calls the service synchronously, so *)
(* one call runs at a time.  It is still three steps here - deciding and   *)
(* charging, the tool's handler, the ledger row and the answer - because   *)
(* the process can stop between them and because the caller sees only the  *)
(* last.  `inflight` is the local state of the call being executed.        *)
(***************************************************************************)
EXTENDS Reversibility, Sequences, FiniteSets

CONSTANTS
    Token, Tiers,        \* bearer tokens, and the tier each one names or None
    Domain,              \* a tool's own arguments
    Episode,             \* incident identifiers
    Ref,                 \* approval references uuid4 can produce
    Approver,            \* identities a caller can give as the approver
    Hash, HashParams,    \* audit/ledger.py hash_params, SHA-256 of the arguments
    Requests,            \* the HTTP requests callers may send
    MaxRows,             \* bound: ledger rows per start of the server
    MaxRestarts          \* bound: restarts of the server process

\* The arguments of tools/call: the domain's own and the platform's three.
Arguments == [domain: Domain,
              episode_id: Episode \cup {None},
              approval_ref: Ref \cup {None},
              approver: Approver \cup {None}]

\* A tool of None is a name the registry does not have; attributed says the
\* X-Sovops-Task and X-Sovops-Agent headers are both there.
Request == [token: Token, tool: Tool \cup {None}, attributed: BOOLEAN,
            arguments: Arguments]

ASSUME RequestAssumption == Requests \subseteq Request

ASSUME TierAssumption ==
    Tiers \in [Token -> {"read_only", "operator", None}]

ASSUME HashAssumption ==
    /\ HashParams \in [Arguments -> Hash]
    /\ \A a, b \in Arguments : HashParams[a] = HashParams[b] => a = b

ASSUME BoundAssumption == MaxRows \in Nat /\ MaxRestarts \in Nat

\* None is none of the values it stands in for the absence of.
ASSUME AbsenceAssumption ==
    /\ None \notin Ref \cup Episode \cup Approver
    /\ None \notin {"read_only", "operator"}
    /\ None \notin [tool: Tool, domain: Domain, episode: Episode]
    /\ None \notin [tool: Tool, params_hash: Hash]
    /\ None \notin [tool: Tool, domain: Domain]

VARIABLES
    spent,     \* _episodes[e].spent; a new episode starts at 0 (setdefault)
    pending,   \* _pending[r], None when absent: the fields the code reads
    ledger,    \* the rows of the AuditStore
    inflight,  \* the call being executed, None when there is none
    reply,     \* the last CallOutcome, None before the first
    refused,   \* history: the call refused when r was issued
    released,  \* history: the calls executed under r
    alone,     \* history: weight applied in e with no human, over all starts
    restarts   \* history: how often the process was started again

service == <<spent, pending, ledger, inflight, reply>>
history == <<refused, released, alone, restarts>>
vars == <<spent, pending, ledger, inflight, reply,
          refused, released, alone, restarts>>

----------------------------------------------------------------------------
\* Ledger rows and answers.

\* Mutants of Row: the reference, or the outcome, is not passed on.
RowWithoutRef(tool, arguments, decision, approver, rollback_ref, outcome) ==
    [tool |-> tool, params_hash |-> HashParams[arguments],
     decision |-> decision, approver |-> approver,
     rollback_ref |-> None, outcome |-> outcome]
RowWithoutOutcome(tool, arguments, decision, approver, rollback_ref, outcome) ==
    [tool |-> tool, params_hash |-> HashParams[arguments],
     decision |-> decision, approver |-> approver,
     rollback_ref |-> rollback_ref, outcome |-> None]

Row(tool, arguments, decision, approver, rollback_ref, outcome) ==
    [tool |-> tool, params_hash |-> HashParams[arguments],
     decision |-> decision, approver |-> approver,
     rollback_ref |-> rollback_ref, outcome |-> outcome]

Outcome(status, decision, approval_ref, rollback) ==
    [status |-> status, decision |-> decision,
     approval_ref |-> approval_ref, rollback |-> rollback]

\* domain_args: what is left once the platform's own arguments are removed.
DomainArguments(domain) ==
    [domain |-> domain, episode_id |-> None,
     approval_ref |-> None, approver |-> None]

\* OpsToolService.visible_tools
VisibleTools(tier) ==
    IF tier = "operator" THEN Tool ELSE {t \in Tool : Risk[t].read_only}

Autonomous == {"auto_apply", "apply_with_rollback"}

\* A call starts when the event loop is free; one that will write a row
\* needs room for it.
Free == inflight = None
Room == Free /\ Len(ledger) < MaxRows

\* How far through the checks of `_call` a request gets.
Admitted(q) == Tiers[q.token] # None /\ q.attributed
Known(q) == Admitted(q) /\ q.tool \in Tool
Permitted(q) == Known(q) /\ q.tool \in VisibleTools(Tiers[q.token])
Write(q) == Permitted(q) /\ ~Risk[q.tool].read_only
Attributed(q) == Write(q) /\ q.arguments.episode_id # None
Claimed(q) == Attributed(q) /\ q.arguments.approval_ref # None
Unclaimed(q) == Attributed(q) /\ q.arguments.approval_ref = None
Held(q) == Claimed(q) /\ pending[q.arguments.approval_ref] # None
Presented(q) == Held(q) /\ q.arguments.approver # None

\* Mutant of Matches: only the tool is compared.
MatchesToolOnly(q) == pending[q.arguments.approval_ref].tool = q.tool

\* The pending approval is for this tool with these arguments.
Matches(q) ==
    pending[q.arguments.approval_ref] =
        [tool |-> q.tool,
         params_hash |-> HashParams[DomainArguments(q.arguments.domain)]]

\* Mutant of Consume: the approval stays usable.
ConsumeNothing(r) == pending

\* del self._pending[approval_ref]
Consume(r) == [pending EXCEPT ![r] = None]

\* An answer that leaves no trace in the service but the answer itself.
FailUnaudited ==
    /\ reply' = Outcome("error", None, None, None)
    /\ UNCHANGED <<spent, pending, ledger, inflight, history>>

\* Mutant of Start: two optional arguments of _execute in the wrong order.
StartSwapped(q, arguments, decision, approver, rollback_ref, rollback) ==
    inflight' = [tool |-> q.tool, arguments |-> arguments,
                 decision |-> decision, approver |-> rollback_ref,
                 rollback_ref |-> approver, rollback |-> rollback,
                 outcome |-> None]

\* `_execute` begins: the handler is about to run.
Start(q, arguments, decision, approver, rollback_ref, rollback) ==
    inflight' = [tool |-> q.tool, arguments |-> arguments,
                 decision |-> decision, approver |-> approver,
                 rollback_ref |-> rollback_ref, rollback |-> rollback,
                 outcome |-> None]

----------------------------------------------------------------------------
Init == /\ spent = [e \in Episode |-> 0]
        /\ pending = [r \in Ref |-> None]
        /\ ledger = <<>>
        /\ inflight = None
        /\ reply = None
        /\ refused = [r \in Ref |-> None]
        /\ released = [r \in Ref |-> <<>>]
        /\ alone = [e \in Episode |-> 0]
        /\ restarts = 0

\* An unknown token (401), or the attribution headers are missing.
RejectRequest(q) == Free /\ ~Admitted(q) /\ FailUnaudited

\* ToolRegistry.get raises KeyError.
UnknownTool(q) == Free /\ Admitted(q) /\ q.tool \notin Tool /\ FailUnaudited

\* Outside the caller's tier: audited with the full arguments, then 403.
DeniedByTier(q) ==
    /\ Room /\ Known(q) /\ ~Permitted(q)
    /\ ledger' = Append(ledger, Row(q.tool, q.arguments, "denied_by_tier",
                                    None, None, None))
    /\ reply' = Outcome("error", None, None, None)
    /\ UNCHANGED <<spent, pending, inflight, history>>

\* A read-only tool meets no gate and no budget.
Read(q) ==
    /\ Room /\ Permitted(q) /\ Risk[q.tool].read_only
    /\ Start(q, q.arguments, "read", None, None, None)
    /\ UNCHANGED <<spent, pending, ledger, reply, history>>

NoEpisode(q) == Free /\ Write(q) /\ ~Attributed(q) /\ FailUnaudited

\* An approval_ref that is not pending, then one without an approver.
UnknownRef(q) == Free /\ Claimed(q) /\ ~Held(q) /\ FailUnaudited

NoApprover(q) == Free /\ Held(q) /\ ~Presented(q) /\ FailUnaudited

\* Mutant of Mismatch: the approval is removed before it is compared.
MismatchBurns(q) ==
    /\ Room /\ Presented(q) /\ ~Matches(q)
    /\ pending' = Consume(q.arguments.approval_ref)
    /\ ledger' = Append(ledger, Row(q.tool, DomainArguments(q.arguments.domain),
                                    "approval_mismatch", q.arguments.approver,
                                    None, None))
    /\ reply' = Outcome("error", None, None, None)
    /\ UNCHANGED <<spent, inflight, history>>

\* The approval was for another action: audited, and kept.
Mismatch(q) ==
    /\ Room /\ Presented(q) /\ ~Matches(q)
    /\ ledger' = Append(ledger, Row(q.tool, DomainArguments(q.arguments.domain),
                                    "approval_mismatch", q.arguments.approver,
                                    None, None))
    /\ reply' = Outcome("error", None, None, None)
    /\ UNCHANGED <<spent, pending, inflight, history>>

\* The approved re-call: the approval is spent and the episode named by this
\* call is charged, past its ceiling if need be; the gate is not asked again.
Release(q) ==
    LET r == q.arguments.approval_ref
        e == q.arguments.episode_id
    IN  /\ Room /\ Presented(q) /\ Matches(q)
        /\ pending' = Consume(r)
        /\ spent' = [spent EXCEPT ![e] = Charged(@, Weight(q.tool))]
        /\ Start(q, DomainArguments(q.arguments.domain), "human_approved",
                 q.arguments.approver, None, None)
        /\ released' = [released EXCEPT ![r] =
                Append(@, [tool |-> q.tool, domain |-> q.arguments.domain,
                           episode |-> e])]
        /\ UNCHANGED <<ledger, reply, refused, alone, restarts>>

\* The gate refers the call to a human under a reference never used before.
RequireHuman(q, r) ==
    LET domain_args == DomainArguments(q.arguments.domain)
        e == q.arguments.episode_id
    IN  /\ Room /\ Unclaimed(q)
        /\ Rule(q.tool, spent[e]) = "require_human"
        /\ refused[r] = None
        /\ pending' = [pending EXCEPT ![r] =
                [tool |-> q.tool, params_hash |-> HashParams[domain_args]]]
        /\ ledger' = Append(ledger, Row(q.tool, domain_args, "require_human",
                                        None, r, None))
        /\ reply' = Outcome("approval_required", "require_human", r, None)
        /\ refused' = [refused EXCEPT ![r] =
                [tool |-> q.tool, domain |-> q.arguments.domain, episode |-> e]]
        /\ UNCHANGED <<spent, inflight, released, alone, restarts>>

\* What _build_rollback returns: a limit to restore, or - when the metrics
\* cannot be read, or the service has no memory limit - a plan with no limit.
RollbackPlan(decision) ==
    IF decision = "apply_with_rollback" THEN {"captured", "blank"} ELSE {None}

\* The gate lets the call run alone: rollback plan, then charge, then execute.
Apply(q) ==
    LET e == q.arguments.episode_id
        decision == Rule(q.tool, spent[e])
        cost == Weight(q.tool)
    IN  /\ Room /\ Unclaimed(q)
        /\ decision # "require_human"
        /\ \E rollback \in RollbackPlan(decision) :
               Start(q, DomainArguments(q.arguments.domain), decision, None,
                     Risk[q.tool].rollback_tool, rollback)
        /\ spent' = [spent EXCEPT ![e] = Charged(@, cost)]
        /\ alone' = [alone EXCEPT ![e] = @ + cost]
        /\ UNCHANGED <<pending, ledger, reply, refused, released, restarts>>

\* The tool's handler returns or raises; an error says nothing about whether
\* the estate was changed (a docker call that timed out may have worked).
Handler(outcome) ==
    /\ inflight # None /\ inflight.outcome = None
    /\ inflight' = [inflight EXCEPT !.outcome = outcome]
    /\ UNCHANGED <<spent, pending, ledger, reply, history>>

\* The handler is done, one way or the other.
Returned == inflight # None /\ inflight.outcome # None

\* `_execute` ends: the row is written only now, then the caller is answered.
RecordOutcome ==
    /\ Returned
    /\ ledger' = Append(ledger, Row(inflight.tool, inflight.arguments,
                    inflight.decision, inflight.approver,
                    inflight.rollback_ref, inflight.outcome))
    /\ reply' = Outcome(inflight.outcome, inflight.decision, None,
                        inflight.rollback)
    /\ inflight' = None
    /\ UNCHANGED <<spent, pending, history>>

\* The process stops, at any point, and is started again with empty maps and
\* an empty store: InMemoryAuditStore is the only AuditStore there is.
Restart ==
    /\ restarts < MaxRestarts
    /\ spent' = [e \in Episode |-> 0]
    /\ pending' = [r \in Ref |-> None]
    /\ ledger' = <<>>
    /\ inflight' = None
    /\ reply' = None
    /\ restarts' = restarts + 1
    /\ UNCHANGED <<refused, released, alone>>

Call(q) ==
    \/ RejectRequest(q)
    \/ UnknownTool(q)
    \/ DeniedByTier(q)
    \/ Read(q)
    \/ NoEpisode(q)
    \/ UnknownRef(q)
    \/ NoApprover(q)
    \/ Mismatch(q)
    \/ Release(q)
    \/ \E r \in Ref : RequireHuman(q, r)
    \/ Apply(q)

Next ==
    \/ \E q \in Requests : Call(q)
    \/ \E outcome \in {"ok", "error"} : Handler(outcome)
    \/ RecordOutcome
    \/ Restart

Spec == Init /\ [][Next]_vars

----------------------------------------------------------------------------
\* Types.

HeldCall == [tool: Tool, domain: Domain, episode: Episode]

PendingApproval == [tool: Tool, params_hash: Hash]

AuditRow == [tool: Tool, params_hash: Hash,
         decision: Decision \cup {"denied_by_tier", "read",
                                  "approval_mismatch", "human_approved"},
         approver: Approver \cup {None},
         rollback_ref: Ref \cup Tool \cup {None},
         outcome: {"ok", "error", None}]

Execution == [tool: Tool, arguments: Arguments,
              decision: Autonomous \cup {"read", "human_approved"},
              approver: Approver \cup {None},
              rollback_ref: Tool \cup {None},
              rollback: {"captured", "blank", None},
              outcome: {"ok", "error", None}]

\* Neither is it a call that is being executed.
ASSUME ExecutionAssumption == None \notin Execution

Outcomes == [status: {"ok", "approval_required", "error"},
             decision: Autonomous \cup
                       {"require_human", "read", "human_approved", None},
             approval_ref: Ref \cup {None},
             rollback: {"captured", "blank", None}]

TypeOK ==
    /\ spent \in [Episode -> Nat]
    /\ pending \in [Ref -> PendingApproval \cup {None}]
    /\ ledger \in Seq(AuditRow)
    /\ inflight \in Execution \cup {None}
    /\ reply \in Outcomes \cup {None}
    /\ refused \in [Ref -> HeldCall \cup {None}]
    /\ released \in [Ref -> Seq(HeldCall)]
    /\ alone \in [Episode -> Nat]
    /\ restarts \in Nat

----------------------------------------------------------------------------
\* Safety.

\* An approval authorises one execution, of the tool and arguments that were
\* refused (PendingApproval: "held so a human decision can release exactly
\* it"), whatever is presented, in whatever order, and across restarts.
ReleasedAsRefused ==
    \A r \in Ref :
        \/ released[r] = <<>>
        \/ /\ Len(released[r]) = 1
           /\ refused[r] # None
           /\ released[r][1].tool = refused[r].tool
           /\ released[r][1].domain = refused[r].domain

\* Within one start of the server, an incident is moved alone by at most the
\* episode ceiling, however many individually permissible calls are made and
\* whatever humans approve in between; every restart adds one ceiling.
AutonomyBounded ==
    \A e \in Episode : alone[e] <= EpisodeCeiling * (restarts + 1)

\* Nothing the gate calls categorical - data, or irreversible - and nothing
\* heavier than the per-action ceiling ever starts, or is recorded as having
\* run, without a human, whatever the ceilings are.
NothingCategoricalAlone ==
    LET Bounded(t) == ~Categorical(t) /\ Weight(t) <= AutoCeiling
    IN  /\ inflight # None =>
               (inflight.decision \in Autonomous => Bounded(inflight.tool))
        /\ \A i \in 1..Len(ledger) :
               ledger[i].decision \in Autonomous => Bounded(ledger[i].tool)

\* An approval that can be used is an approval the ledger shows: its refusal
\* is a row, for the same tool and the same arguments.
PendingIsOnRecord ==
    \A r \in Ref : pending[r] # None =>
        \E i \in 1..Len(ledger) :
            /\ ledger[i].decision = "require_human"
            /\ ledger[i].rollback_ref = r
            /\ ledger[i].tool = pending[r].tool
            /\ ledger[i].params_hash = pending[r].params_hash

\* A pending approval is used up by the execution it authorises and by
\* nothing else: presenting it with other arguments, to another tool or
\* without an approver leaves it usable (only a restart forgets it).
ApprovalNotBurnt ==
    [][\A r \in Ref :
        pending[r] # None /\ pending'[r] # pending[r] =>
            Len(released'[r]) = Len(released[r]) + 1 \/ restarts' # restarts]_vars

\* What makes the above inductive: a pending approval was issued for just
\* this and has never been used, and what an incident moved alone since the
\* last start is part of what it has spent.
HeldAsRefused ==
    \A r \in Ref : pending[r] # None =>
        /\ refused[r] # None
        /\ pending[r] = [tool |-> refused[r].tool,
                         params_hash |->
                            HashParams[DomainArguments(refused[r].domain)]]
        /\ released[r] = <<>>

AloneWithinSpent ==
    \A e \in Episode : alone[e] <= EpisodeCeiling * restarts + spent[e]

IInv == /\ TypeOK
        /\ HeldAsRefused
        /\ ReleasedAsRefused
        /\ AloneWithinSpent
        /\ AutonomyBounded
        /\ NothingCategoricalAlone
        /\ PendingIsOnRecord

\* The approvals and the budgets keep the promise of Consent.
Promise == INSTANCE Consent WITH
    Action <- [tool: Tool, domain: Domain],
    AloneCost <- {Weight(t) : t \in {u \in Tool : ~Categorical(u)}},
    Ceiling <- EpisodeCeiling,
    asked <- [r \in Ref |->
                IF refused[r] = None THEN None
                ELSE [tool |-> refused[r].tool, domain |-> refused[r].domain]],
    done <- [r \in Ref |->
                IF released[r] = <<>> THEN <<>>
                ELSE [i \in 1..Len(released[r]) |->
                        [tool |-> released[r][i].tool,
                         domain |-> released[r][i].domain]]],
    boots <- restarts

ConsentKept == Promise!Spec

----------------------------------------------------------------------------
\* What the documentation says and the code does not do.

\* audit/ledger.py: "The ruling is written *before* the tool call, and the
\* outcome patched onto it after, so an action that crashed mid-flight is
\* still visible as attempted."
AttemptOnRecord ==
    inflight # None =>
        \E i \in 1..Len(ledger) :
            /\ ledger[i].decision = inflight.decision
            /\ ledger[i].tool = inflight.tool
            /\ ledger[i].params_hash = HashParams[inflight.arguments]
=============================================================================
