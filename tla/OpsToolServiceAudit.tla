------------------------ MODULE OpsToolServiceAudit ------------------------
(***************************************************************************)
(* The books of the tool service: how the ledger, the budgets, the pending *)
(* approvals and the answers given relate to one another.                  *)
(***************************************************************************)
EXTENDS OpsToolService, SequencesExt

\* Rows that stand for something executed on a tool that writes.
Executed == Autonomous \cup {"human_approved"}

ExecutedRows == {i \in DOMAIN ledger : ledger[i].decision \in Executed}

WeightOnRecord == SumFunction([i \in ExecutedRows |-> Weight(ledger[i].tool)])

WeightInFlight ==
    IF inflight # None /\ inflight.decision \in Executed
    THEN Weight(inflight.tool) ELSE 0

\* The incidents that have spent something: those the server has a budget for.
Spenders == {e \in Episode : spent[e] # 0}

\* Between two restarts the budgets and the ledger tell the same story: what
\* all episodes have spent is what the executed rows weigh, and one call in
\* progress.  A failed handler is charged, and is on record.
BudgetMatchesLedger ==
    SumFunctionOnSet(spent, Spenders) = WeightOnRecord + WeightInFlight

\* What makes it inductive: only finitely many have spent anything.
FewSpenders == IsFiniteSet(Spenders)

RowsOf(decision, call) ==
    Cardinality({i \in 1..Len(ledger) :
        /\ ledger[i].decision = decision
        /\ ledger[i].tool = call.tool
        /\ ledger[i].params_hash = call.params_hash})

Waiting(call) == Cardinality({r \in Ref : pending[r] = call})

BeingReleased(call) ==
    IF inflight # None /\ inflight.decision = "human_approved"
       /\ inflight.tool = call.tool
       /\ HashParams[inflight.arguments] = call.params_hash
    THEN 1 ELSE 0

\* Every refusal on record is accounted for: for each tool and arguments, the
\* calls referred to a human are those still pending, those executed with
\* approval, and the one being executed.
RefusalsAccounted ==
    \A call \in PendingApproval :
        RowsOf("require_human", call) =
            RowsOf("human_approved", call) + Waiting(call) + BeingReleased(call)

\* What makes it inductive: only finitely many approvals are ever pending,
\* however many references uuid4 can produce.
FewPending == IsFiniteSet({r \in Ref : pending[r] # None})

\* A caller is told of a decision only once it is on record: the newest row
\* has that decision, the outcome "ok" if that is the answer, and the reference
\* if one is given.  (That an approval's row is of the tool and the parameters
\* it was refused with is PendingIsOnRecord.)
AnswerIsOnRecord ==
    reply # None =>
        ((inflight = None /\ reply.decision # None) =>
            /\ ledger # <<>>
            /\ Last(ledger).decision = reply.decision
            /\ reply.status = "ok" => Last(ledger).outcome = "ok"
            /\ reply.status = "approval_required" =>
                   Last(ledger).rollback_ref = reply.approval_ref)
=============================================================================
