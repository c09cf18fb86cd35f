---------------------------- MODULE Remediation ----------------------------
(***************************************************************************)
(* The remediation agent's process - the A2A server of a2a/server.py with  *)
(* the handler of agents/remediation/agent.py - and its HTTP calls to the  *)
(* tool server of OpsToolService, which is part of this specification.     *)
(*                                                                         *)
(* The handler never awaits, so the agent's event loop serves one message  *)
(* at a time, planning included; its only pause is the blocking HTTP call  *)
(* to the tool server, and what can happen meanwhile is here: the call     *)
(* times out and is executed all the same, later or never; either process  *)
(* stops and starts again; the answer is lost.                             *)
(***************************************************************************)
EXTENDS OpsToolService

CONSTANTS
    Service, Volume, ManagedVolumes, Mb,  \* of RemediationPlan
    TaskId,       \* task ids the A2A server can hand out
    Incident,     \* diagnoses callers send
    Answers,      \* what the model may answer to the planning prompt
    AgentToken,   \* the operator token of the agent's MCPClient
    MaxCrashes    \* bound: restarts of the agent's process

INSTANCE RemediationPlan

Diagnosis == [failure_mode: FailureMode, service: Service,
              memory_limit_bytes: Nat, episode_id: Episode \cup {None}]

\* A diagnosis without an episode is charged to the task itself.
ASSUME IncidentAssumption ==
    /\ Incident \subseteq Diagnosis
    /\ TaskId \subseteq Episode
    /\ Answers \subseteq Answer

\* The requests the agent's MCPClient can send.
AgentCalls == [token: {AgentToken}, tool: AllowedTools, attributed: {TRUE},
               arguments: Arguments]

ASSUME AgentAssumption ==
    /\ AllowedTools \subseteq Tool
    /\ \A tool \in AllowedTools : ~Risk[tool].read_only
    /\ AgentToken \in Token /\ Tiers[AgentToken] = "operator"
    /\ \A m \in Incident, tool \in AllowedTools :
          Derivable(tool, m.service) =>
              DeriveArguments(tool, m.service, m.memory_limit_bytes) \in Domain
    /\ AgentCalls \subseteq Requests

ASSUME CrashBoundAssumption == MaxCrashes \in Nat

VARIABLES
    tasks,      \* TaskStore._tasks: state, metadata and status message; boot is
                \* history: the start of the tool server the plan was put to
    call,       \* the HTTP call the agent waits for, None when it waits for none
    wire,       \* the requests that left the agent and were not read yet
    serving,    \* the task whose call the tool server is executing, or None
    known,      \* history: task ids ever handed out
    displayed,  \* history: the call a status message showed with a reference
    granted,    \* history: references a person said yes to
    writes,     \* history: the handler runs each task's calls led to
    crashes     \* history: how often the agent's process was started again

agent == <<tasks, call, wire, serving, known, displayed, granted, writes, crashes>>
allVars == <<vars, agent>>

----------------------------------------------------------------------------
Terminal == {"COMPLETED", "FAILED", "CANCELED", "REJECTED"}

\* Task(): what a new task starts with, once the message is appended to it.
NewTask == [state |-> "WORKING", plan |-> None, episode_id |-> None,
            approval_ref |-> None, applied |-> FALSE, boot |-> 0]

\* The event loop is free to read a message.
Listening == call = None

\* Mutant of Continues: a task that is over goes on.
ContinuesAny(t) == t \in known /\ tasks[t] # None

\* _handle_send finds the task, and it is not terminal.
Continues(t) ==
    /\ t \in known
    /\ tasks[t] # None
    /\ tasks[t].state \notin Terminal

\* A message names a task that can go on, or none and gets a new one.
Addressed(t) == Listening /\ (Continues(t) \/ t \notin known)

\* The task a message is handled on: metadata stays from message to message.
TaskAt(t) == IF t \in known THEN tasks[t] ELSE NewTask

\* The handler leaves the task in this state, with this reference on show.
Leaves(t, state, r) ==
    /\ tasks' = [tasks EXCEPT ![t] = [TaskAt(t) EXCEPT
                    !.state = state, !.approval_ref = r]]
    /\ known' = known \cup {t}

\* The handler closes or parks the task without calling anyone.
Settles(t, state) ==
    /\ Leaves(t, state, None)
    /\ UNCHANGED <<call, wire, serving, displayed, granted, writes, crashes, vars>>

\* Mutant of ToolCall: the reference and the approver change places.
ToolCallSwapped(plan, episode_id, approval_ref, approver) ==
    [token |-> AgentToken, tool |-> plan.tool, attributed |-> TRUE,
     arguments |-> [domain |-> plan.arguments, episode_id |-> episode_id,
                    approval_ref |-> approver, approver |-> approval_ref]]

\* The request MCPClient.call sends.
ToolCall(plan, episode_id, approval_ref, approver) ==
    [token |-> AgentToken, tool |-> plan.tool, attributed |-> TRUE,
     arguments |-> [domain |-> plan.arguments, episode_id |-> episode_id,
                    approval_ref |-> approval_ref, approver |-> approver]]

\* The agent blocks on a call made for task t; resumes tells `_resume` from
\* `_apply`.
Calls(t, q, resumes) ==
    /\ call' = [task |-> t, resumes |-> resumes, answer |-> None]
    /\ wire' = [wire EXCEPT ![t] = q]

----------------------------------------------------------------------------
RemInit ==
    /\ Init
    /\ tasks = [t \in TaskId |-> None]
    /\ call = None
    /\ wire = [t \in TaskId |-> None]
    /\ serving = None
    /\ known = {}
    /\ displayed = [r \in Ref |-> None]
    /\ granted = {}
    /\ writes = [t \in TaskId |-> <<>>]
    /\ crashes = 0

\* handle: a healthy service, an unknown diagnosis, one without a candidate.
Healthy(t, m) ==
    Addressed(t) /\ m.failure_mode = "healthy" /\ Settles(t, "COMPLETED")

Undiagnosed(t, m) ==
    Addressed(t) /\ m.failure_mode = "unknown" /\ Settles(t, "INPUT_REQUIRED")

NoCandidate(t, m) ==
    /\ Addressed(t)
    /\ m.failure_mode \notin DOMAIN CandidateTool \cup {"healthy", "unknown"}
    /\ Settles(t, "REJECTED")

\* Planning raises: no volume to name, an answer that is refused, or - at any
\* time - a model that cannot be reached or does not answer in JSON.
PlanFails(t, m) ==
    /\ Addressed(t)
    /\ m.failure_mode \in DOMAIN CandidateTool
    /\ Settles(t, "FAILED")

\* The plan is kept on the task and put to the tool server.
Remediate(t, m, answer) ==
    LET candidate == CandidateTool[m.failure_mode]
        plan == Plan(answer, candidate, m.service, m.memory_limit_bytes)
        episode_id == IF m.episode_id = None THEN t ELSE m.episode_id
    IN  /\ Addressed(t)
        /\ m.failure_mode \in DOMAIN CandidateTool
        /\ Derivable(candidate, m.service)
        /\ ValidatePlan(answer, m.service)
        /\ tasks' = [tasks EXCEPT ![t] = [TaskAt(t) EXCEPT
                        !.state = "WORKING", !.plan = plan,
                        !.episode_id = episode_id, !.approval_ref = None,
                        !.boot = restarts]]
        /\ known' = known \cup {t}
        /\ Calls(t, ToolCall(plan, episode_id, None, None), FALSE)
        /\ UNCHANGED <<serving, displayed, granted, writes, crashes, vars>>

\* _resume without a plan to approve, which is also a decision sent as a new
\* task, or with a yes that has no key approval_ref; then a refusal.
NothingToApprove(t) ==
    Addressed(t) /\ Settles(t, "FAILED")

Decline(t) ==
    Addressed(t) /\ TaskAt(t).plan # None /\ Settles(t, "REJECTED")

\* _resume with a yes: the plan stored on the task, under the reference the
\* message names, which need not be the one this task shows, nor any.
Approve(t, r, approver) ==
    /\ Addressed(t)
    /\ TaskAt(t).plan # None
    /\ tasks' = [tasks EXCEPT ![t].state = "WORKING", ![t].approval_ref = None]
    /\ Calls(t, ToolCall(tasks[t].plan, tasks[t].episode_id, r, approver), TRUE)
    /\ granted' = granted \cup ({r} \ {None})
    /\ UNCHANGED <<serving, known, displayed, writes, crashes, vars>>

\* Mutant of Cancel: it is let in while the task's call is under way.
CancelAnytime(t) == Continues(t) /\ Settles(t, "CANCELED")

\* tasks/cancel, which is not told to the tool server.
Cancel(t) ==
    /\ Listening
    /\ Continues(t)
    /\ Settles(t, "CANCELED")

----------------------------------------------------------------------------
\* The tool server answers the call made for task t; an answer nobody waits
\* for any more is dropped with its connection.
Answered(t) ==
    IF call # None /\ call.task = t THEN call' = [call EXCEPT !.answer = reply']
    ELSE UNCHANGED call

\* It reads a request and decides; the answer may be immediate.
Serve(t) ==
    /\ wire[t] # None
    /\ Call(wire[t])
    /\ wire' = [wire EXCEPT ![t] = None]
    /\ \/ /\ inflight' = None
          /\ Answered(t)
          /\ UNCHANGED <<serving, writes>>
       \/ /\ inflight' # None
          /\ serving' = t
          /\ writes' = [writes EXCEPT ![t] = Append(@,
                [tool |-> wire[t].tool, arguments |-> wire[t].arguments])]
          /\ UNCHANGED call
    /\ UNCHANGED <<tasks, known, displayed, granted, crashes>>

HandlerEnds ==
    /\ \E outcome \in {"ok", "error"} : Handler(outcome)
    /\ UNCHANGED agent

Finish ==
    /\ RecordOutcome
    /\ Answered(serving)
    /\ serving' = None
    /\ UNCHANGED <<tasks, wire, known, displayed, granted, writes, crashes>>

\* A request whose connection is gone before it is read may be dropped.
Drop(t) ==
    /\ wire[t] # None
    /\ wire' = [wire EXCEPT ![t] = None]
    /\ UNCHANGED <<tasks, call, serving, known, displayed, granted, writes, crashes, vars>>

\* The tool server's process stops and starts; unread requests are lost.
ToolServerRestarts ==
    /\ Restart
    /\ serving' = None
    /\ wire' = [t \in TaskId |-> None]
    /\ UNCHANGED <<tasks, call, known, displayed, granted, writes, crashes>>

----------------------------------------------------------------------------
Replied(status) == call # None /\ call.answer # None /\ call.answer.status = status

PausesOn == Replied("approval_required") /\ ~call.resumes

\* _apply: the gate refused; the reference and the call are put on show.
Pause ==
    LET t == call.task
        r == call.answer.approval_ref
    IN  /\ PausesOn
        /\ Leaves(t, "AUTH_REQUIRED", r)
        /\ displayed' = [displayed EXCEPT ![r] =
                [tool |-> tasks[t].plan.tool, domain |-> tasks[t].plan.arguments]]
        /\ call' = None
        /\ UNCHANGED <<wire, serving, granted, writes, crashes, vars>>

\* The call was executed.
Complete ==
    /\ Replied("ok")
    /\ tasks' = [tasks EXCEPT ![call.task].state = "COMPLETED",
                              ![call.task].applied = TRUE]
    /\ call' = None
    /\ UNCHANGED <<wire, serving, known, displayed, granted, writes, crashes, vars>>

\* The call was refused or its handler failed, with an answer or as an
\* exception of the client.
Fail ==
    /\ Replied("error") \/ Replied("approval_required")
    /\ ~PausesOn
    /\ tasks' = [tasks EXCEPT ![call.task].state = "FAILED"]
    /\ call' = None
    /\ UNCHANGED <<wire, serving, known, displayed, granted, writes, crashes, vars>>

\* Mutants of GiveUp: the exception is not caught; the task may be tried again.
GiveUpUncaught ==
    /\ call # None
    /\ call' = None
    /\ UNCHANGED <<tasks, wire, serving, known, displayed, granted, writes, crashes, vars>>
GiveUpAgain ==
    /\ call # None
    /\ tasks' = [tasks EXCEPT ![call.task].state = "INPUT_REQUIRED"]
    /\ call' = None
    /\ UNCHANGED <<wire, serving, known, displayed, granted, writes, crashes, vars>>

\* The client's 60 s are over, or its connection broke: _handle_send catches
\* the exception.  The request, or the handler it started, goes its own way.
GiveUp ==
    /\ call # None
    /\ tasks' = [tasks EXCEPT ![call.task].state = "FAILED"]
    /\ call' = None
    /\ UNCHANGED <<wire, serving, known, displayed, granted, writes, crashes, vars>>

\* The agent's process stops and starts with an empty TaskStore.
AgentRestarts ==
    /\ crashes < MaxCrashes
    /\ tasks' = [t \in TaskId |-> None]
    /\ call' = None
    /\ crashes' = crashes + 1
    /\ UNCHANGED <<wire, serving, known, displayed, granted, writes, vars>>

\* handle: what the agent makes of a diagnosis.
Handle(t, m) ==
    \/ Healthy(t, m) \/ Undiagnosed(t, m) \/ NoCandidate(t, m)
    \/ PlanFails(t, m)
    \/ \E answer \in Answers : Remediate(t, m, answer)

\* The references a person can name: what some status message showed, or null.
Nameable == {r \in Ref : displayed[r] # None} \cup {None}

\* _resume: a person's decision.
Resume(t) ==
    \/ NothingToApprove(t) \/ Decline(t)
    \/ \E r \in Nameable, approver \in Approver : Approve(t, r, approver)

Message(t) == Resume(t) \/ Cancel(t) \/ \E m \in Incident : Handle(t, m)

ToolServer ==
    \/ \E t \in TaskId : Serve(t) \/ Drop(t)
    \/ HandlerEnds
    \/ Finish
    \/ ToolServerRestarts

Returns == Pause \/ Complete \/ Fail \/ GiveUp

RemNext ==
    \/ \E t \in TaskId : Message(t)
    \/ ToolServer
    \/ Returns
    \/ AgentRestarts

RemSpec == RemInit /\ [][RemNext]_allVars

----------------------------------------------------------------------------
\* Types.

StoredPlan == [tool: AllowedTools, arguments: Domain, dissent: BOOLEAN]

RemTask == [state: Terminal \cup {"WORKING", "INPUT_REQUIRED", "AUTH_REQUIRED"},
            plan: StoredPlan \cup {None},
            episode_id: Episode \cup {None},
            approval_ref: Ref \cup {None},
            applied: BOOLEAN,
            boot: Nat]

AgentCall == [task: TaskId, resumes: BOOLEAN, answer: Outcomes \cup {None}]

\* None is none of the values it stands in for the absence of.
ASSUME AgentAbsenceAssumption ==
    /\ None \notin TaskId /\ None \notin StoredPlan /\ None \notin RemTask
    /\ None \notin AgentCall /\ None # "WORKING"

RemTypeOK ==
    /\ tasks \in [TaskId -> RemTask \cup {None}]
    /\ call \in AgentCall \cup {None}
    /\ wire \in [TaskId -> AgentCalls \cup {None}]
    /\ serving \in TaskId \cup {None}
    /\ known \subseteq TaskId
    /\ displayed \in [Ref -> [tool: Tool, domain: Domain] \cup {None}]
    /\ granted \subseteq Ref
    /\ writes \in [TaskId -> Seq([tool: Tool, arguments: Arguments])]
    /\ crashes \in Nat

----------------------------------------------------------------------------
\* Safety.

\* A task leads to one handler run at most, over pauses, approvals, messages
\* that overtake them, calls given up on and executed later, and restarts.
OneWritePerTask == \A t \in TaskId : Len(writes[t]) <= 1

\* What runs under an approval is what a status message showed a person with
\* that reference, and a person said yes to it.
RunsAsDisplayed ==
    \A r \in Ref : \A i \in 1..Len(released[r]) :
        /\ r \in granted
        /\ displayed[r] = [tool |-> released[r][i].tool,
                           domain |-> released[r][i].domain]

\* The approval this task asked for under r is pending, for just the call it
\* would make - or the tool server was restarted since, or r has been used.
StillPending(task, r) ==
    \/ task.boot # restarts
    \/ released[r] # <<>>
    \/ pending[r] = [tool |-> task.plan.tool, params_hash |->
                        HashParams[DomainArguments(task.plan.arguments)]]

\* The approval a paused task shows can be given: unless the tool server was
\* restarted or the reference was used on another task, it is pending, for
\* just the call this task would make.
PauseCanBeAnswered ==
    \A t \in TaskId : tasks[t] # None =>
        (tasks[t].state = "AUTH_REQUIRED" =>
            StillPending(tasks[t], tasks[t].approval_ref))

\* What a task says when nothing was done for it.
Idle(task) ==
    \/ task.plan = None
    \/ task.state \in {"AUTH_REQUIRED", "INPUT_REQUIRED", "REJECTED", "CANCELED"}
    \/ task.state = "COMPLETED" /\ ~task.applied

\* A task that says it applied its plan did: one run, of its plan, in its
\* incident.  One that has no plan led to no run, whatever its state; nor did
\* one that waits for a person, was refused or canceled by one, or closed
\* without saying that it applied anything.
AnswersAreTrue ==
    \A t \in TaskId : tasks[t] # None =>
        /\ tasks[t].applied =>
              /\ Len(writes[t]) = 1
              /\ writes[t][1].tool = tasks[t].plan.tool
              /\ writes[t][1].arguments.domain = tasks[t].plan.arguments
              /\ writes[t][1].arguments.episode_id = tasks[t].episode_id
        /\ Idle(tasks[t]) => writes[t] = <<>>

\* A task is WORKING just while the agent waits for its call: no message
\* meets one half done, and none is left behind by a call given up on.
WorkingIsServed ==
    \A t \in TaskId : tasks[t] # None =>
        (tasks[t].state = "WORKING" <=> call # None /\ call.task = t)

\* A task that is over stays as it is, for as long as the process lives.
TerminalIsFinal ==
    [][\A t \in TaskId : tasks[t] # None =>
        (tasks[t].state \in Terminal =>
            tasks'[t] = tasks[t] \/ crashes' # crashes)]_allVars

\* A task that was completed, canceled or rejected sets nothing off any more.
\* (One that FAILED may: its call can be executed after the agent gave up.)
ClosedIsQuiet ==
    [][\A t \in TaskId : tasks[t] # None =>
        (tasks[t].state \in Terminal \ {"FAILED"} => writes'[t] = writes[t])]_allVars

\* The agent is what its callers take it for: see TaskLife.
StateOf(t) == IF tasks[t] = None THEN None ELSE tasks[t].state

Life == INSTANCE TaskLife WITH life <- [t \in TaskId |-> StateOf(t)]

AgentLivesByTheBook == Life!Spec

\* A task never stays WORKING, whatever happens to the tool server.
WorkingEnds ==
    \A t \in TaskId :
        tasks[t] # None /\ tasks[t].state = "WORKING"
            ~> tasks[t] = None \/ tasks[t].state # "WORKING"

----------------------------------------------------------------------------
\* What makes the above inductive.

\* A task has one chance to reach a handler: a run that started, or a
\* request on its way, never both.
OneChance ==
    \A t \in TaskId : writes[t] = <<>> \/ (Len(writes[t]) = 1 /\ wire[t] = None)

\* An id that was not handed out has no task and set nothing off.
UnknownIsFresh ==
    \A t \in TaskId \ known : tasks[t] = None /\ writes[t] = <<>> /\ wire[t] = None

\* A task that may still be given its chance has not used it.
OpenIsUnused ==
    \A t \in TaskId : tasks[t] # None =>
        (tasks[t].state \notin Terminal \cup {"WORKING"} =>
            writes[t] = <<>> /\ wire[t] = None)

\* So has a task that is over, but for a call given up on.
ClosedIsOffWire ==
    \A t \in TaskId : tasks[t] # None =>
        (tasks[t].state \in Terminal \ {"FAILED"} => wire[t] = None)

\* The agent waits for a call of a task it has and has planned; an answer
\* means the request was read, and a refusal that nothing ran.
CallHasTask ==
    call # None => tasks[call.task] # None /\ tasks[call.task].plan # None

CallIsAccounted ==
    call # None =>
        /\ call.answer # None =>
              /\ wire[call.task] = None
              /\ call.answer.status = "approval_required" => writes[call.task] = <<>>

\* What the tool server executes is on the account of the task it serves.
ServingIsAccounted ==
    inflight # None => serving \in TaskId /\ writes[serving] # <<>>

CallsAccounted ==
    /\ OneChance /\ UnknownIsFresh /\ OpenIsUnused /\ ClosedIsOffWire
    /\ CallHasTask /\ CallIsAccounted /\ ServingIsAccounted /\ WorkingIsServed

\* The call q is the one the task's plan asks for, in the task's incident.
AsPlanned(task, q) ==
    /\ task.plan # None
    /\ q.tool = task.plan.tool
    /\ q.arguments.domain = task.plan.arguments
    /\ q.arguments.episode_id = task.episode_id

\* What is on its way, and what ran, is the plan the task still has: a task
\* is planned again only while it has not used its chance.
CallsArePlanned ==
    \A t \in TaskId : tasks[t] # None =>
        /\ wire[t] # None => AsPlanned(tasks[t], wire[t])
        /\ writes[t] # <<>> => AsPlanned(tasks[t], writes[t][1])

\* "ok" is said of a run: by the tool server, and then by the task.
OkMeansRun ==
    /\ \A t \in TaskId : tasks[t] # None => (tasks[t].applied => writes[t] # <<>>)
    /\ call # None => (call.answer # None =>
          (call.answer.status = "ok" => writes[call.task] # <<>>))

\* A task is over with nothing applied: by a person's no, or a cancellation,
\* or a healthy service.
Unapplied(task) ==
    \/ task.state \in {"REJECTED", "CANCELED"}
    \/ task.state = "COMPLETED" /\ ~task.applied

\* Whatever closes a task that way meets one that has not used its chance.
UnappliedIsUnused ==
    \A t \in TaskId : tasks[t] # None => (Unapplied(tasks[t]) => writes[t] = <<>>)

PlansKept == CallsArePlanned /\ OkMeansRun /\ UnappliedIsUnused

\* A reference goes out with a request, and is used, only after a person said
\* yes to it, which needs a status message that showed it.
GrantsAreShown ==
    /\ \A t \in TaskId : wire[t] # None =>
          wire[t].arguments.approval_ref \in granted \cup {None}
    /\ \A r \in granted : displayed[r] # None
    /\ \A r \in Ref : released[r] # <<>> => r \in granted

\* A status message shows under a reference what was refused under it.
ShownAsRefused ==
    \A r \in Ref : displayed[r] # None =>
        /\ refused[r] # None
        /\ displayed[r] = [tool |-> refused[r].tool, domain |-> refused[r].domain]

\* A refusal the agent is about to show is of the plan it was asked for.
ToldAsRefused ==
    call # None => (call.answer # None => (call.answer.status = "approval_required" =>
        LET r == call.answer.approval_ref
            task == tasks[call.task]
        IN  /\ r \in Ref /\ refused[r] # None
            /\ refused[r].tool = task.plan.tool
            /\ refused[r].domain = task.plan.arguments
            /\ StillPending(task, r)))

\* A task was planned for a start of the tool server there has been, and a
\* paused one shows a reference that was issued, and is pending or gone.
Stands(t) ==
    /\ tasks[t].boot <= restarts
    /\ tasks[t].state = "AUTH_REQUIRED" =>
          /\ tasks[t].approval_ref \in Ref
          /\ refused[tasks[t].approval_ref] # None
          /\ StillPending(tasks[t], tasks[t].approval_ref)

PausesStand == \A t \in TaskId : tasks[t] # None => Stands(t)

ConsentShown == GrantsAreShown /\ ShownAsRefused /\ ToldAsRefused /\ PausesStand

----------------------------------------------------------------------------
\* What the documentation says and the code does not do.

\* The agent's card: "Applies at most one remediation per incident".
OneRemediationPerIncident ==
    \A t, u \in TaskId :
        t # u /\ tasks[t] # None /\ tasks[u] # None =>
            (tasks[t].applied /\ tasks[u].applied =>
                tasks[t].episode_id # tasks[u].episode_id)

\* derive_arguments: "Compute the tool's parameters."
ArgumentsFitHandler ==
    \A t \in TaskId : \A i \in 1..Len(writes[t]) :
        Accepted(writes[t][i].tool, writes[t][i].arguments.domain)
=============================================================================
