------------------------- MODULE RemediationProofs -------------------------
(***************************************************************************)
(* Proofs about Remediation: the agent is a client the tool server's       *)
(* theorems cover, and a task leads to one handler run at most, for every  *)
(* number of tasks, incidents, answers of the model and restarts.          *)
(***************************************************************************)
EXTENDS Remediation, OpsToolServiceProofs

\* The candidate is one of the agent's tools.
LEMMA CandidateType ==
    ASSUME NEW mode \in DOMAIN CandidateTool
    PROVE  CandidateTool[mode] \in AllowedTools
BY DEF CandidateTool, AllowedTools

\* A plan that survives names one of the agent's tools and arguments in the
\* domain.
LEMMA PlanType ==
    ASSUME NEW m \in Incident, NEW answer \in Answers,
           m.failure_mode \in DOMAIN CandidateTool,
           Derivable(CandidateTool[m.failure_mode], m.service)
    PROVE  Plan(answer, CandidateTool[m.failure_mode], m.service, m.memory_limit_bytes)
             \in StoredPlan
<1> DEFINE candidate == CandidateTool[m.failure_mode]
<1>1. candidate \in AllowedTools
  BY CandidateType
<1>2. DeriveArguments(candidate, m.service, m.memory_limit_bytes) \in Domain
  BY <1>1, AgentAssumption
<1> QED
  BY <1>1, <1>2 DEF Plan, StoredPlan

\* What the client sends for a typed plan is a request the tool server knows.
LEMMA ToolCallType ==
    ASSUME NEW plan \in StoredPlan,
           NEW e \in Episode \cup {None}, NEW r \in Ref \cup {None},
           NEW approver \in Approver \cup {None}
    PROVE  ToolCall(plan, e, r, approver) \in AgentCalls
BY DEF ToolCall, AgentCalls, Arguments, StoredPlan

\* The task a message is handled on.
LEMMA TaskAtType ==
    ASSUME RemTypeOK, NEW t \in TaskId, Addressed(t)
    PROVE  TaskAt(t) \in RemTask
<1>1. NewTask \in RemTask
  BY DEF NewTask, RemTask, Terminal
<1>2. CASE t \in known
  BY <1>2 DEF Addressed, Continues, RemTypeOK, TaskAt
<1>3. CASE t \notin known
  BY <1>1, <1>3 DEF TaskAt
<1> QED
  BY <1>2, <1>3

\* Writing a state and a reference into a task leaves a task.
LEMMA TaskWith ==
    ASSUME NEW task \in RemTask,
           NEW state \in Terminal \cup {"WORKING", "INPUT_REQUIRED", "AUTH_REQUIRED"},
           NEW r \in Ref \cup {None}
    PROVE  /\ [task EXCEPT !.state = state, !.approval_ref = r] \in RemTask
           /\ [task EXCEPT !.state = state, !.approval_ref = r].state = state
           /\ [task EXCEPT !.state = state] \in RemTask
           /\ [task EXCEPT !.state = state].state = state
BY DEF RemTask

\* Every step of the agent is no step of the tool server, or one of its own.
LEMMA ServiceStep ==
    ASSUME RemTypeOK, [RemNext]_allVars
    PROVE  [Next]_vars
<1>1. ASSUME NEW t \in TaskId, Message(t) PROVE UNCHANGED vars
  BY <1>1 DEF Message, Handle, Resume, Healthy, Undiagnosed, NoCandidate, PlanFails, Remediate,
     NothingToApprove, Decline, Approve, Cancel, Settles
<1>2. ASSUME NEW t \in TaskId, Serve(t) PROVE Next
  <2>1. wire[t] \in Requests
    BY <1>2, AgentAssumption DEF Serve, RemTypeOK
  <2> QED
    BY <1>2, <2>1 DEF Serve, Next
<1>3. ASSUME NEW t \in TaskId, Drop(t) PROVE UNCHANGED vars
  BY <1>3 DEF Drop
<1>4. HandlerEnds \/ Finish \/ ToolServerRestarts => Next
  BY DEF HandlerEnds, Finish, ToolServerRestarts, Next
<1>5. Returns \/ AgentRestarts => UNCHANGED vars
  BY DEF Returns, Pause, Complete, Fail, GiveUp, AgentRestarts
<1>6. UNCHANGED allVars => UNCHANGED vars
  BY DEF allVars
<1> QED
  BY <1>1, <1>2, <1>3, <1>4, <1>5, <1>6 DEF RemNext, ToolServer
----------------------------------------------------------------------------
\* Type correctness.  A call is for a task there is, so this needs the first
\* half of CallIsAccounted.

Typed == TypeOK /\ RemTypeOK

\* The task a call was made for.
LEMMA CalledTask ==
    ASSUME RemTypeOK, CallHasTask, call # None
    PROVE  /\ call \in AgentCall /\ call.task \in TaskId
           /\ tasks[call.task] \in RemTask /\ TaskAt(call.task) \in RemTask
           /\ tasks[call.task].plan \in StoredPlan
<1>1. call \in AgentCall /\ call.task \in TaskId /\ tasks[call.task] \in RemTask
  BY DEF RemTypeOK, CallHasTask, AgentCall
<1>2. NewTask \in RemTask
  BY DEF NewTask, RemTask, Terminal
<1> QED
  BY <1>1, <1>2 DEF TaskAt, CallHasTask, RemTask

\* The handler parks or closes a task.
LEMMA SettlesType ==
    ASSUME RemTypeOK, NEW t \in TaskId, Addressed(t),
           NEW state \in Terminal \cup {"INPUT_REQUIRED"}, Settles(t, state)
    PROVE  RemTypeOK'
<1>1. TaskAt(t) \in RemTask
  BY TaskAtType
<1>2. [TaskAt(t) EXCEPT !.state = state, !.approval_ref = None] \in RemTask
  BY <1>1, TaskWith
<1>3. tasks' \in [TaskId -> RemTask \cup {None}] /\ known' \subseteq TaskId
  BY <1>2 DEF Settles, Leaves, RemTypeOK
<1> QED
  BY <1>3 DEF Settles, RemTypeOK

\* Which of the messages settle a task without a call.
LEMMA SettlingMessages ==
    ASSUME NEW t \in TaskId, Message(t),
           ~ \E m \in Incident, answer \in Answers : Remediate(t, m, answer),
           ~ \E r \in Ref \cup {None}, approver \in Approver : Approve(t, r, approver)
    PROVE  /\ Addressed(t)
           /\ \E state \in Terminal \cup {"INPUT_REQUIRED"} : Settles(t, state)
<1>1. ASSUME NEW m \in Incident,
             Healthy(t, m) \/ Undiagnosed(t, m) \/ NoCandidate(t, m) \/ PlanFails(t, m)
      PROVE  Addressed(t)
             /\ \E state \in Terminal \cup {"INPUT_REQUIRED"} : Settles(t, state)
  BY <1>1 DEF Healthy, Undiagnosed, NoCandidate, PlanFails, Terminal
<1>2. NothingToApprove(t) \/ Decline(t) \/ Cancel(t) =>
        /\ Addressed(t)
        /\ \E state \in Terminal \cup {"INPUT_REQUIRED"} : Settles(t, state)
  BY DEF NothingToApprove, Decline, Cancel, Addressed, Terminal
<1> QED
  BY <1>1, <1>2 DEF Message, Handle, Resume, Nameable

\* The agent blocks on a call.
LEMMA CallsType ==
    ASSUME RemTypeOK, NEW t \in TaskId, NEW q \in AgentCalls, NEW resumes \in BOOLEAN,
           Calls(t, q, resumes)
    PROVE  /\ call' \in AgentCall /\ call'.task = t /\ call'.answer = None
           /\ wire' \in [TaskId -> AgentCalls \cup {None}]
           /\ wire' = [wire EXCEPT ![t] = q]
BY DEF Calls, AgentCall, RemTypeOK

LEMMA RemediateType ==
    ASSUME Typed, NEW t \in TaskId, NEW m \in Incident, NEW answer \in Answers,
           Remediate(t, m, answer)
    PROVE  /\ RemTypeOK'
           /\ \E task \in RemTask : task.state = "WORKING" /\ task.plan # None
                                    /\ tasks' = [tasks EXCEPT ![t] = task]
           /\ \E q \in AgentCalls : Calls(t, q, FALSE)
<1> DEFINE plan == Plan(answer, CandidateTool[m.failure_mode], m.service,
                        m.memory_limit_bytes)
           e == IF m.episode_id = None THEN t ELSE m.episode_id
           task == [TaskAt(t) EXCEPT !.state = "WORKING", !.plan = plan,
                       !.episode_id = e, !.approval_ref = None, !.boot = restarts]
           q == ToolCall(plan, e, None, None)
<1>1. plan \in StoredPlan
  BY PlanType DEF Remediate
<1>2. e \in Episode
  BY IncidentAssumption DEF Diagnosis
<1>3. TaskAt(t) \in RemTask
  BY TaskAtType DEF Remediate, Typed
<1>4. restarts \in Nat
  BY DEF Typed, TypeOK
<1>5. task \in RemTask /\ task.state = "WORKING" /\ task.plan # None
  BY <1>1, <1>2, <1>3, <1>4, AgentAbsenceAssumption DEF RemTask
<1>6. tasks' = [tasks EXCEPT ![t] = task] /\ Calls(t, q, FALSE)
  BY DEF Remediate
<1>7. q \in AgentCalls
  BY <1>1, <1>2, ToolCallType
<1>8. tasks' \in [TaskId -> RemTask \cup {None}]
  BY <1>5, <1>6 DEF Typed, RemTypeOK
<1>9. call' \in AgentCall /\ wire' \in [TaskId -> AgentCalls \cup {None}]
  BY <1>6, <1>7, CallsType DEF Typed
<1> QED
  BY <1>5, <1>6, <1>7, <1>8, <1>9 DEF Remediate, Typed, RemTypeOK

LEMMA ApproveType ==
    ASSUME Typed, NEW t \in TaskId, NEW r \in Ref \cup {None}, NEW approver \in Approver,
           Approve(t, r, approver)
    PROVE  /\ RemTypeOK'
           /\ t \in known
           /\ \E task \in RemTask : task.state = "WORKING" /\ task.plan # None
                                    /\ tasks' = [tasks EXCEPT ![t] = task]
           /\ \E q \in AgentCalls : Calls(t, q, TRUE)
<1> DEFINE task == [tasks[t] EXCEPT !.state = "WORKING", !.approval_ref = None]
           q == ToolCall(tasks[t].plan, tasks[t].episode_id, r, approver)
<1>1. t \in known
  BY DEF Approve, TaskAt, NewTask
<1>2. tasks[t] \in RemTask
  BY <1>1, TaskAtType DEF Approve, Typed, TaskAt
<1>3. tasks[t].plan \in StoredPlan
  BY <1>1, <1>2 DEF Approve, TaskAt, RemTask
<1>4. q \in AgentCalls
  BY <1>2, <1>3, ToolCallType DEF RemTask
<1>5. task \in RemTask /\ task.state = "WORKING" /\ task.plan # None
  BY <1>2, <1>3, AgentAbsenceAssumption DEF RemTask
<1>6. tasks' = [tasks EXCEPT ![t] = task]
  BY <1>2 DEF Approve, Typed, RemTypeOK
<1>7. Calls(t, q, TRUE)
  BY DEF Approve
<1>8. tasks' \in [TaskId -> RemTask \cup {None}]
  BY <1>5, <1>6 DEF Typed, RemTypeOK
<1>9. call' \in AgentCall /\ wire' \in [TaskId -> AgentCalls \cup {None}]
  BY <1>4, <1>7, CallsType DEF Typed
<1> QED
  BY <1>1, <1>4, <1>5, <1>6, <1>7, <1>8, <1>9 DEF Approve, Typed, RemTypeOK

\* The answer of the tool server reaches the call, if it is the call's.
LEMMA AnsweredType ==
    ASSUME RemTypeOK, reply' \in Outcomes \cup {None}, NEW t, Answered(t)
    PROVE  call' \in AgentCall \cup {None}
<1>1. CASE call # None /\ call.task = t
  <2>1. call' = [call EXCEPT !.answer = reply']
    BY <1>1 DEF Answered
  <2>2. call \in AgentCall
    BY <1>1 DEF RemTypeOK
  <2> QED
    BY <2>1, <2>2 DEF AgentCall
<1>2. CASE ~ (call # None /\ call.task = t)
  BY <1>2 DEF Answered, RemTypeOK
<1> QED
  BY <1>1, <1>2

\* It is still the call of the same task.
LEMMA AnsweredCall ==
    ASSUME RemTypeOK, NEW t, Answered(t), reply' \in Outcomes \cup {None}
    PROVE  /\ call = None => call' = None
           /\ call # None =>
                 /\ call' # None /\ call'.task = call.task
                 /\ call.task # t => call' = call
                 /\ call.task = t => call'.answer = reply'
<1>1. CASE call = None
  BY <1>1 DEF Answered
<1>2. CASE call # None /\ call.task # t
  BY <1>2 DEF Answered
<1>3. CASE call # None /\ call.task = t
  <2>1. call \in AgentCall
    BY <1>3 DEF RemTypeOK
  <2>2. call' = [call EXCEPT !.answer = reply']
    BY <1>3 DEF Answered
  <2>3. call' \in AgentCall /\ call'.task = call.task /\ call'.answer = reply'
    BY <2>1, <2>2 DEF AgentCall
  <2> QED
    BY <1>3, <2>3, AgentAbsenceAssumption
<1> QED
  BY <1>1, <1>2, <1>3

LEMMA ServeType ==
    ASSUME RemTypeOK, TypeOK', NEW t \in TaskId, Serve(t)
    PROVE  RemTypeOK'
<1> DEFINE start == [tool |-> wire[t].tool, arguments |-> wire[t].arguments]
<1>1. start \in [tool: Tool, arguments: Arguments]
  BY AgentAssumption DEF Serve, RemTypeOK, AgentCalls
<1>2. wire' \in [TaskId -> AgentCalls \cup {None}]
  BY DEF Serve, RemTypeOK
<1>3. CASE Answered(t) /\ UNCHANGED <<serving, writes>>
  <2>1. call' \in AgentCall \cup {None}
    BY <1>3, AnsweredType DEF TypeOK
  <2> QED
    BY <1>2, <1>3, <2>1 DEF Serve, RemTypeOK
<1>4. CASE /\ serving' = t /\ UNCHANGED call
           /\ writes' = [writes EXCEPT ![t] = Append(@, start)]
  <2>1. Append(writes[t], start) \in Seq([tool: Tool, arguments: Arguments])
    BY <1>1, AppendProperties DEF RemTypeOK
  <2>2. writes' \in [TaskId -> Seq([tool: Tool, arguments: Arguments])]
    BY <1>4, <2>1 DEF RemTypeOK
  <2> QED
    BY <1>2, <1>4, <2>2 DEF Serve, RemTypeOK
<1> QED
  BY <1>3, <1>4 DEF Serve

\* The call returned: its task is parked, or takes the state a return leaves.
LEMMA ReturnsTask ==
    ASSUME RemTypeOK, CallHasTask, Returns
    PROVE  /\ call # None /\ call' = None
           /\ \E task \in RemTask :
                 /\ tasks' = [tasks EXCEPT ![call.task] = task]
                 /\ \/ Pause /\ task.state = "AUTH_REQUIRED"
                    \/ Complete /\ task.state = "COMPLETED"
                    \/ (Fail \/ GiveUp) /\ task.state = "FAILED"
<1> DEFINE t == call.task
<1>1. call # None /\ call' = None
  BY DEF Returns, Pause, PausesOn, Complete, Fail, GiveUp, Replied
<1>2. call \in AgentCall /\ t \in TaskId /\ tasks[t] \in RemTask /\ TaskAt(t) \in RemTask
  BY <1>1, CalledTask
<1>3. CASE Pause
  <2> DEFINE r == call.answer.approval_ref
             task == [TaskAt(t) EXCEPT !.state = "AUTH_REQUIRED", !.approval_ref = r]
  <2>1. r \in Ref \cup {None}
    BY <1>2, <1>3 DEF Pause, PausesOn, Replied, AgentCall, Outcomes
  <2>2. task \in RemTask /\ task.state = "AUTH_REQUIRED"
    BY <1>2, <2>1 DEF RemTask
  <2>3. tasks' = [tasks EXCEPT ![t] = task]
    BY <1>3 DEF Pause, Leaves
  <2> QED
    BY <1>1, <1>3, <2>2, <2>3
<1>4. CASE Complete
  <2> DEFINE task == [tasks[t] EXCEPT !.state = "COMPLETED", !.applied = TRUE]
  <2>1. task \in RemTask /\ task.state = "COMPLETED"
    BY <1>2 DEF RemTask, Terminal
  <2>2. tasks' = [tasks EXCEPT ![t] = task]
    BY <1>2, <1>4 DEF Complete, RemTypeOK
  <2> QED
    BY <1>1, <1>4, <2>1, <2>2
<1>5. CASE Fail \/ GiveUp
  <2> DEFINE task == [tasks[t] EXCEPT !.state = "FAILED"]
  <2>1. task \in RemTask /\ task.state = "FAILED"
    BY <1>2, TaskWith DEF Terminal
  <2>2. tasks' = [tasks EXCEPT ![t] = task]
    BY <1>2, <1>5 DEF Fail, GiveUp, RemTypeOK
  <2> QED
    BY <1>1, <1>5, <2>1, <2>2
<1> QED
  BY <1>3, <1>4, <1>5 DEF Returns

LEMMA ReturnsType ==
    ASSUME RemTypeOK, CallHasTask, Returns
    PROVE  RemTypeOK'
<1>1. call # None /\ call' = None
  BY ReturnsTask
<1>2. tasks' \in [TaskId -> RemTask \cup {None}]
  BY <1>1, ReturnsTask, CalledTask DEF RemTypeOK
<1>3. call.task \in TaskId /\ tasks[call.task].plan \in StoredPlan
  BY <1>1, CalledTask
<1>4. CASE Pause
  <2> DEFINE plan == tasks[call.task].plan
             r == call.answer.approval_ref
             shown == [tool |-> plan.tool, domain |-> plan.arguments]
  <2>1. known' \subseteq TaskId
    BY <1>3, <1>4 DEF Pause, Leaves, RemTypeOK
  <2>2. displayed' = [displayed EXCEPT ![r] = shown]
    BY <1>4 DEF Pause
  <2>3. shown \in [tool: Tool, domain: Domain]
    BY <1>3, AgentAssumption DEF StoredPlan
  <2> QED
    BY <1>1, <1>2, <1>4, <2>1, <2>2, <2>3 DEF Pause, RemTypeOK
<1>5. CASE Complete \/ Fail \/ GiveUp
  BY <1>1, <1>2, <1>5 DEF Complete, Fail, GiveUp, RemTypeOK
<1> QED
  BY <1>4, <1>5 DEF Returns

LEMMA FinishType ==
    ASSUME RemTypeOK, TypeOK', Finish
    PROVE  RemTypeOK'
<1>1. call' \in AgentCall \cup {None}
  BY AnsweredType DEF Finish, TypeOK
<1> QED
  BY <1>1 DEF Finish, RemTypeOK

LEMMA RemTypeStep ==
    ASSUME Typed, CallHasTask, [RemNext]_allVars
    PROVE  Typed'
<1>1. TypeOK'
  BY ServiceStep, TypeStep DEF Typed
<1>2. ASSUME NEW t \in TaskId, Message(t) PROVE RemTypeOK'
  <2>1. ASSUME NEW m \in Incident, NEW answer \in Answers, Remediate(t, m, answer)
        PROVE  RemTypeOK'
    BY <2>1, RemediateType
  <2>2. ASSUME NEW r \in Ref \cup {None}, NEW approver \in Approver, Approve(t, r, approver)
        PROVE  RemTypeOK'
    BY <2>2, ApproveType
  <2> QED
    BY <1>2, <2>1, <2>2, SettlingMessages, SettlesType DEF Typed
<1>3. ASSUME NEW t \in TaskId, Serve(t) PROVE RemTypeOK'
  BY <1>1, <1>3, ServeType DEF Typed
<1>4. ASSUME NEW t \in TaskId, Drop(t) PROVE RemTypeOK'
  BY <1>4 DEF Drop, Typed, RemTypeOK
<1>5. HandlerEnds => RemTypeOK'
  BY DEF HandlerEnds, agent, Typed, RemTypeOK
<1>6. Finish => RemTypeOK'
  BY <1>1, FinishType DEF Typed
<1>7. ToolServerRestarts => RemTypeOK'
  BY DEF ToolServerRestarts, Typed, RemTypeOK
<1>8. Returns => RemTypeOK'
  BY ReturnsType DEF Typed
<1>9. ASSUME AgentRestarts PROVE RemTypeOK'
  <2>1. tasks' \in [TaskId -> RemTask \cup {None}] /\ call' \in AgentCall \cup {None}
    BY <1>9 DEF AgentRestarts
  <2>2. crashes' \in Nat
    BY <1>9 DEF AgentRestarts, Typed, RemTypeOK
  <2> QED
    BY <1>9, <2>1, <2>2 DEF AgentRestarts, Typed, RemTypeOK
<1>10. UNCHANGED allVars => RemTypeOK'
  BY DEF allVars, agent, Typed, RemTypeOK
<1> QED
  BY <1>1, <1>2, <1>3, <1>4, <1>5, <1>6, <1>7, <1>8, <1>9, <1>10
  DEF RemNext, ToolServer, Typed

LEMMA RemTypeInit == RemInit => Typed
<1> SUFFICES ASSUME RemInit PROVE Typed
  OBVIOUS
<1>1. TypeOK
  BY TypeInit DEF RemInit
<1>2. <<>> \in Seq([tool: Tool, arguments: Arguments])
  OBVIOUS
<1> QED
  BY <1>1, <1>2 DEF RemInit, Typed, RemTypeOK
----------------------------------------------------------------------------
\* Accounts: what has been set off on behalf of a task, and what still may be.

\* A message is handled on a task that has not used its chance.
LEMMA AddressedIsUnused ==
    ASSUME CallsAccounted, NEW t \in TaskId, Addressed(t)
    PROVE  call = None /\ writes[t] = <<>> /\ wire[t] = None
<1>1. call = None
  BY DEF Addressed, Listening
<1>2. CASE t \notin known
  BY <1>1, <1>2 DEF CallsAccounted, UnknownIsFresh
<1>3. CASE Continues(t)
  <2>1. tasks[t] # None /\ tasks[t].state \notin Terminal \cup {"WORKING"}
    BY <1>1, <1>3 DEF Continues, CallsAccounted, WorkingIsServed
  <2> QED
    BY <1>1, <2>1 DEF CallsAccounted, OpenIsUnused
<1> QED
  BY <1>2, <1>3 DEF Addressed

\* One task gets a new state and nothing else moves: what is left to show is
\* about that task.
LEMMA OneTaskMoves ==
    ASSUME Typed, CallsAccounted, NEW t \in TaskId, NEW task \in RemTask,
           tasks' = [tasks EXCEPT ![t] = task],
           known' = known \cup {t} \/ (known' = known /\ t \in known),
           call' = None, call = None \/ call.task = t,
           task.state # "WORKING",
           task.state # "FAILED" =>
               wire[t] = None /\ (writes[t] = <<>> \/ task.state \in Terminal),
           UNCHANGED <<wire, serving, writes, inflight>>
    PROVE  CallsAccounted'
<1>1. tasks'[t] = task /\ \A u \in TaskId : u # t => tasks'[u] = tasks[u]
  BY DEF Typed, RemTypeOK
<1>2. OneChance'
  BY DEF CallsAccounted, OneChance
<1>3. UnknownIsFresh'
  BY <1>1 DEF CallsAccounted, UnknownIsFresh
<1>4. OpenIsUnused'
  BY <1>1 DEF CallsAccounted, OpenIsUnused, Terminal
<1>5. ClosedIsOffWire'
  BY <1>1 DEF CallsAccounted, ClosedIsOffWire
<1>6. CallHasTask' /\ CallIsAccounted' /\ ServingIsAccounted'
  BY DEF CallsAccounted, CallHasTask, CallIsAccounted, ServingIsAccounted
<1>7. WorkingIsServed'
  BY <1>1 DEF CallsAccounted, WorkingIsServed
<1> QED
  BY <1>2, <1>3, <1>4, <1>5, <1>6, <1>7 DEF CallsAccounted

LEMMA SettlesKeepsAccounts ==
    ASSUME Typed, CallsAccounted, NEW t \in TaskId, Addressed(t),
           NEW state \in Terminal \cup {"INPUT_REQUIRED"}, Settles(t, state)
    PROVE  CallsAccounted'
<1> DEFINE task == [TaskAt(t) EXCEPT !.state = state, !.approval_ref = None]
<1> TaskAt(t) \in RemTask
  BY TaskAtType DEF Typed
<1>1. task \in RemTask /\ task.state = state
  BY DEF RemTask
<1>2. tasks' = [tasks EXCEPT ![t] = task] /\ known' = known \cup {t}
      /\ UNCHANGED <<call, wire, serving, writes, inflight>>
  BY DEF Settles, Leaves, vars
<1>3. call = None /\ writes[t] = <<>> /\ wire[t] = None
  BY AddressedIsUnused
<1> QED
  BY <1>1, <1>2, <1>3, OneTaskMoves DEF Terminal

\* The agent calls the tool server: the task's one chance is on the wire.
LEMMA CallKeepsAccounts ==
    ASSUME Typed, CallsAccounted, NEW t \in TaskId, Addressed(t),
           NEW task \in RemTask, task.state = "WORKING", task.plan # None,
           tasks' = [tasks EXCEPT ![t] = task],
           known' = known \cup {t},
           NEW q \in AgentCalls, NEW resumes \in BOOLEAN, Calls(t, q, resumes),
           UNCHANGED <<serving, writes, inflight>>
    PROVE  CallsAccounted'
<1>1. call = None /\ writes[t] = <<>> /\ wire[t] = None
  BY AddressedIsUnused
<1>2. call' # None /\ call'.task = t /\ call'.answer = None
      /\ wire' = [wire EXCEPT ![t] = q]
  BY CallsType, AgentAbsenceAssumption DEF Typed
<1>3. tasks'[t] = task /\ \A u \in TaskId : u # t => tasks'[u] = tasks[u]
  BY DEF Typed, RemTypeOK
<1>4. \A u \in TaskId : u # t => wire'[u] = wire[u]
  BY <1>2 DEF Typed, RemTypeOK
<1>5. tasks'[t] # None
  BY <1>3, AgentAbsenceAssumption
<1>6. OneChance'
  BY <1>1, <1>4 DEF CallsAccounted, OneChance
<1>7. UnknownIsFresh'
  BY <1>3, <1>4 DEF CallsAccounted, UnknownIsFresh
<1>8. OpenIsUnused'
  BY <1>3, <1>4 DEF CallsAccounted, OpenIsUnused
<1>9. ClosedIsOffWire'
  BY <1>3, <1>4 DEF CallsAccounted, ClosedIsOffWire, Terminal
<1>10. CallHasTask' /\ CallIsAccounted' /\ ServingIsAccounted'
  BY <1>2, <1>3, <1>5 DEF CallsAccounted, CallHasTask, CallIsAccounted, ServingIsAccounted
<1>11. WorkingIsServed'
  BY <1>1, <1>2, <1>3 DEF CallsAccounted, WorkingIsServed
<1> QED
  BY <1>6, <1>7, <1>8, <1>9, <1>10, <1>11 DEF CallsAccounted

LEMMA MessageKeepsAccounts ==
    ASSUME Typed, CallsAccounted, NEW t \in TaskId, Message(t)
    PROVE  CallsAccounted'
<1>1. ASSUME NEW m \in Incident, NEW answer \in Answers, Remediate(t, m, answer)
      PROVE  CallsAccounted'
  <2>1. /\ \E task \in RemTask : task.state = "WORKING" /\ task.plan # None
                                 /\ tasks' = [tasks EXCEPT ![t] = task]
        /\ \E q \in AgentCalls : Calls(t, q, FALSE)
    BY <1>1, RemediateType
  <2>2. /\ Addressed(t) /\ known' = known \cup {t}
        /\ UNCHANGED <<serving, writes, inflight>>
    BY <1>1 DEF Remediate, vars
  <2> QED
    BY <2>1, <2>2, CallKeepsAccounts
<1>2. ASSUME NEW r \in Ref \cup {None}, NEW approver \in Approver, Approve(t, r, approver)
      PROVE  CallsAccounted'
  <2>1. /\ t \in known
        /\ \E task \in RemTask : task.state = "WORKING" /\ task.plan # None
                                 /\ tasks' = [tasks EXCEPT ![t] = task]
        /\ \E q \in AgentCalls : Calls(t, q, TRUE)
    BY <1>2, ApproveType
  <2>2. /\ Addressed(t) /\ known' = known
        /\ UNCHANGED <<serving, writes, inflight>>
    BY <1>2 DEF Approve, vars
  <2>3. known' = known \cup {t}
    BY <2>1, <2>2
  <2> QED
    BY <2>1, <2>2, <2>3, CallKeepsAccounts
<1> QED
  BY <1>1, <1>2, SettlingMessages, SettlesKeepsAccounts

\* The tool server reads a request: the chance is used, unless the answer is
\* immediate, and then nothing ran.
LEMMA ServeKeepsAccounts ==
    ASSUME Typed, Typed', CallsAccounted, NEW t \in TaskId, Serve(t)
    PROVE  CallsAccounted'
<1>1. wire[t] # None /\ wire' = [wire EXCEPT ![t] = None]
      /\ UNCHANGED <<tasks, known>>
  BY DEF Serve
<1>2. wire'[t] = None /\ \A u \in TaskId : u # t => wire'[u] = wire[u]
  BY <1>1 DEF Typed, RemTypeOK
<1>3. writes[t] = <<>> /\ t \in known
  BY <1>1 DEF CallsAccounted, OneChance, UnknownIsFresh
<1>4. tasks[t] # None => tasks[t].state \in {"WORKING", "FAILED"}
  BY <1>1, <1>3 DEF CallsAccounted, OpenIsUnused, ClosedIsOffWire, Terminal
<1>5. CASE inflight' = None /\ Answered(t) /\ UNCHANGED <<serving, writes>>
  <2>0. reply' \in Outcomes \cup {None}
    BY DEF Typed, TypeOK
  <2>1. call # None => call' # None /\ call'.task = call.task
                       /\ (call.task # t => call' = call)
    BY <1>5, <2>0, AnsweredCall DEF Typed
  <2>2. call = None => call' = None
    BY <1>5, <2>0, AnsweredCall DEF Typed
  <2>3. OneChance' /\ UnknownIsFresh' /\ OpenIsUnused' /\ ClosedIsOffWire'
    BY <1>1, <1>2, <1>3, <1>5
    DEF CallsAccounted, OneChance, UnknownIsFresh, OpenIsUnused, ClosedIsOffWire
  <2>4. CallHasTask' /\ WorkingIsServed'
    BY <1>1, <2>1, <2>2 DEF CallsAccounted, CallHasTask, WorkingIsServed
  <2>5. CallIsAccounted'
    BY <1>1, <1>2, <1>3, <1>5, <2>1, <2>2
    DEF CallsAccounted, CallIsAccounted, Typed, RemTypeOK, AgentCall
  <2>6. ServingIsAccounted'
    BY <1>5 DEF ServingIsAccounted
  <2> QED
    BY <2>3, <2>4, <2>5, <2>6 DEF CallsAccounted
<1>6. CASE /\ serving' = t /\ UNCHANGED call
           /\ writes' = [writes EXCEPT ![t] = Append(@,
                 [tool |-> wire[t].tool, arguments |-> wire[t].arguments])]
  <2>1. writes'[t] # <<>> /\ Len(writes'[t]) = 1
        /\ \A u \in TaskId : u # t => writes'[u] = writes[u]
    BY <1>3, <1>6 DEF Typed, RemTypeOK
  <2>2. OneChance' /\ UnknownIsFresh'
    BY <1>1, <1>2, <1>3, <2>1 DEF CallsAccounted, OneChance, UnknownIsFresh
  <2>3. OpenIsUnused' /\ ClosedIsOffWire'
    BY <1>1, <1>2, <1>4, <2>1 DEF CallsAccounted, OpenIsUnused, ClosedIsOffWire, Terminal
  <2>4. CallHasTask' /\ WorkingIsServed'
    BY <1>1, <1>6 DEF CallsAccounted, CallHasTask, WorkingIsServed
  <2>5. CallIsAccounted'
    BY <1>1, <1>2, <1>6, <2>1
    DEF CallsAccounted, CallIsAccounted, Typed, RemTypeOK, AgentCall
  <2>6. ServingIsAccounted'
    BY <1>6, <2>1 DEF ServingIsAccounted
  <2> QED
    BY <2>2, <2>3, <2>4, <2>5, <2>6 DEF CallsAccounted
<1> QED
  BY <1>5, <1>6 DEF Serve

\* The tool server answers the task it serves, "ok" or "error".
LEMMA FinishKeepsAccounts ==
    ASSUME Typed, Typed', CallsAccounted, Finish
    PROVE  CallsAccounted'
<1>1. inflight # None /\ inflight.outcome \in {"ok", "error"}
  BY DEF Finish, RecordOutcome, Returned, Typed, TypeOK, Execution
<1>2. serving \in TaskId /\ writes[serving] # <<>> /\ wire[serving] = None
  BY <1>1 DEF CallsAccounted, ServingIsAccounted, OneChance
<1>3. reply'.status \in {"ok", "error"} /\ inflight' = None
  BY <1>1 DEF Finish, RecordOutcome, Outcome
<1>4. UNCHANGED <<tasks, wire, known, writes>>
  BY DEF Finish
<1> reply' \in Outcomes \cup {None} /\ Answered(serving)
  BY DEF Finish, Typed, TypeOK
<1>5. call # None => call' # None /\ call'.task = call.task
                     /\ (call.task # serving => call' = call)
                     /\ (call.task = serving => call'.answer = reply')
  BY AnsweredCall DEF Typed
<1>6. call = None => call' = None
  BY AnsweredCall DEF Typed
<1>7. OneChance' /\ UnknownIsFresh' /\ OpenIsUnused' /\ ClosedIsOffWire'
  BY <1>4 DEF CallsAccounted, OneChance, UnknownIsFresh, OpenIsUnused, ClosedIsOffWire
<1>8. CallHasTask' /\ WorkingIsServed'
  BY <1>4, <1>5, <1>6 DEF CallsAccounted, CallHasTask, WorkingIsServed
<1>9. CallIsAccounted'
  BY <1>2, <1>3, <1>4, <1>5, <1>6 DEF CallsAccounted, CallIsAccounted
<1>10. ServingIsAccounted'
  BY <1>3 DEF ServingIsAccounted
<1> QED
  BY <1>7, <1>8, <1>9, <1>10 DEF CallsAccounted

\* The call returns to its handler, which closes the task, or pauses it after
\* a refusal.
LEMMA ReturnsKeepAccounts ==
    ASSUME Typed, CallsAccounted, Returns
    PROVE  CallsAccounted'
<1> DEFINE t == call.task
<1> CallHasTask
  BY DEF CallsAccounted
<1>1. PICK task \in RemTask :
         /\ tasks' = [tasks EXCEPT ![t] = task]
         /\ \/ Pause /\ task.state = "AUTH_REQUIRED"
            \/ Complete /\ task.state = "COMPLETED"
            \/ (Fail \/ GiveUp) /\ task.state = "FAILED"
  BY ReturnsTask DEF Typed
<1>2. call # None /\ call' = None
  BY ReturnsTask DEF Typed
<1>3. t \in TaskId
  BY <1>2, CalledTask DEF Typed
<1>4. Pause => writes[t] = <<>> /\ wire[t] = None
  BY DEF Pause, PausesOn, Replied, CallsAccounted, CallIsAccounted
<1>5. Complete => wire[t] = None
  BY DEF Complete, Replied, CallsAccounted, CallIsAccounted
<1>6. t \in known
  BY <1>2, <1>3 DEF CallsAccounted, UnknownIsFresh, CallHasTask
<1>7. UNCHANGED <<wire, serving, writes, inflight>>
  BY DEF Returns, Pause, Complete, Fail, GiveUp, vars
<1>8. known' = known \cup {t} \/ (known' = known /\ t \in known)
  BY <1>6 DEF Returns, Pause, Leaves, Complete, Fail, GiveUp
<1> QED
  BY <1>1, <1>2, <1>3, <1>4, <1>5, <1>7, <1>8, OneTaskMoves DEF Terminal

LEMMA DropKeepsAccounts ==
    ASSUME Typed, CallsAccounted, NEW t \in TaskId, Drop(t)
    PROVE  CallsAccounted'
<1>1. wire'[t] = None /\ \A u \in TaskId : u # t => wire'[u] = wire[u]
  BY DEF Drop, Typed, RemTypeOK
<1>2. UNCHANGED <<tasks, call, serving, known, writes, inflight>>
  BY DEF Drop, vars
<1>3. OneChance' /\ UnknownIsFresh' /\ OpenIsUnused' /\ ClosedIsOffWire'
  BY <1>1, <1>2
  DEF CallsAccounted, OneChance, UnknownIsFresh, OpenIsUnused, ClosedIsOffWire
<1>4. CallHasTask' /\ WorkingIsServed' /\ ServingIsAccounted'
  BY <1>2 DEF CallsAccounted, CallHasTask, WorkingIsServed, ServingIsAccounted
<1>5. CallIsAccounted'
  BY <1>1, <1>2 DEF CallsAccounted, CallIsAccounted, Typed, RemTypeOK, AgentCall
<1> QED
  BY <1>3, <1>4, <1>5 DEF CallsAccounted

\* Requests and runs in progress are gone; what had been set off stays so.
LEMMA RestartsKeepAccounts ==
    ASSUME Typed, CallsAccounted, ToolServerRestarts \/ AgentRestarts
    PROVE  CallsAccounted'
<1>1. CASE ToolServerRestarts
  <2>1. \A t \in TaskId : wire'[t] = None
    BY <1>1 DEF ToolServerRestarts
  <2>2. inflight' = None /\ UNCHANGED <<tasks, call, known, writes>>
    BY <1>1 DEF ToolServerRestarts, Restart
  <2>3. OneChance' /\ UnknownIsFresh' /\ OpenIsUnused' /\ ClosedIsOffWire'
    BY <2>1, <2>2
    DEF CallsAccounted, OneChance, UnknownIsFresh, OpenIsUnused, ClosedIsOffWire
  <2>4. CallHasTask' /\ WorkingIsServed' /\ ServingIsAccounted'
    BY <2>2 DEF CallsAccounted, CallHasTask, WorkingIsServed, ServingIsAccounted
  <2>5. CallIsAccounted'
    BY <2>1, <2>2 DEF CallsAccounted, CallIsAccounted, Typed, RemTypeOK, AgentCall
  <2> QED
    BY <2>3, <2>4, <2>5 DEF CallsAccounted
<1>2. CASE AgentRestarts
  <2>1. call' = None /\ \A t \in TaskId : tasks'[t] = None
    BY <1>2 DEF AgentRestarts
  <2>2. UNCHANGED <<wire, serving, known, writes, inflight>>
    BY <1>2 DEF AgentRestarts, vars
  <2>3. OneChance' /\ UnknownIsFresh' /\ OpenIsUnused' /\ ClosedIsOffWire'
    BY <2>1, <2>2
    DEF CallsAccounted, OneChance, UnknownIsFresh, OpenIsUnused, ClosedIsOffWire
  <2>4. CallHasTask' /\ CallIsAccounted' /\ WorkingIsServed'
    BY <2>1 DEF CallHasTask, CallIsAccounted, WorkingIsServed
  <2>5. ServingIsAccounted'
    BY <2>2 DEF CallsAccounted, ServingIsAccounted
  <2> QED
    BY <2>3, <2>4, <2>5 DEF CallsAccounted
<1> QED
  BY <1>1, <1>2

LEMMA CallsAccountedStep ==
    ASSUME Typed, CallsAccounted, [RemNext]_allVars
    PROVE  Typed' /\ CallsAccounted'
<1>1. Typed'
  BY RemTypeStep DEF CallsAccounted
<1>2. ASSUME NEW t \in TaskId, Message(t) PROVE CallsAccounted'
  BY <1>2, MessageKeepsAccounts
<1>3. ASSUME NEW t \in TaskId, Serve(t) PROVE CallsAccounted'
  BY <1>1, <1>3, ServeKeepsAccounts
<1>4. ASSUME NEW t \in TaskId, Drop(t) PROVE CallsAccounted'
  BY <1>4, DropKeepsAccounts
<1>5. HandlerEnds => CallsAccounted'
  BY DEF HandlerEnds, Handler, agent, CallsAccounted, OneChance, UnknownIsFresh,
     OpenIsUnused, ClosedIsOffWire, CallHasTask, CallIsAccounted,
     ServingIsAccounted, WorkingIsServed
<1>6. Finish => CallsAccounted'
  BY <1>1, FinishKeepsAccounts
<1>7. ToolServerRestarts \/ AgentRestarts => CallsAccounted'
  BY RestartsKeepAccounts
<1>8. Returns => CallsAccounted'
  BY ReturnsKeepAccounts
<1>9. UNCHANGED allVars => CallsAccounted'
  BY DEF allVars, vars, agent, CallsAccounted, OneChance, UnknownIsFresh,
     OpenIsUnused, ClosedIsOffWire, CallHasTask, CallIsAccounted,
     ServingIsAccounted, WorkingIsServed
<1> QED
  BY <1>1, <1>2, <1>3, <1>4, <1>5, <1>6, <1>7, <1>8, <1>9 DEF RemNext, ToolServer

LEMMA CallsAccountedInit == RemInit => CallsAccounted
BY DEF RemInit, Init, CallsAccounted, OneChance, UnknownIsFresh, OpenIsUnused,
   ClosedIsOffWire, CallHasTask, CallIsAccounted, ServingIsAccounted, WorkingIsServed

LEMMA RemediationInvariant == RemSpec => [](Typed /\ CallsAccounted)
<1>1. RemInit => Typed /\ CallsAccounted
  BY RemTypeInit, CallsAccountedInit
<1>2. Typed /\ CallsAccounted /\ [RemNext]_allVars => (Typed /\ CallsAccounted)'
  BY CallsAccountedStep
<1> QED
  BY <1>1, <1>2, PTL DEF RemSpec

\* The state of the agent's process always has the types RemTypeOK states.
THEOREM RemediationTypeCorrect == RemSpec => []RemTypeOK
BY RemediationInvariant, PTL DEF Typed

\* The agent is one of the callers OpsToolService allows for: whatever the
\* tool server promises holds while the agent, its tasks and its crashes use it.
THEOREM AgentKeepsService == RemSpec => Spec
<1>1. RemInit => Init
  BY DEF RemInit
<1>2. Typed /\ [RemNext]_allVars => [Next]_vars
  BY ServiceStep DEF Typed
<1> QED
  BY <1>1, <1>2, RemediationInvariant, PTL DEF RemSpec, Spec

\* So an approval the agent obtained and a person gave runs once, as refused.
THEOREM AgentApprovalsRunOnce == RemSpec => []ReleasedAsRefused
BY AgentKeepsService, ApprovalRunsOnceAsRefused, PTL

\* However often a task is paused, approved, sent another message or given up
\* on, and whatever crashes meanwhile, it leads to one handler run at most.
THEOREM TaskWritesOnce == RemSpec => []OneWritePerTask
<1>1. ASSUME CallsAccounted, NEW t \in TaskId PROVE Len(writes[t]) <= 1
  <2>1. CASE writes[t] = <<>>
    BY <2>1
  <2>2. CASE Len(writes[t]) = 1
    BY <2>2
  <2> QED
    BY <1>1, <2>1, <2>2 DEF CallsAccounted, OneChance
<1> QED
  <2>1. CallsAccounted => OneWritePerTask
    BY <1>1 DEF OneWritePerTask
  <2> QED
    BY <2>1, RemediationInvariant, PTL

\* The accounts of calls and runs agree with the tasks at every step.
THEOREM AccountsHold == RemSpec => []CallsAccounted
BY RemediationInvariant, PTL

\* A task is WORKING just while the agent waits for its call.
THEOREM WorkingTaskIsServed == RemSpec => []WorkingIsServed
BY RemediationInvariant, PTL DEF CallsAccounted

----------------------------------------------------------------------------
\* Tasks that are over.

\* Nothing but the loss of all tasks changes a task that is over.
LEMMA TerminalStep ==
    ASSUME Typed, CallsAccounted, [RemNext]_allVars,
           NEW t \in TaskId, tasks[t] # None, tasks[t].state \in Terminal
    PROVE  tasks'[t] = tasks[t] \/ crashes' # crashes
<1>1. ASSUME NEW u \in TaskId, Message(u) PROVE tasks'[t] = tasks[t]
  <2>1. Addressed(u) /\ \E task : tasks' = [tasks EXCEPT ![u] = task]
    <3>1. ASSUME NEW m \in Incident, NEW answer \in Answers, Remediate(u, m, answer)
          PROVE  Addressed(u) /\ \E task : tasks' = [tasks EXCEPT ![u] = task]
      BY <3>1, RemediateType DEF Remediate
    <3>2. ASSUME NEW r \in Ref \cup {None}, NEW approver \in Approver, Approve(u, r, approver)
          PROVE  Addressed(u) /\ \E task : tasks' = [tasks EXCEPT ![u] = task]
      BY <3>2, ApproveType DEF Approve
    <3>3. ASSUME NEW state, Settles(u, state)
          PROVE  \E task : tasks' = [tasks EXCEPT ![u] = task]
      BY <3>3 DEF Settles, Leaves
    <3> QED
      BY <1>1, <3>1, <3>2, <3>3, SettlingMessages
  <2>2. u # t
    BY <2>1 DEF Addressed, Continues, CallsAccounted, UnknownIsFresh
  <2> QED
    BY <2>1, <2>2 DEF Typed, RemTypeOK
<1>2. CASE Returns
  <2>1. call # None /\ \E task : tasks' = [tasks EXCEPT ![call.task] = task]
    BY <1>2, ReturnsTask DEF Typed, CallsAccounted
  <2>2. call.task # t
    BY <2>1 DEF CallsAccounted, WorkingIsServed, Terminal
  <2> QED
    BY <2>1, <2>2 DEF Typed, RemTypeOK
<1>3. AgentRestarts => crashes' # crashes
  BY DEF AgentRestarts, Typed, RemTypeOK
<1>4. ToolServer \/ UNCHANGED allVars => tasks' = tasks
  BY DEF ToolServer, Serve, Drop, HandlerEnds, Finish, ToolServerRestarts, allVars, agent
<1> QED
  BY <1>1, <1>2, <1>3, <1>4 DEF RemNext

\* A task that is over stays as it is.
THEOREM TerminalTasksStay == RemSpec => TerminalIsFinal
<1> DEFINE Stay == \A t \in TaskId : tasks[t] # None =>
        (tasks[t].state \in Terminal => tasks'[t] = tasks[t] \/ crashes' # crashes)
<1>1. Typed /\ CallsAccounted /\ [RemNext]_allVars => [Stay]_allVars
  BY TerminalStep
<1> QED
  BY <1>1, RemediationInvariant, PTL DEF RemSpec, TerminalIsFinal

\* Only a request that is read starts a run.
LEMMA WritesStep ==
    ASSUME Typed, CallsAccounted, [RemNext]_allVars,
           NEW t \in TaskId, tasks[t] # None, tasks[t].state \in Terminal \ {"FAILED"}
    PROVE  writes'[t] = writes[t]
<1>1. wire[t] = None
  BY DEF CallsAccounted, ClosedIsOffWire
<1>2. ASSUME NEW u \in TaskId, Serve(u) PROVE writes'[t] = writes[t]
  <2>1. u # t
    BY <1>1, <1>2 DEF Serve
  <2> QED
    BY <1>2, <2>1 DEF Serve, Typed, RemTypeOK
<1>3. ASSUME NEW u \in TaskId, Message(u) PROVE writes' = writes
  BY <1>3 DEF Message, Handle, Resume, Healthy, Undiagnosed, NoCandidate, PlanFails, Remediate,
     NothingToApprove, Decline, Approve, Cancel, Settles
<1>4. ASSUME NEW u \in TaskId, Drop(u) PROVE writes' = writes
  BY <1>4 DEF Drop
<1>5. HandlerEnds \/ Finish \/ ToolServerRestarts \/ Returns \/ AgentRestarts
        \/ UNCHANGED allVars => writes' = writes
  BY DEF HandlerEnds, Finish, ToolServerRestarts, Returns, Pause, Complete, Fail,
     GiveUp, AgentRestarts, allVars, agent
<1> QED
  BY <1>2, <1>3, <1>4, <1>5 DEF RemNext, ToolServer

\* A task that was completed, canceled or rejected sets nothing off any more.
THEOREM ClosedTasksAreQuiet == RemSpec => ClosedIsQuiet
<1> DEFINE Quiet == \A t \in TaskId : tasks[t] # None =>
        (tasks[t].state \in Terminal \ {"FAILED"} => writes'[t] = writes[t])
<1>1. Typed /\ CallsAccounted /\ [RemNext]_allVars => [Quiet]_allVars
  BY WritesStep
<1> QED
  BY <1>1, RemediationInvariant, PTL DEF RemSpec, ClosedIsQuiet

----------------------------------------------------------------------------
\* The agent keeps the life cycle its callers rely on.

\* One task gets a new state.
LEMMA OneTaskLives ==
    ASSUME RemTypeOK, NEW t \in TaskId, NEW task \in RemTask,
           tasks' = [tasks EXCEPT ![t] = task]
    PROVE  Life!Becomes(t, task.state)
<1> DEFINE life == [u \in TaskId |-> IF tasks[u] = None THEN None ELSE tasks[u].state]
           next == [u \in TaskId |-> IF tasks'[u] = None THEN None ELSE tasks'[u].state]
<1>1. \A u \in TaskId : tasks'[u] = IF u = t THEN task ELSE tasks[u]
  BY DEF RemTypeOK
<1>2. \A u \in TaskId : next[u] = IF u = t THEN task.state ELSE life[u]
  BY <1>1, AgentAbsenceAssumption
<1>3. next = [life EXCEPT ![t] = task.state]
  BY <1>2
<1> QED
  BY <1>3 DEF Life!Becomes, StateOf

\* Nobody's task is WORKING when a message is read, and the message's own is
\* new or paused.
LEMMA ListeningIsIdle ==
    ASSUME RemTypeOK, CallsAccounted, NEW t \in TaskId, Addressed(t)
    PROVE  Life!Idle /\ (t \notin known \/ StateOf(t) \in Life!Paused)
<1>1. \A u \in TaskId : tasks[u] # None => tasks[u].state # "WORKING"
  BY DEF Addressed, Listening, CallsAccounted, WorkingIsServed
<1>2. \A u \in TaskId : StateOf(u) # "WORKING"
  BY <1>1, AgentAbsenceAssumption DEF StateOf
<1>3. CASE t \in known
  <2>1. tasks[t] # None /\ tasks[t].state \notin Terminal /\ tasks[t] \in RemTask
    BY <1>3 DEF Addressed, Continues, RemTypeOK
  <2> QED
    BY <1>1, <1>2, <2>1 DEF RemTask, StateOf, Life!Idle, Life!Paused
<1> QED
  BY <1>2, <1>3 DEF Life!Idle

\* A message is one of TaskLife's.
LEMMA MessageLives ==
    ASSUME Typed, CallsAccounted, NEW t \in TaskId, Message(t)
    PROVE  Life!Next
<1> DEFINE Told == \E task \in RemTask : /\ tasks' = [tasks EXCEPT ![t] = task]
                                         /\ Addressed(t) /\ known' = known \cup {t}
<1>1. ASSUME NEW m \in Incident, NEW answer \in Answers, Remediate(t, m, answer)
      PROVE  Told
  BY <1>1, RemediateType DEF Remediate
<1>2. ASSUME NEW r \in Ref \cup {None}, NEW approver \in Approver, Approve(t, r, approver)
      PROVE  Told
  BY <1>2, ApproveType DEF Approve
<1>3. ASSUME NEW state \in Terminal \cup {"INPUT_REQUIRED"}, Addressed(t), Settles(t, state)
      PROVE  Told
  <2>1. TaskAt(t) \in RemTask
    BY <1>3, TaskAtType DEF Typed
  <2>2. [TaskAt(t) EXCEPT !.state = state, !.approval_ref = None] \in RemTask
    BY <2>1, TaskWith
  <2> QED
    BY <1>3, <2>2 DEF Settles, Leaves
<1>4. Told
  BY <1>1, <1>2, <1>3, SettlingMessages
<1>5. PICK task \in RemTask : /\ tasks' = [tasks EXCEPT ![t] = task]
                              /\ Addressed(t) /\ known' = known \cup {t}
  BY <1>4
<1>6. task.state \in Life!State
  BY DEF RemTask, Terminal, Life!State, Life!Terminal, Life!Paused
<1>7. Life!Becomes(t, task.state)
  BY <1>5, OneTaskLives DEF Typed
<1>8. Life!Idle /\ (t \notin known \/ StateOf(t) \in Life!Paused)
  BY <1>5, ListeningIsIdle DEF Typed
<1>9. Life!Message(t, task.state)
  BY <1>5, <1>7, <1>8 DEF Life!Message
<1> QED
  BY <1>6, <1>9 DEF Life!Next

\* The end of a call is the return of the handler.
LEMMA ReturnLives ==
    ASSUME Typed, CallsAccounted, Returns
    PROVE  Life!Next
<1> DEFINE t == call.task
<1>1. call # None /\ t \in TaskId
  BY ReturnsTask, CalledTask DEF Typed, CallsAccounted
<1>2. PICK task \in RemTask : /\ tasks' = [tasks EXCEPT ![t] = task]
                              /\ task.state \in {"AUTH_REQUIRED", "COMPLETED", "FAILED"}
  BY ReturnsTask DEF Typed, CallsAccounted
<1>3. StateOf(t) = "WORKING"
  BY <1>1 DEF CallsAccounted, CallHasTask, WorkingIsServed, StateOf
<1>4. known' = known
  <2>1. CASE Pause
    BY <1>1, <2>1 DEF Pause, Leaves, CallsAccounted, CallHasTask, UnknownIsFresh
  <2> QED
    BY <2>1 DEF Returns, Complete, Fail, GiveUp
<1>5. Life!Becomes(t, task.state)
  BY <1>1, <1>2, OneTaskLives DEF Typed
<1>6. Life!Return(t, task.state)
  BY <1>1, <1>2, <1>3, <1>4, <1>5 DEF Life!Return
<1>7. task.state \in Life!State
  BY <1>2 DEF Life!State, Life!Terminal, Life!Paused
<1> QED
  BY <1>1, <1>6, <1>7 DEF Life!Next

LEMMA LifeStep ==
    ASSUME Typed, CallsAccounted, [RemNext]_allVars
    PROVE  Life!Next \/ UNCHANGED Life!lifeVars
<1>1. ASSUME NEW t \in TaskId, Message(t) PROVE Life!Next
  BY <1>1, MessageLives
<1>2. Returns => Life!Next
  BY ReturnLives
<1>3. ASSUME AgentRestarts PROVE Life!Next
  <2>1. \A u \in TaskId : StateOf(u)' = None
    BY <1>3 DEF AgentRestarts, StateOf
  <2> QED
    BY <1>3, <2>1 DEF AgentRestarts, Life!Next, Life!Forget
<1>4. ToolServer \/ UNCHANGED allVars => tasks' = tasks /\ known' = known
  BY DEF ToolServer, Serve, Drop, HandlerEnds, Finish, ToolServerRestarts, allVars, agent
<1>5. tasks' = tasks /\ known' = known => UNCHANGED Life!lifeVars
  BY DEF Life!lifeVars, StateOf
<1> QED
  BY <1>1, <1>2, <1>3, <1>4, <1>5 DEF RemNext

\* The remediation agent implements TaskLife: whoever calls it - triage, a
\* person, the demo - sees one task at a time at work, tasks that are over
\* stay over, and an id handed out once.
THEOREM AgentImplementsTaskLife == RemSpec => AgentLivesByTheBook
<1>1. RemInit => Life!Init
  BY DEF RemInit, Life!Init, StateOf
<1>2. Typed /\ CallsAccounted /\ [RemNext]_allVars => [Life!Next]_(Life!lifeVars)
  BY LifeStep
<1> QED
  BY <1>1, <1>2, RemediationInvariant, PTL DEF RemSpec, AgentLivesByTheBook, Life!Spec
----------------------------------------------------------------------------
\* Plans: what was sent, and what ran, is the plan the task still has.

\* A task a message is handled on says nothing of having been applied.
LEMMA AddressedIsUnapplied ==
    ASSUME Typed, CallsAccounted, PlansKept, NEW t \in TaskId, Addressed(t)
    PROVE  ~TaskAt(t).applied
<1>1. CASE t \notin known
  BY <1>1 DEF TaskAt, NewTask
<1>2. CASE t \in known
  <2>1. tasks[t] # None /\ writes[t] = <<>>
    BY <1>2, AddressedIsUnused DEF Addressed, Continues
  <2> QED
    BY <1>2, <2>1 DEF TaskAt, PlansKept, OkMeansRun
<1> QED
  BY <1>1, <1>2

\* One task changes and nothing runs or is answered: what is left to show is
\* about that task.
LEMMA OneTaskKeepsPlans ==
    ASSUME Typed, PlansKept, NEW t \in TaskId, NEW task \in RemTask,
           tasks' = [tasks EXCEPT ![t] = task], writes' = writes,
           \A u \in TaskId : u # t => wire'[u] = wire[u],
           call' # None => call'.answer = None,
           wire'[t] # None => AsPlanned(task, wire'[t]),
           writes[t] # <<>> => AsPlanned(task, writes[t][1]),
           task.applied => writes[t] # <<>>,
           Unapplied(task) => writes[t] = <<>>
    PROVE  PlansKept'
<1>1. tasks'[t] = task /\ \A u \in TaskId : u # t => tasks'[u] = tasks[u]
  BY DEF Typed, RemTypeOK
<1>2. CallsArePlanned'
  BY <1>1 DEF PlansKept, CallsArePlanned, AsPlanned
<1>3. OkMeansRun'
  BY <1>1 DEF PlansKept, OkMeansRun
<1>4. UnappliedIsUnused'
  BY <1>1 DEF PlansKept, UnappliedIsUnused, Unapplied
<1> QED
  BY <1>2, <1>3, <1>4 DEF PlansKept

LEMMA MessageKeepsPlans ==
    ASSUME Typed, CallsAccounted, PlansKept, NEW t \in TaskId, Message(t)
    PROVE  PlansKept'
<1>1. ASSUME NEW m \in Incident, NEW answer \in Answers, Remediate(t, m, answer)
      PROVE  PlansKept'
  <2> DEFINE plan == Plan(answer, CandidateTool[m.failure_mode], m.service,
                          m.memory_limit_bytes)
             e == IF m.episode_id = None THEN t ELSE m.episode_id
             task == [TaskAt(t) EXCEPT !.state = "WORKING", !.plan = plan,
                         !.episode_id = e, !.approval_ref = None, !.boot = restarts]
             q == ToolCall(plan, e, None, None)
  <2>1. plan \in StoredPlan /\ e \in Episode /\ TaskAt(t) \in RemTask /\ restarts \in Nat
    BY <1>1, PlanType, TaskAtType, IncidentAssumption
    DEF Remediate, Typed, TypeOK, Diagnosis
  <2>2. task \in RemTask /\ task.plan = plan /\ task.applied = TaskAt(t).applied
        /\ task.state = "WORKING" /\ task.episode_id = e
    BY <2>1 DEF RemTask
  <2>3. tasks' = [tasks EXCEPT ![t] = task] /\ Calls(t, q, FALSE) /\ writes' = writes
    BY <1>1 DEF Remediate
  <2>4. call'.answer = None /\ wire'[t] = q
        /\ \A u \in TaskId : u # t => wire'[u] = wire[u]
    BY <2>3 DEF Calls, Typed, RemTypeOK
  <2>5. AsPlanned(task, q)
    BY <2>1, <2>2, AgentAbsenceAssumption DEF AsPlanned, ToolCall
  <2>5a. ~Unapplied(task)
    BY <2>2 DEF Unapplied
  <2>6. ~TaskAt(t).applied /\ writes[t] = <<>>
    BY <1>1, AddressedIsUnapplied, AddressedIsUnused DEF Remediate
  <2> HIDE DEF task, q
  <2> QED
    BY <2>2, <2>3, <2>4, <2>5, <2>5a, <2>6, OneTaskKeepsPlans
<1>2. ASSUME NEW r \in Ref \cup {None}, NEW approver \in Approver, Approve(t, r, approver)
      PROVE  PlansKept'
  <2> DEFINE task == [tasks[t] EXCEPT !.state = "WORKING", !.approval_ref = None]
             q == ToolCall(tasks[t].plan, tasks[t].episode_id, r, approver)
  <2>1. t \in known /\ TaskAt(t) = tasks[t] /\ tasks[t] \in RemTask
        /\ tasks[t].plan # None
    BY <1>2, ApproveType, TaskAtType DEF Approve, TaskAt, Typed
  <2>2. task \in RemTask /\ task.plan = tasks[t].plan /\ task.applied = tasks[t].applied
        /\ task.state = "WORKING" /\ task.episode_id = tasks[t].episode_id
    BY <2>1 DEF RemTask
  <2>3. tasks' = [tasks EXCEPT ![t] = task] /\ Calls(t, q, TRUE) /\ writes' = writes
    BY <1>2, <2>1 DEF Approve, Typed, RemTypeOK
  <2>4. call'.answer = None /\ wire'[t] = q
        /\ \A u \in TaskId : u # t => wire'[u] = wire[u]
    BY <2>3 DEF Calls, Typed, RemTypeOK
  <2>5. AsPlanned(task, q)
    BY <2>1, <2>2 DEF AsPlanned, ToolCall
  <2>5a. ~Unapplied(task)
    BY <2>2 DEF Unapplied
  <2>6. ~tasks[t].applied /\ writes[t] = <<>>
    BY <1>2, <2>1, AddressedIsUnapplied, AddressedIsUnused DEF Approve
  <2> HIDE DEF task, q
  <2> QED
    BY <2>2, <2>3, <2>4, <2>5, <2>5a, <2>6, OneTaskKeepsPlans
<1>3. ASSUME NEW state \in Terminal \cup {"INPUT_REQUIRED"}, Addressed(t),
             Settles(t, state)
      PROVE  PlansKept'
  <2> DEFINE task == [TaskAt(t) EXCEPT !.state = state, !.approval_ref = None]
  <2>1. TaskAt(t) \in RemTask
    BY <1>3, TaskAtType DEF Typed
  <2>2. task \in RemTask /\ task.applied = TaskAt(t).applied
    BY <2>1 DEF RemTask
  <2>3. tasks' = [tasks EXCEPT ![t] = task] /\ UNCHANGED <<writes, wire, call>>
    BY <1>3 DEF Settles, Leaves
  <2>4. ~TaskAt(t).applied /\ writes[t] = <<>> /\ wire[t] = None /\ call = None
    BY <1>3, AddressedIsUnapplied, AddressedIsUnused
  <2> HIDE DEF task
  <2> QED
    BY <2>2, <2>3, <2>4, OneTaskKeepsPlans
<1> QED
  BY <1>1, <1>2, <1>3, SettlingMessages

\* An answer given at once is a refusal, by an error or by the gate.
LEMMA AnswerAtOnce ==
    ASSUME TypeOK, NEW q \in Requests, Call(q), inflight' = None
    PROVE  reply'.status = "error" \/ \E r \in Ref : RequireHuman(q, r)
<1>1. ~ (Read(q) \/ Release(q) \/ Apply(q))
  BY ReadType, ReleaseType, ApplyType, ExecutionAssumption
<1>2. CASE RejectRequest(q) \/ UnknownTool(q) \/ NoEpisode(q) \/ UnknownRef(q) \/ NoApprover(q)
  BY <1>2 DEF RejectRequest, UnknownTool, NoEpisode, UnknownRef, NoApprover,
     FailUnaudited, Outcome
<1>3. CASE DeniedByTier(q) \/ Mismatch(q)
  BY <1>3 DEF DeniedByTier, Mismatch, Outcome
<1> QED
  BY <1>1, <1>2, <1>3 DEF Call

\* The tool server reads a request: a run that starts is of the plan, and an
\* answer at once is no "ok".
LEMMA ServeKeepsPlans ==
    ASSUME Typed, Typed', CallsAccounted, PlansKept, NEW t \in TaskId, Serve(t)
    PROVE  PlansKept'
<1>1. wire[t] # None /\ wire[t] \in Requests /\ Call(wire[t]) /\ tasks' = tasks
      /\ wire' = [wire EXCEPT ![t] = None]
  BY AgentAssumption DEF Serve, Typed, RemTypeOK
<1>2. wire'[t] = None /\ \A u \in TaskId : u # t => wire'[u] = wire[u]
  BY <1>1 DEF Typed, RemTypeOK
<1>3. writes[t] = <<>>
  BY <1>1 DEF CallsAccounted, OneChance
<1>4. tasks[t] # None => ~Unapplied(tasks[t])
  BY <1>1 DEF CallsAccounted, ClosedIsOffWire, Terminal, Unapplied
<1>5. CASE inflight' = None /\ Answered(t) /\ UNCHANGED <<serving, writes>>
  <2>1. reply' \in Outcomes \cup {None}
    BY DEF Typed, TypeOK
  <2>2. reply'.status # "ok"
    BY <1>1, <1>5, AnswerAtOnce DEF RequireHuman, Outcome, Typed
  <2>3. /\ call' # None => call # None /\ call'.task = call.task
        /\ call # None => (call.task = t => call'.answer = reply')
                          /\ (call.task # t => call' = call)
    BY <1>5, <2>1, AnsweredCall DEF Typed
  <2>4. CallsArePlanned' /\ UnappliedIsUnused'
    BY <1>1, <1>2, <1>5 DEF PlansKept, CallsArePlanned, AsPlanned, UnappliedIsUnused, Unapplied
  <2>5. OkMeansRun'
    BY <1>1, <1>5, <2>2, <2>3 DEF PlansKept, OkMeansRun
  <2> QED
    BY <2>4, <2>5 DEF PlansKept
<1>6. CASE /\ serving' = t /\ UNCHANGED call
           /\ writes' = [writes EXCEPT ![t] = Append(@,
                 [tool |-> wire[t].tool, arguments |-> wire[t].arguments])]
  <2>1. writes'[t] # <<>> /\ writes'[t][1].tool = wire[t].tool
        /\ writes'[t][1].arguments = wire[t].arguments
        /\ \A u \in TaskId : u # t => writes'[u] = writes[u]
    BY <1>3, <1>6 DEF Typed, RemTypeOK
  <2>2. CallsArePlanned'
    BY <1>1, <1>2, <2>1 DEF PlansKept, CallsArePlanned, AsPlanned
  <2>3. OkMeansRun'
    BY <1>1, <1>6, <2>1, CalledTask DEF PlansKept, OkMeansRun, CallsAccounted, Typed
  <2>4. UnappliedIsUnused'
    BY <1>1, <1>4, <2>1 DEF PlansKept, UnappliedIsUnused, Unapplied
  <2> QED
    BY <2>2, <2>3, <2>4 DEF PlansKept
<1> QED
  BY <1>5, <1>6 DEF Serve

\* The tool server answers a run.
LEMMA FinishKeepsPlans ==
    ASSUME Typed, Typed', CallsAccounted, PlansKept, Finish
    PROVE  PlansKept'
<1>1. writes[serving] # <<>> /\ UNCHANGED <<tasks, wire, writes>>
  BY DEF Finish, RecordOutcome, Returned, CallsAccounted, ServingIsAccounted
<1>2. reply' \in Outcomes \cup {None} /\ Answered(serving)
  BY DEF Finish, Typed, TypeOK
<1>3. /\ call' # None => call # None /\ call'.task = call.task
      /\ call # None => (call.task # serving => call' = call)
  BY <1>2, AnsweredCall DEF Typed
<1>4. CallsArePlanned' /\ UnappliedIsUnused'
  BY <1>1 DEF PlansKept, CallsArePlanned, AsPlanned, UnappliedIsUnused, Unapplied
<1>5. OkMeansRun'
  BY <1>1, <1>3 DEF PlansKept, OkMeansRun
<1> QED
  BY <1>4, <1>5 DEF PlansKept

\* What a return does to the task the call was made for: its plan stays.
LEMMA ReturnedTask ==
    ASSUME Typed, CallsAccounted, Returns
    PROVE  /\ call # None /\ call' = None
           /\ call.task \in TaskId /\ tasks[call.task] \in RemTask
           /\ \E task \in RemTask :
                 /\ tasks' = [tasks EXCEPT ![call.task] = task]
                 /\ task.plan = tasks[call.task].plan
                 /\ task.boot = tasks[call.task].boot
                 /\ task.episode_id = tasks[call.task].episode_id
                 /\ \/ /\ Pause /\ task.state = "AUTH_REQUIRED"
                       /\ task.approval_ref = call.answer.approval_ref
                       /\ task.applied = tasks[call.task].applied
                    \/ Complete /\ task.state = "COMPLETED" /\ task.applied
                    \/ /\ Fail \/ GiveUp
                       /\ task.state = "FAILED"
                       /\ task.applied = tasks[call.task].applied
<1> DEFINE t == call.task
<1>1. call # None /\ call' = None
  BY ReturnsTask DEF Typed, CallsAccounted
<1>2. call \in AgentCall /\ t \in TaskId /\ tasks[t] \in RemTask
      /\ tasks \in [TaskId -> RemTask \cup {None}]
  BY <1>1, CalledTask DEF Typed, CallsAccounted, RemTypeOK
<1>3. CASE Pause
  <2> DEFINE r == call.answer.approval_ref
             task == [tasks[t] EXCEPT !.state = "AUTH_REQUIRED", !.approval_ref = r]
  <2>1. TaskAt(t) = tasks[t]
    BY <1>1, <1>2 DEF TaskAt, CallsAccounted, CallHasTask, UnknownIsFresh
  <2>2. r \in Ref \cup {None}
    BY <1>2, <1>3 DEF Pause, PausesOn, Replied, AgentCall, Outcomes
  <2>3. task \in RemTask /\ task.state = "AUTH_REQUIRED" /\ task.approval_ref = r
        /\ task.plan = tasks[t].plan /\ task.boot = tasks[t].boot
        /\ task.episode_id = tasks[t].episode_id
        /\ task.applied = tasks[t].applied
    BY <1>2, <2>2 DEF RemTask
  <2>4. tasks' = [tasks EXCEPT ![t] = task]
    BY <1>3, <2>1 DEF Pause, Leaves
  <2> HIDE DEF task
  <2> QED
    BY <1>1, <1>2, <1>3, <2>3, <2>4
<1>4. CASE Complete
  <2> DEFINE task == [tasks[t] EXCEPT !.state = "COMPLETED", !.applied = TRUE]
  <2>1. task \in RemTask /\ task.state = "COMPLETED" /\ task.applied
        /\ task.plan = tasks[t].plan /\ task.boot = tasks[t].boot
        /\ task.episode_id = tasks[t].episode_id
    BY <1>2 DEF RemTask, Terminal
  <2>2. tasks' = [tasks EXCEPT ![t] = task]
    BY <1>2, <1>4 DEF Complete
  <2> HIDE DEF task
  <2> QED
    BY <1>1, <1>2, <1>4, <2>1, <2>2
<1>5. CASE Fail \/ GiveUp
  <2> DEFINE task == [tasks[t] EXCEPT !.state = "FAILED"]
  <2>1. task \in RemTask /\ task.state = "FAILED" /\ task.applied = tasks[t].applied
        /\ task.plan = tasks[t].plan /\ task.boot = tasks[t].boot
        /\ task.episode_id = tasks[t].episode_id
    BY <1>2 DEF RemTask, Terminal
  <2>2. tasks' = [tasks EXCEPT ![t] = task]
    BY <1>2, <1>5 DEF Fail, GiveUp
  <2> HIDE DEF task
  <2> QED
    BY <1>1, <1>2, <1>5, <2>1, <2>2
<1> QED
  BY <1>3, <1>4, <1>5 DEF Returns

LEMMA ReturnsKeepPlans ==
    ASSUME Typed, CallsAccounted, PlansKept, Returns
    PROVE  PlansKept'
<1> DEFINE t == call.task
<1>1. call # None /\ call' = None /\ t \in TaskId /\ tasks[t] \in RemTask
      /\ tasks[t] # None
  BY ReturnedTask, AgentAbsenceAssumption
<1>2. PICK task \in RemTask :
         /\ tasks' = [tasks EXCEPT ![t] = task]
         /\ task.plan = tasks[t].plan /\ task.episode_id = tasks[t].episode_id
         /\ Complete \/ task.applied = tasks[t].applied
         /\ task.state \in {"AUTH_REQUIRED", "COMPLETED", "FAILED"}
         /\ task.state = "COMPLETED" => task.applied
  BY ReturnedTask
<1>3. Complete => writes[t] # <<>>
  BY DEF Complete, Replied, PlansKept, OkMeansRun
<1>4. task.applied => writes[t] # <<>>
  BY <1>1, <1>2, <1>3 DEF PlansKept, OkMeansRun
<1>5. UNCHANGED <<wire, writes>>
  BY DEF Returns, Pause, Complete, Fail, GiveUp
<1>6. /\ wire[t] # None => AsPlanned(task, wire[t])
      /\ writes[t] # <<>> => AsPlanned(task, writes[t][1])
  BY <1>1, <1>2 DEF PlansKept, CallsArePlanned, AsPlanned
<1>7. ~Unapplied(task)
  BY <1>2 DEF Unapplied
<1> QED
  BY <1>1, <1>2, <1>4, <1>5, <1>6, <1>7, OneTaskKeepsPlans

LEMMA PlansKeptStep ==
    ASSUME Typed, CallsAccounted, PlansKept, [RemNext]_allVars
    PROVE  PlansKept'
<1> USE DEF PlansKept, CallsArePlanned, AsPlanned, OkMeansRun, UnappliedIsUnused, Unapplied
<1>1. ASSUME NEW t \in TaskId, Message(t) PROVE PlansKept'
  BY <1>1, MessageKeepsPlans
<1>2. ASSUME NEW t \in TaskId, Serve(t) PROVE PlansKept'
  BY <1>2, ServeKeepsPlans, CallsAccountedStep
<1>3. ASSUME NEW t \in TaskId, Drop(t) PROVE PlansKept'
  <2>1. \A u \in TaskId : wire'[u] = None \/ wire'[u] = wire[u]
    BY <1>3 DEF Drop, Typed, RemTypeOK
  <2> QED
    BY <1>3, <2>1 DEF Drop
<1>4. HandlerEnds \/ UNCHANGED allVars => PlansKept'
  BY DEF HandlerEnds, agent, allVars
<1>5. Finish => PlansKept'
  BY FinishKeepsPlans, CallsAccountedStep
<1>6. ToolServerRestarts => PlansKept'
  BY DEF ToolServerRestarts
<1>7. Returns => PlansKept'
  BY ReturnsKeepPlans
<1>8. AgentRestarts => PlansKept'
  BY DEF AgentRestarts
<1> QED
  BY <1>1, <1>2, <1>3, <1>4, <1>5, <1>6, <1>7, <1>8 DEF RemNext, ToolServer

LEMMA PlansInvariant == RemSpec => [](Typed /\ CallsAccounted /\ PlansKept)
<1>1. RemInit => PlansKept
  BY DEF RemInit, PlansKept, CallsArePlanned, OkMeansRun, UnappliedIsUnused
<1>2. Typed /\ CallsAccounted /\ PlansKept /\ [RemNext]_allVars => PlansKept'
  BY PlansKeptStep
<1> QED
  BY <1>1, <1>2, RemediationInvariant, PTL DEF RemSpec

\* A task that says it applied its plan led to one run, of that plan and in its
\* incident; one without a plan led to none, nor did one that is paused,
\* refused, canceled, or closed with nothing applied - over calls that are
\* given up on and executed later, and restarts of either process.
THEOREM TasksTellTheTruth == RemSpec => []AnswersAreTrue
<1>1. CallsAccounted /\ PlansKept => AnswersAreTrue
  <2> SUFFICES ASSUME CallsAccounted, PlansKept, NEW t \in TaskId, tasks[t] # None
               PROVE  /\ tasks[t].applied =>
                           /\ Len(writes[t]) = 1
                           /\ writes[t][1].tool = tasks[t].plan.tool
                           /\ writes[t][1].arguments.domain = tasks[t].plan.arguments
                           /\ writes[t][1].arguments.episode_id = tasks[t].episode_id
                      /\ Idle(tasks[t]) => writes[t] = <<>>
    BY DEF AnswersAreTrue
  <2>1. ASSUME tasks[t].applied
        PROVE  Len(writes[t]) = 1 /\ AsPlanned(tasks[t], writes[t][1])
    BY <2>1 DEF PlansKept, OkMeansRun, CallsArePlanned, CallsAccounted, OneChance
  <2>2. tasks[t].state \in {"AUTH_REQUIRED", "INPUT_REQUIRED"} => writes[t] = <<>>
    BY DEF CallsAccounted, OpenIsUnused, Terminal
  <2>3. Unapplied(tasks[t]) => writes[t] = <<>>
    BY DEF PlansKept, UnappliedIsUnused
  <2>4. tasks[t].plan = None => writes[t] = <<>>
    BY DEF PlansKept, CallsArePlanned, AsPlanned
  <2> QED
    BY <2>1, <2>2, <2>3, <2>4 DEF AsPlanned, Idle, Unapplied
<1> QED
  BY <1>1, PlansInvariant, PTL
----------------------------------------------------------------------------
\* Consent: a reference is shown for what was refused under it, and goes out,
\* and is used, only after a person said yes.

\* What a request does to an approval: refusals stay on record, a run under a
\* reference is that request's, and what is pending is taken by a run alone.
LEMMA CallOnReference ==
    ASSUME TypeOK, Approvals, NEW q \in Requests, Call(q), NEW r \in Ref
    PROVE  /\ refused[r] # None => refused'[r] = refused[r]
           /\ released[r] # <<>> => released'[r] # <<>>
           /\ released'[r] # <<>> =>
                 released[r] # <<>> \/ q.arguments.approval_ref = r
           /\ refused[r] # None =>
                 pending'[r] = pending[r] \/ released'[r] # <<>>
           /\ restarts' = restarts
<1>1. CASE Release(q)
  <2> DEFINE s == q.arguments.approval_ref
             run == [tool |-> q.tool, domain |-> q.arguments.domain,
                     episode |-> q.arguments.episode_id]
  <2>1. s \in Ref /\ run \in HeldCall
    BY <1>1, PresentedCall, RequestType DEF Release, HeldCall
  <2>2. released' = [released EXCEPT ![s] = Append(released[s], run)]
        /\ pending' = [pending EXCEPT ![s] = None]
        /\ UNCHANGED <<refused, restarts>>
    BY <1>1, <2>1 DEF Release, Consume, TypeOK
  <2>3. Len(Append(released[s], run)) = Len(released[s]) + 1 /\ Len(released[s]) \in Nat
    BY <2>1, AppendProperties, LenProperties DEF TypeOK
  <2>4. released'[s] = Append(released[s], run)
        /\ \A u \in Ref : u # s => released'[u] = released[u] /\ pending'[u] = pending[u]
    BY <2>1, <2>2 DEF TypeOK
  <2>5. released'[s] # <<>>
    BY <2>3, <2>4
  <2> QED
    BY <2>2, <2>4, <2>5
<1>2. ASSUME NEW s \in Ref, RequireHuman(q, s)
      PROVE  /\ refused[r] # None => refused'[r] = refused[r] /\ pending'[r] = pending[r]
             /\ released' = released /\ restarts' = restarts
  BY <1>2 DEF RequireHuman, TypeOK
<1>3. CASE ~ (Release(q) \/ \E s \in Ref : RequireHuman(q, s))
  <2>1. UNCHANGED <<pending, refused, released, restarts>>
    BY <1>3 DEF Call, RejectRequest, UnknownTool, DeniedByTier, Read, NoEpisode,
       UnknownRef, NoApprover, Mismatch, Apply, FailUnaudited, history
  <2> QED
    BY <2>1
<1> QED
  BY <1>1, <1>2, <1>3

\* What any step does to an approval.
LEMMA ReferenceStep ==
    ASSUME Typed, Approvals, [RemNext]_allVars, NEW r \in Ref
    PROVE  /\ refused[r] # None => refused'[r] = refused[r]
           /\ released[r] # <<>> => released'[r] # <<>>
           /\ refused[r] # None =>
                 pending'[r] = pending[r] \/ released'[r] # <<>> \/ restarts' # restarts
           /\ restarts' = restarts \/ restarts' = restarts + 1
<1>1. ASSUME NEW q \in Requests, Call(q)
      PROVE  /\ refused[r] # None => refused'[r] = refused[r]
             /\ released[r] # <<>> => released'[r] # <<>>
             /\ refused[r] # None => pending'[r] = pending[r] \/ released'[r] # <<>>
             /\ restarts' = restarts
  BY <1>1, CallOnReference DEF Typed
<1>2. ASSUME NEW outcome \in {"ok", "error"}, Handler(outcome)
      PROVE  UNCHANGED <<pending, refused, released, restarts>>
  BY <1>2 DEF Handler, history
<1>3. RecordOutcome \/ UNCHANGED vars => UNCHANGED <<pending, refused, released, restarts>>
  BY DEF RecordOutcome, history, vars
<1>4. Restart => restarts' # restarts /\ restarts' = restarts + 1
                 /\ UNCHANGED <<refused, released>>
  BY DEF Restart, Typed, TypeOK
<1>5. [Next]_vars
  BY ServiceStep DEF Typed
<1> QED
  BY <1>1, <1>2, <1>3, <1>4, <1>5 DEF Next

\* An approval that is pending for a task stays so, or is used, or lost with
\* a start of the tool server.
LEMMA StillPendingStep ==
    ASSUME Typed, Approvals, [RemNext]_allVars, NEW r \in Ref, refused[r] # None,
           NEW task \in RemTask, task.boot <= restarts, StillPending(task, r)
    PROVE  /\ \/ task.boot # restarts'
              \/ released'[r] # <<>>
              \/ pending'[r] = [tool |-> task.plan.tool, params_hash |->
                                  HashParams[DomainArguments(task.plan.arguments)]]
           /\ task.boot <= restarts'
<1>1. task.boot \in Nat /\ restarts \in Nat
  BY DEF RemTask, Typed, TypeOK
<1> QED
  BY <1>1, ReferenceStep DEF StillPending

\* A person says yes to what is on show.
LEMMA GrantsStep ==
    ASSUME Typed, Approvals, CallsAccounted, PlansKept, GrantsAreShown, ToldAsRefused,
           [RemNext]_allVars
    PROVE  GrantsAreShown'
<1>1. ASSUME NEW t \in TaskId, NEW r \in Nameable,
             NEW approver \in Approver, Approve(t, r, approver)
      PROVE  GrantsAreShown'
  <2>1. wire' = [wire EXCEPT ![t] = ToolCall(tasks[t].plan, tasks[t].episode_id, r, approver)]
        /\ granted' = granted \cup ({r} \ {None}) /\ UNCHANGED <<displayed, released>>
    BY <1>1 DEF Approve, Calls, vars
  <2>2. wire'[t].arguments.approval_ref = r
        /\ \A u \in TaskId : u # t => wire'[u] = wire[u]
    BY <2>1 DEF Typed, RemTypeOK, ToolCall
  <2> QED
    BY <1>1, <2>1, <2>2 DEF GrantsAreShown, Nameable
<1>2. ASSUME NEW t \in TaskId, NEW m \in Incident, NEW answer \in Answers,
             Remediate(t, m, answer)
      PROVE  GrantsAreShown'
  <2>1. UNCHANGED <<granted, displayed, released>>
    BY <1>2 DEF Remediate, vars
  <2>2. wire'[t].arguments.approval_ref = None
        /\ \A u \in TaskId : u # t => wire'[u] = wire[u]
    BY <1>2 DEF Remediate, Calls, Typed, RemTypeOK, ToolCall
  <2> QED
    BY <2>1, <2>2 DEF GrantsAreShown
<1>3. ASSUME NEW t \in TaskId, NEW state, Settles(t, state) PROVE GrantsAreShown'
  BY <1>3 DEF Settles, vars, GrantsAreShown
<1>4. ASSUME NEW t \in TaskId, Serve(t) PROVE GrantsAreShown'
  <2>1. wire[t] # None /\ wire[t] \in Requests /\ Call(wire[t])
        /\ UNCHANGED <<granted, displayed>>
    BY <1>4, AgentAssumption DEF Serve, Typed, RemTypeOK
  <2>2. \A u \in TaskId : wire'[u] = None \/ wire'[u] = wire[u]
    BY <1>4 DEF Serve, Typed, RemTypeOK
  <2>3. \A r \in Ref : released'[r] # <<>> => r \in granted
    <3> SUFFICES ASSUME NEW r \in Ref, released'[r] # <<>> PROVE r \in granted
      OBVIOUS
    <3>1. CASE released[r] # <<>>
      BY <3>1 DEF GrantsAreShown
    <3>2. CASE wire[t].arguments.approval_ref = r
      BY <3>2, <2>1, AbsenceAssumption DEF GrantsAreShown
    <3> QED
      BY <3>1, <3>2, <2>1, CallOnReference DEF Typed
  <2> QED
    BY <2>1, <2>2, <2>3 DEF GrantsAreShown
<1>5. ASSUME NEW t \in TaskId, Drop(t) PROVE GrantsAreShown'
  <2>1. \A u \in TaskId : wire'[u] = None \/ wire'[u] = wire[u]
    BY <1>5 DEF Drop, Typed, RemTypeOK
  <2> QED
    BY <1>5, <2>1 DEF Drop, vars, GrantsAreShown
<1>6. HandlerEnds \/ Finish \/ AgentRestarts \/ UNCHANGED allVars => GrantsAreShown'
  BY DEF HandlerEnds, Handler, Finish, RecordOutcome, AgentRestarts, allVars, vars,
     agent, history, GrantsAreShown
<1>7. ToolServerRestarts => GrantsAreShown'
  BY DEF ToolServerRestarts, Restart, GrantsAreShown
<1>8. Complete \/ Fail \/ GiveUp => GrantsAreShown'
  BY DEF Complete, Fail, GiveUp, vars, GrantsAreShown
<1>9. ASSUME Pause PROVE GrantsAreShown'
  <2>1. \A r \in Ref : displayed[r] # None => displayed'[r] # None
    <3>1. call.task \in TaskId /\ tasks[call.task].plan \in StoredPlan
      BY <1>9, CalledTask DEF Pause, PausesOn, Replied, Typed, CallsAccounted
    <3>2. [tool |-> tasks[call.task].plan.tool, domain |-> tasks[call.task].plan.arguments]
            \in [tool: Tool, domain: Domain]
      BY <3>1, AgentAssumption DEF StoredPlan
    <3> QED
      BY <1>9, <3>2, AbsenceAssumption DEF Pause, Typed, RemTypeOK
  <2> QED
    BY <1>9, <2>1 DEF Pause, vars, Typed, RemTypeOK, GrantsAreShown
<1> QED
  BY <1>1, <1>2, <1>3, <1>4, <1>5, <1>6, <1>7, <1>8, <1>9
  DEF RemNext, Message, Handle, Resume, ToolServer, Returns, Healthy, Undiagnosed,
      NoCandidate, PlanFails, NothingToApprove, Decline, Cancel

\* A status message shows what was refused.
LEMMA ShownStep ==
    ASSUME Typed, Approvals, CallsAccounted, ShownAsRefused, ToldAsRefused,
           [RemNext]_allVars
    PROVE  ShownAsRefused'
<1>1. \A r \in Ref : refused[r] # None => refused'[r] = refused[r]
  BY ReferenceStep
<1>2. CASE Pause
  <2> DEFINE r == call.answer.approval_ref
             plan == tasks[call.task].plan
  <2>1. r \in Ref /\ refused[r] # None
        /\ refused[r].tool = plan.tool /\ refused[r].domain = plan.arguments
    BY <1>2 DEF Pause, PausesOn, Replied, ToldAsRefused
  <2>2. displayed' = [displayed EXCEPT ![r] = [tool |-> plan.tool, domain |-> plan.arguments]]
    BY <1>2 DEF Pause
  <2>3. /\ displayed'[r] = [tool |-> refused[r].tool, domain |-> refused[r].domain]
        /\ \A s \in Ref : s # r => displayed'[s] = displayed[s]
    BY <2>1, <2>2 DEF Typed, RemTypeOK
  <2> QED
    BY <1>1, <2>1, <2>3 DEF ShownAsRefused
<1>3. CASE ~Pause
  <2>1. displayed' = displayed
    BY <1>3 DEF RemNext, Message, Handle, Resume, ToolServer, Returns, Healthy,
       Undiagnosed, NoCandidate, PlanFails, Remediate, NothingToApprove, Decline,
       Approve, Cancel, Settles, Serve, Drop, HandlerEnds, Finish, ToolServerRestarts,
       Complete, Fail, GiveUp, AgentRestarts, allVars, agent
  <2> QED
    BY <1>1, <2>1 DEF ShownAsRefused
<1> QED
  BY <1>2, <1>3

\* The agent is told of a refusal of the plan it asked for.
LEMMA ToldStep ==
    ASSUME Typed, Typed', Approvals, CallsAccounted, PlansKept, PausesStand,
           ToldAsRefused, [RemNext]_allVars
    PROVE  ToldAsRefused'
<1>1. ASSUME call' = call, call # None, tasks'[call.task] = tasks[call.task]
      PROVE  ToldAsRefused'
  <2>1. tasks[call.task] \in RemTask /\ tasks[call.task].boot <= restarts
    BY <1>1, CalledTask DEF Typed, CallsAccounted, CallHasTask, PausesStand, Stands
  <2> QED
    BY <1>1, <2>1, ReferenceStep, StillPendingStep DEF ToldAsRefused, StillPending
<1>2. ASSUME call' = None \/ call'.answer = None PROVE ToldAsRefused'
  BY <1>2 DEF ToldAsRefused
<1>3. ASSUME NEW t \in TaskId, Message(t) PROVE ToldAsRefused'
  <2>1. ASSUME NEW state \in Terminal \cup {"INPUT_REQUIRED"}, Addressed(t), Settles(t, state)
        PROVE  call' = None
    BY <2>1 DEF Settles, Addressed, Listening
  <2>2. ASSUME NEW m \in Incident, NEW answer \in Answers, Remediate(t, m, answer)
        PROVE  call'.answer = None
    BY <2>2 DEF Remediate, Calls
  <2>3. ASSUME NEW r \in Ref \cup {None}, NEW approver \in Approver, Approve(t, r, approver)
        PROVE  call'.answer = None
    BY <2>3 DEF Approve, Calls
  <2> QED
    BY <1>2, <1>3, <2>1, <2>2, <2>3, SettlingMessages
<1>4. ASSUME NEW t \in TaskId, Serve(t) PROVE ToldAsRefused'
  <2>1. wire[t] # None /\ wire[t] \in Requests /\ Call(wire[t]) /\ tasks' = tasks
    BY <1>4, AgentAssumption DEF Serve, Typed, RemTypeOK
  <2>2. reply' \in Outcomes \cup {None}
    BY DEF Typed, TypeOK
  <2>3. CASE UNCHANGED call
    BY <1>1, <1>2, <2>1, <2>3
  <2>4. CASE inflight' = None /\ Answered(t)
    <3>1. CASE call = None \/ call.task # t
      BY <1>1, <1>2, <2>1, <2>2, <2>4, <3>1, AnsweredCall DEF Typed
    <3>2. CASE call # None /\ call.task = t
      <4>1. call' # None /\ call'.task = t /\ call'.answer = reply'
        BY <2>2, <2>4, <3>2, AnsweredCall DEF Typed
      <4>2. CASE reply'.status = "error"
        BY <4>1, <4>2 DEF ToldAsRefused
      <4>3. ASSUME NEW r \in Ref, RequireHuman(wire[t], r) PROVE ToldAsRefused'
        <5> DEFINE q == wire[t]
                   held == [tool |-> q.tool, domain |-> q.arguments.domain,
                            episode |-> q.arguments.episode_id]
        <5>1. reply'.approval_ref = r
              /\ refused' = [refused EXCEPT ![r] = held]
              /\ pending' = [pending EXCEPT ![r] = [tool |-> q.tool, params_hash |->
                               HashParams[DomainArguments(q.arguments.domain)]]]
          BY <4>3 DEF RequireHuman, Outcome
        <5>2. held \in HeldCall
          BY <2>1, <4>3, AttributedCall, RequestType DEF RequireHuman, Unclaimed, HeldCall
        <5>3. refused'[r] = held /\ held # None
              /\ pending'[r] = [tool |-> q.tool, params_hash |->
                                  HashParams[DomainArguments(q.arguments.domain)]]
          BY <5>1, <5>2, AbsenceAssumption DEF Typed, TypeOK, HeldCall
        <5>4. AsPlanned(tasks[t], q)
          BY <2>1, <3>2 DEF PlansKept, CallsArePlanned, CallsAccounted, CallHasTask
        <5> QED
          BY <2>1, <4>1, <5>1, <5>3, <5>4 DEF ToldAsRefused, StillPending, AsPlanned
      <4> QED
        BY <2>1, <2>4, <4>2, <4>3, AnswerAtOnce DEF Typed
    <3> QED
      BY <3>1, <3>2
  <2> QED
    BY <1>4, <2>3, <2>4 DEF Serve
<1>5. ASSUME Finish PROVE ToldAsRefused'
  <2>1. reply'.status \in {"ok", "error"} /\ tasks' = tasks
    BY <1>5 DEF Finish, RecordOutcome, Returned, Outcome, Typed, TypeOK, Execution
  <2>2. Answered(serving) /\ reply' \in Outcomes \cup {None}
    BY <1>5 DEF Finish, Typed, TypeOK
  <2>3. CASE call = None \/ call.task # serving
    BY <1>1, <1>2, <2>1, <2>2, <2>3, AnsweredCall DEF Typed
  <2>4. CASE call # None /\ call.task = serving
    <3>1. call'.answer = reply'
      BY <2>2, <2>4, AnsweredCall DEF Typed
    <3> QED
      BY <2>1, <3>1 DEF ToldAsRefused
  <2> QED
    BY <2>3, <2>4
<1>6. CASE \/ \E t \in TaskId : Drop(t)
           \/ HandlerEnds \/ ToolServerRestarts \/ UNCHANGED allVars
  <2>1. UNCHANGED <<call, tasks>>
    BY <1>6 DEF Drop, HandlerEnds, ToolServerRestarts, allVars, agent
  <2> QED
    BY <1>1, <1>2, <2>1
<1>7. Returns \/ AgentRestarts => call' = None
  BY DEF Returns, Pause, Complete, Fail, GiveUp, AgentRestarts
<1> QED
  BY <1>2, <1>3, <1>4, <1>5, <1>6, <1>7 DEF RemNext, ToolServer

\* A task that stays as it is stands, as its reference does.
LEMMA KeptTaskStands ==
    ASSUME Typed, Approvals, PausesStand, [RemNext]_allVars,
           NEW t \in TaskId, tasks[t] # None, tasks'[t] = tasks[t]
    PROVE  Stands(t)'
<1> DEFINE r == tasks[t].approval_ref
<1>1. tasks[t] \in RemTask /\ Stands(t)
  BY DEF Typed, RemTypeOK, PausesStand
<1>2. restarts' = restarts \/ restarts' = restarts + 1
  <2>1. [Next]_vars
    BY ServiceStep DEF Typed
  <2> QED
    BY <2>1 DEF Next, vars, Call, RejectRequest, UnknownTool, DeniedByTier, Read, NoEpisode,
       UnknownRef, NoApprover, Mismatch, Release, RequireHuman, Apply, FailUnaudited,
       Handler, RecordOutcome, Restart, history
<1>3. tasks'[t].boot <= restarts'
  BY <1>1, <1>2 DEF Stands, RemTask, Typed, TypeOK
<1>4. CASE tasks[t].state = "AUTH_REQUIRED"
  <2>1. r \in Ref /\ refused[r] # None /\ StillPending(tasks[t], r)
    BY <1>1, <1>4 DEF Stands
  <2>2. refused'[r] # None
    BY <2>1, ReferenceStep
  <2>3. StillPending(tasks[t], r)'
    BY <1>1, <2>1, StillPendingStep DEF Stands, StillPending
  <2> QED
    BY <1>3, <2>1, <2>2, <2>3 DEF Stands
<1>5. CASE tasks[t].state # "AUTH_REQUIRED"
  BY <1>3, <1>5 DEF Stands
<1> QED
  BY <1>4, <1>5

\* The handler gives a task another state than "wait for an approval", on a
\* plan of this start or an earlier one.
LEMMA MovedTaskStands ==
    ASSUME Typed, Approvals, PausesStand, [RemNext]_allVars,
           NEW t \in TaskId, NEW task \in RemTask, tasks' = [tasks EXCEPT ![t] = task],
           restarts' = restarts, task.boot <= restarts, task.state # "AUTH_REQUIRED"
    PROVE  PausesStand'
<1>1. tasks'[t] = task /\ \A u \in TaskId : u # t => tasks'[u] = tasks[u]
  BY DEF Typed, RemTypeOK
<1>2. Stands(t)'
  BY <1>1 DEF Stands
<1> QED
  BY <1>1, <1>2, KeptTaskStands DEF PausesStand

LEMMA PausesStep ==
    ASSUME Typed, Approvals, CallsAccounted, ToldAsRefused, PausesStand,
           [RemNext]_allVars
    PROVE  PausesStand'
<1>1. ASSUME NEW t \in TaskId, Message(t) PROVE PausesStand'
  <2>1. Addressed(t) /\ TaskAt(t) \in RemTask /\ restarts \in Nat /\ restarts' = restarts
    BY <1>1, SettlingMessages, TaskAtType
    DEF Typed, TypeOK, Remediate, Approve, Settles, vars
  <2>2. TaskAt(t).boot <= restarts
    BY <2>1 DEF TaskAt, NewTask, Addressed, Continues, PausesStand, Stands
  <2>3. ASSUME NEW m \in Incident, NEW answer \in Answers, Remediate(t, m, answer)
        PROVE  PausesStand'
    <3> DEFINE plan == Plan(answer, CandidateTool[m.failure_mode], m.service,
                            m.memory_limit_bytes)
               e == IF m.episode_id = None THEN t ELSE m.episode_id
               task == [TaskAt(t) EXCEPT !.state = "WORKING", !.plan = plan,
                           !.episode_id = e, !.approval_ref = None, !.boot = restarts]
    <3>1. plan \in StoredPlan /\ e \in Episode
      BY <2>3, PlanType, IncidentAssumption DEF Remediate, Diagnosis
    <3>2. tasks' = [tasks EXCEPT ![t] = task]
      BY <2>3 DEF Remediate
    <3> HIDE DEF plan, e
    <3>3. task \in RemTask /\ task.boot = restarts /\ task.state = "WORKING"
      BY <2>1, <3>1 DEF RemTask
    <3>4. task.boot <= restarts
      BY <2>1, <3>3
    <3> HIDE DEF task
    <3> QED
      BY <2>1, <3>2, <3>3, <3>4, MovedTaskStands
  <2>4. ASSUME NEW r \in Ref \cup {None}, NEW approver \in Approver, Approve(t, r, approver)
        PROVE  PausesStand'
    <3> DEFINE task == [tasks[t] EXCEPT !.state = "WORKING", !.approval_ref = None]
    <3>1. TaskAt(t) = tasks[t]
      BY <2>4, ApproveType DEF TaskAt, Typed
    <3>2. task \in RemTask /\ task.boot = tasks[t].boot /\ task.state = "WORKING"
      BY <2>1, <3>1 DEF RemTask
    <3>3. tasks' = [tasks EXCEPT ![t] = task]
      BY <2>1, <2>4, <3>1 DEF Approve, Typed, RemTypeOK
    <3> HIDE DEF task
    <3> QED
      BY <2>1, <2>2, <3>1, <3>2, <3>3, MovedTaskStands
  <2>5. ASSUME NEW state \in Terminal \cup {"INPUT_REQUIRED"}, Settles(t, state)
        PROVE  PausesStand'
    <3> DEFINE task == [TaskAt(t) EXCEPT !.state = state, !.approval_ref = None]
    <3>1. task \in RemTask /\ task.boot = TaskAt(t).boot /\ task.state # "AUTH_REQUIRED"
      BY <2>1 DEF RemTask, Terminal
    <3>2. tasks' = [tasks EXCEPT ![t] = task]
      BY <2>5 DEF Settles, Leaves
    <3> HIDE DEF task
    <3> QED
      BY <2>1, <2>2, <3>1, <3>2, MovedTaskStands
  <2> QED
    BY <1>1, <2>3, <2>4, <2>5, SettlingMessages
<1>2. ASSUME Returns PROVE PausesStand'
  <2>0. PICK t \in TaskId : t = call.task
    BY <1>2, ReturnedTask
  <2>1. call # None /\ tasks[t] # None /\ UNCHANGED vars
    BY <1>2, <2>0, ReturnedTask, AgentAbsenceAssumption
    DEF Returns, Pause, Complete, Fail, GiveUp
  <2>2. PICK task \in RemTask :
           /\ tasks' = [tasks EXCEPT ![t] = task]
           /\ task.plan = tasks[t].plan /\ task.boot = tasks[t].boot
           /\ \/ Pause /\ task.state = "AUTH_REQUIRED"
                 /\ task.approval_ref = call.answer.approval_ref
              \/ task.state \in {"COMPLETED", "FAILED"}
    BY <1>2, <2>0, ReturnedTask
  <2>3. task.boot <= restarts
    BY <2>1, <2>2 DEF PausesStand, Stands
  <2>4. CASE task.state # "AUTH_REQUIRED"
    BY <2>1, <2>2, <2>3, <2>4, MovedTaskStands DEF vars
  <2>5. CASE Pause /\ task.approval_ref = call.answer.approval_ref
    <3> DEFINE r == task.approval_ref
    <3>1. r \in Ref /\ refused[r] # None /\ StillPending(tasks[t], r)
      BY <2>0, <2>5 DEF Pause, PausesOn, Replied, ToldAsRefused
    <3>2. tasks'[t] = task /\ \A u \in TaskId : u # t => tasks'[u] = tasks[u]
      BY <2>1, <2>2 DEF Typed, RemTypeOK
    <3>3. Stands(t)'
      BY <2>1, <2>2, <2>3, <2>5, <3>1, <3>2 DEF Stands, StillPending, vars
    <3> QED
      BY <3>2, <3>3, KeptTaskStands DEF PausesStand
  <2> QED
    BY <2>2, <2>4, <2>5
<1>3. AgentRestarts => PausesStand'
  BY DEF AgentRestarts, PausesStand
<1>4. ToolServer \/ UNCHANGED allVars => tasks' = tasks
  BY DEF ToolServer, Serve, Drop, HandlerEnds, Finish, ToolServerRestarts, allVars, agent
<1>5. tasks' = tasks => PausesStand'
  BY KeptTaskStands DEF PausesStand
<1> QED
  BY <1>1, <1>2, <1>3, <1>4, <1>5 DEF RemNext

LEMMA ConsentInvariant ==
    RemSpec => [](Typed /\ Approvals /\ CallsAccounted /\ PlansKept /\ ConsentShown)
<1>1. RemInit => ConsentShown
  BY DEF RemInit, Init, ConsentShown, GrantsAreShown, ShownAsRefused, ToldAsRefused,
     PausesStand
<1>2. Typed /\ Approvals /\ CallsAccounted /\ PlansKept /\ ConsentShown
        /\ [RemNext]_allVars => ConsentShown'
  <2> SUFFICES ASSUME Typed, Approvals, CallsAccounted, PlansKept, ConsentShown,
                      [RemNext]_allVars
               PROVE  ConsentShown'
    OBVIOUS
  <2>1. GrantsAreShown /\ ShownAsRefused /\ ToldAsRefused /\ PausesStand
    BY DEF ConsentShown
  <2>2. GrantsAreShown'
    BY <2>1, GrantsStep
  <2>3. ShownAsRefused'
    BY <2>1, ShownStep
  <2>4. ToldAsRefused'
    BY <2>1, CallsAccountedStep, ToldStep
  <2>5. PausesStand'
    BY <2>1, PausesStep
  <2> QED
    BY <2>2, <2>3, <2>4, <2>5 DEF ConsentShown
<1> QED
  BY <1>1, <1>2, PlansInvariant, AgentKeepsService, ApprovalsInvariant, PTL DEF RemSpec

\* Whatever runs under an approval was shown to a person as just that, under
\* that reference, and the person said yes to it: whichever task the decision
\* was sent to, and over restarts of either process.
THEOREM ApprovedAsDisplayed == RemSpec => []RunsAsDisplayed
<1>1. Approvals /\ ConsentShown => RunsAsDisplayed
  <2> SUFFICES ASSUME Approvals, ConsentShown,
                      NEW r \in Ref, NEW i \in 1..Len(released[r])
               PROVE  /\ r \in granted
                      /\ displayed[r] = [tool |-> released[r][i].tool,
                                         domain |-> released[r][i].domain]
    BY DEF RunsAsDisplayed
  <2>1. released[r] # <<>>
    OBVIOUS
  <2>2. Len(released[r]) = 1 /\ released[r][1].tool = refused[r].tool
        /\ released[r][1].domain = refused[r].domain
    BY <2>1 DEF Approvals, ReleasedAsRefused
  <2>3. r \in granted /\ displayed[r] # None
    BY <2>1 DEF ConsentShown, GrantsAreShown
  <2>4. i = 1
    BY <2>2
  <2> QED
    BY <2>2, <2>3, <2>4 DEF ConsentShown, ShownAsRefused
<1> QED
  BY <1>1, ConsentInvariant, PTL

\* A paused task asks a person for an approval that can be given: it is still
\* pending for the task's own plan, unless it was used or its tool server is gone.
THEOREM PausesCanBeAnswered == RemSpec => []PauseCanBeAnswered
<1>1. ConsentShown => PauseCanBeAnswered
  BY DEF ConsentShown, PausesStand, Stands, PauseCanBeAnswered
<1> QED
  BY <1>1, ConsentInvariant, PTL
=============================================================================
