----------------------- MODULE IncidentResponseProofs -----------------------
(***************************************************************************)
(* Proofs about the whole system: the remediation agent in it is the one   *)
(* of Remediation, triage in it is the one of Triage, and what runs, and   *)
(* what triage says was done, follows from the alert - for every number of *)
(* alerts, tasks and restarts, every plan and every opinion.               *)
(***************************************************************************)
EXTENDS IncidentResponse, RemediationProofs

\* What the remediation agent does of its own, as triage sees it: it goes on
\* with a task it has, and its calls and their runs are of the task's plan.

\* The call q is the one task p's plan asks for, in its incident.
OfPlan(p, q) ==
    /\ tasks[p] # None /\ tasks[p].plan # None
    /\ q.tool = tasks[p].plan.tool
    /\ q.arguments.domain = tasks[p].plan.arguments
    /\ q.arguments.episode_id = tasks[p].episode_id

\* Task p keeps its plan, or ends with it applied.
KeepsPlan(p) ==
    \E task \in RemTask :
        /\ tasks[p] \in RemTask
        /\ tasks' = [tasks EXCEPT ![p] = task]
        /\ task.plan = tasks[p].plan /\ task.episode_id = tasks[p].episode_id
        /\ task.state = "COMPLETED" => task.applied

\* A person's decision on a task, or a cancellation, that needs no call.
LEMMA SettlesKeepsPlan ==
    ASSUME RemTypeOK, NEW p \in known, Addressed(p),
           NEW state \in {"FAILED", "REJECTED", "CANCELED"}, Settles(p, state)
    PROVE  KeepsPlan(p) /\ UNCHANGED <<known, wire, writes, crashes>>
<1> DEFINE task == [tasks[p] EXCEPT !.state = state, !.approval_ref = None]
<1>1. p \in TaskId /\ TaskAt(p) = tasks[p]
  BY DEF RemTypeOK, TaskAt
<1>2. tasks[p] \in RemTask
  BY <1>1, TaskAtType
<1>3. task \in RemTask /\ task.plan = tasks[p].plan /\ task.state = state
      /\ task.episode_id = tasks[p].episode_id
  BY <1>2 DEF RemTask, Terminal
<1>4. tasks' = [tasks EXCEPT ![p] = task]
  BY <1>1 DEF Settles, Leaves
<1> HIDE DEF task
<1>5. KeepsPlan(p)
  BY <1>2, <1>3, <1>4 DEF KeepsPlan
<1>6. known' = known
  BY DEF Settles, Leaves
<1> QED
  BY <1>5, <1>6 DEF Settles

\* An approval sends the task's own plan.
LEMMA ApproveKeepsPlan ==
    ASSUME Typed, NEW p \in known, NEW r \in Ref \cup {None}, NEW approver \in Approver,
           Approve(p, r, approver)
    PROVE  /\ KeepsPlan(p) /\ UNCHANGED <<known, writes, crashes>>
           /\ \E q : OfPlan(p, q) /\ wire' = [wire EXCEPT ![p] = q]
<1> DEFINE task == [tasks[p] EXCEPT !.state = "WORKING", !.approval_ref = None]
           q == ToolCall(tasks[p].plan, tasks[p].episode_id, r, approver)
<1>1. p \in TaskId /\ TaskAt(p) = tasks[p] /\ tasks[p].plan # None
      /\ Addressed(p)
  BY DEF Typed, RemTypeOK, TaskAt, Approve
<1>2. tasks[p] \in RemTask /\ tasks[p] # None
  BY <1>1, TaskAtType, AgentAbsenceAssumption DEF Typed
<1>3. task \in RemTask /\ task.plan = tasks[p].plan /\ task.state = "WORKING"
      /\ task.episode_id = tasks[p].episode_id
  BY <1>2 DEF RemTask
<1>4. tasks' = [tasks EXCEPT ![p] = task]
  BY <1>1, <1>2 DEF Approve, Typed, RemTypeOK
<1>5. OfPlan(p, q)
  BY <1>1, <1>2 DEF OfPlan, ToolCall
<1>6. wire' = [wire EXCEPT ![p] = q]
  BY DEF Approve, Calls
<1> HIDE DEF task, q
<1>7. KeepsPlan(p)
  BY <1>2, <1>3, <1>4 DEF KeepsPlan
<1> QED
  BY <1>5, <1>6, <1>7 DEF Approve

\* A decision or a cancellation, seen from triage.
LEMMA DecidedStep ==
    ASSUME Typed, CallsAccounted, NEW p \in known, Resume(p) \/ Cancel(p)
    PROVE  /\ KeepsPlan(p) /\ UNCHANGED <<known, writes, crashes>>
           /\ \/ wire' = wire
              \/ \E q : OfPlan(p, q) /\ wire' = [wire EXCEPT ![p] = q]
           /\ \E state \in Life!State : Life!Message(p, state)
<1>1. p \in TaskId /\ Addressed(p)
  BY DEF Resume, Cancel, NothingToApprove, Decline, Approve, Addressed, Typed, RemTypeOK
<1>2. /\ KeepsPlan(p) /\ UNCHANGED <<known, writes, crashes>>
      /\ \/ wire' = wire
         \/ \E q : OfPlan(p, q) /\ wire' = [wire EXCEPT ![p] = q]
  <2>1. CASE \E r \in Ref \cup {None}, approver \in Approver : Approve(p, r, approver)
    BY <2>1, ApproveKeepsPlan
  <2>2. CASE \E state \in {"FAILED", "REJECTED", "CANCELED"} : Settles(p, state)
    BY <1>1, <2>2, SettlesKeepsPlan DEF Typed
  <2> QED
    BY <2>1, <2>2 DEF Resume, Nameable, Cancel, NothingToApprove, Decline
<1>3. PICK task \in RemTask : tasks' = [tasks EXCEPT ![p] = task]
  BY <1>2 DEF KeepsPlan
<1>4. Life!Becomes(p, task.state) /\ task.state \in Life!State
  BY <1>1, <1>3, OneTaskLives
  DEF Typed, RemTask, Terminal, Life!State, Life!Terminal, Life!Paused
<1>5. Life!Idle /\ (p \notin known \/ StateOf(p) \in Life!Paused)
  BY <1>1, ListeningIsIdle DEF Typed
<1>6. Life!Message(p, task.state)
  BY <1>1, <1>2, <1>4, <1>5 DEF Life!Message
<1> QED
  BY <1>2, <1>4, <1>6

\* A return, seen from triage.
LEMMA ReturnsStep ==
    ASSUME Typed, CallsAccounted, Returns
    PROVE  \E p \in known :
              /\ KeepsPlan(p) /\ UNCHANGED <<known, wire, writes, crashes>>
              /\ \E state \in Life!State : Life!Return(p, state)
<1> DEFINE p == call.task
<1>1. call # None /\ p \in TaskId /\ tasks[p] \in RemTask /\ tasks[p] # None
  BY ReturnedTask, AgentAbsenceAssumption
<1>2. p \in known
  BY <1>1 DEF CallsAccounted, UnknownIsFresh
<1>3. PICK task \in RemTask :
         /\ tasks' = [tasks EXCEPT ![p] = task]
         /\ task.plan = tasks[p].plan /\ task.episode_id = tasks[p].episode_id
         /\ task.state \in {"AUTH_REQUIRED", "COMPLETED", "FAILED"}
         /\ task.state = "COMPLETED" => task.applied
  BY ReturnedTask
<1>4. KeepsPlan(p)
  BY <1>1, <1>3 DEF KeepsPlan
<1>5. known' = known
  <2>1. CASE Pause
    BY <1>2, <2>1 DEF Pause, Leaves
  <2> QED
    BY <2>1 DEF Returns, Complete, Fail, GiveUp
<1>6. UNCHANGED <<wire, writes, crashes>>
  BY DEF Returns, Pause, Complete, Fail, GiveUp
<1>7. StateOf(p) = "WORKING"
  BY <1>1 DEF CallsAccounted, WorkingIsServed, StateOf
<1>8. Life!Becomes(p, task.state)
  BY <1>1, <1>3, OneTaskLives DEF Typed
<1>9. Life!Return(p, task.state)
  BY <1>1, <1>3, <1>5, <1>7, <1>8 DEF Life!Return
<1>10. task.state \in Life!State
  BY <1>3 DEF Life!State, Life!Terminal, Life!Paused
<1> QED
  BY <1>2, <1>4, <1>5, <1>6, <1>9, <1>10

\* A step of the tool server: it forgets requests, or starts the run of one.
LEMMA ToolServerStep ==
    ASSUME Typed, CallsAccounted, ToolServer
    PROVE  /\ UNCHANGED <<tasks, known, crashes>>
           /\ \A p \in TaskId : wire'[p] \in {None, wire[p]}
           /\ \A p \in TaskId :
                 \/ writes'[p] = writes[p]
                 \/ /\ writes[p] = <<>> /\ wire[p] # None
                    /\ writes'[p] # <<>>
                    /\ writes'[p][1] = [tool |-> wire[p].tool,
                                        arguments |-> wire[p].arguments]
<1>1. ASSUME NEW t \in TaskId, Serve(t)
      PROVE  /\ \A p \in TaskId : wire'[p] \in {None, wire[p]}
             /\ \A p \in TaskId :
                 \/ writes'[p] = writes[p]
                 \/ /\ writes[p] = <<>> /\ wire[p] # None
                    /\ writes'[p] # <<>>
                    /\ writes'[p][1] = [tool |-> wire[p].tool,
                                        arguments |-> wire[p].arguments]
  <2> DEFINE start == [tool |-> wire[t].tool, arguments |-> wire[t].arguments]
  <2>1. wire[t] # None /\ wire' = [wire EXCEPT ![t] = None]
    BY <1>1 DEF Serve
  <2>2. \A p \in TaskId : wire'[p] \in {None, wire[p]}
    BY <2>1 DEF Typed, RemTypeOK
  <2>3. writes[t] = <<>>
    BY <2>1 DEF CallsAccounted, OneChance
  <2>4. CASE writes' = [writes EXCEPT ![t] = Append(@, start)]
    <3>1. writes' = [writes EXCEPT ![t] = <<start>>]
      BY <2>3, <2>4 DEF Typed, RemTypeOK
    <3>2. writes'[t] = <<start>> /\ \A p \in TaskId : p # t => writes'[p] = writes[p]
      BY <3>1 DEF Typed, RemTypeOK
    <3> HIDE DEF start
    <3>3. <<start>> # <<>> /\ <<start>>[1] = start
      OBVIOUS
    <3> QED
      BY <2>1, <2>2, <2>3, <3>2, <3>3 DEF start
  <2>5. CASE writes' = writes
    BY <2>2, <2>5
  <2> QED
    BY <1>1, <2>4, <2>5 DEF Serve
<1>2. ASSUME NEW t \in TaskId, Drop(t)
      PROVE  (\A p \in TaskId : wire'[p] \in {None, wire[p]}) /\ writes' = writes
  BY <1>2 DEF Drop, Typed, RemTypeOK
<1>3. HandlerEnds \/ Finish \/ ToolServerRestarts =>
        (\A p \in TaskId : wire'[p] \in {None, wire[p]}) /\ writes' = writes
  BY DEF HandlerEnds, Finish, ToolServerRestarts, agent
<1>4. UNCHANGED <<tasks, known, crashes>>
  BY DEF ToolServer, Serve, Drop, HandlerEnds, Finish, ToolServerRestarts, agent
<1> QED
  BY <1>1, <1>2, <1>3, <1>4 DEF ToolServer

\* What a diagnosis calls for.
AsDiagnosed(m, tool, domain, episode_id) ==
    /\ tool = CandidateTool[m.failure_mode]
    /\ domain = DeriveArguments(tool, m.service, m.memory_limit_bytes)
    /\ episode_id = m.episode_id

\* A delegation is read: there is a new task, planned as the diagnosis asks, or
\* closed unplanned, and not as COMPLETED.
LEMMA HandleStep ==
    ASSUME Typed, CallsAccounted, NEW p \in TaskId, p \notin known,
           NEW m \in Incident, m.failure_mode \in DOMAIN CandidateTool,
           m.episode_id # None, Handle(p, m)
    PROVE  /\ known' = known \cup {p} /\ UNCHANGED <<writes, crashes>>
           /\ \E task \in RemTask :
                 /\ tasks' = [tasks EXCEPT ![p] = task]
                 /\ task.state # "COMPLETED"
                 /\ \/ task.plan = None /\ wire' = wire
                    \/ /\ AsDiagnosed(m, task.plan.tool, task.plan.arguments,
                                      task.episode_id)
                       /\ \E q : /\ wire' = [wire EXCEPT ![p] = q]
                                 /\ AsDiagnosed(m, q.tool, q.arguments.domain,
                                                q.arguments.episode_id)
           /\ \E state \in Life!State : Life!Message(p, state)
<1> DEFINE Told(task) ==
        /\ tasks' = [tasks EXCEPT ![p] = task]
        /\ task.state # "COMPLETED"
        /\ \/ task.plan = None /\ wire' = wire
           \/ /\ AsDiagnosed(m, task.plan.tool, task.plan.arguments, task.episode_id)
              /\ \E q : /\ wire' = [wire EXCEPT ![p] = q]
                        /\ AsDiagnosed(m, q.tool, q.arguments.domain,
                                       q.arguments.episode_id)
<1>1. TaskAt(p) = NewTask /\ NewTask \in RemTask
  BY DEF TaskAt, NewTask, RemTask, Terminal
<1>2. m.failure_mode \notin {"healthy", "unknown"}
  BY DEF CandidateTool
<1>3. Addressed(p)
  BY DEF Addressed, Handle, Healthy, Undiagnosed, NoCandidate, PlanFails, Remediate
<1>4. ASSUME PlanFails(p, m)
      PROVE  /\ \E task \in RemTask : Told(task)
             /\ known' = known \cup {p} /\ UNCHANGED <<writes, crashes>>
  <2> DEFINE task == [NewTask EXCEPT !.state = "FAILED", !.approval_ref = None]
  <2>1. NewTask.plan = None
    BY DEF NewTask
  <2>2. task \in RemTask /\ task.state = "FAILED" /\ task.plan = None
    BY <1>1, <2>1 DEF RemTask, Terminal
  <2>3. tasks' = [tasks EXCEPT ![p] = task] /\ wire' = wire
    BY <1>1, <1>4 DEF PlanFails, Settles, Leaves
  <2> HIDE DEF task
  <2>4. Told(task)
    BY <2>2, <2>3
  <2>5. known' = known \cup {p} /\ UNCHANGED <<writes, crashes>>
    BY <1>4 DEF PlanFails, Settles, Leaves
  <2> HIDE DEF Told
  <2> QED
    BY <2>2, <2>4, <2>5
<1>5. ASSUME NEW answer \in Answers, Remediate(p, m, answer)
      PROVE  /\ \E task \in RemTask : Told(task)
             /\ known' = known \cup {p} /\ UNCHANGED <<writes, crashes>>
  <2> DEFINE plan == Plan(answer, CandidateTool[m.failure_mode], m.service,
                          m.memory_limit_bytes)
             e == m.episode_id
             task == [NewTask EXCEPT !.state = "WORKING", !.plan = plan,
                         !.episode_id = e, !.approval_ref = None, !.boot = restarts]
             q == ToolCall(plan, e, None, None)
  <2>1. plan \in StoredPlan /\ e \in Episode /\ restarts \in Nat
    BY <1>5, PlanType, IncidentAssumption DEF Remediate, Typed, TypeOK, Diagnosis
  <2>2. task \in RemTask /\ task.plan = plan /\ task.state = "WORKING"
        /\ task.episode_id = e
    BY <1>1, <2>1 DEF RemTask, NewTask
  <2>3. tasks' = [tasks EXCEPT ![p] = task] /\ Calls(p, q, FALSE)
    BY <1>1, <1>5 DEF Remediate
  <2>4. wire' = [wire EXCEPT ![p] = q]
    BY <2>3 DEF Calls
  <2>5. AsDiagnosed(m, plan.tool, plan.arguments, e)
    BY DEF AsDiagnosed, Plan
  <2>6. q.tool = plan.tool /\ q.arguments.domain = plan.arguments
        /\ q.arguments.episode_id = e
    BY DEF ToolCall
  <2>7. AsDiagnosed(m, q.tool, q.arguments.domain, q.arguments.episode_id)
    BY <2>5, <2>6
  <2> HIDE DEF task, q, plan
  <2>8. Told(task)
    BY <2>2, <2>3, <2>4, <2>5, <2>7
  <2>9. known' = known \cup {p} /\ UNCHANGED <<writes, crashes>>
    BY <1>5 DEF Remediate
  <2> HIDE DEF Told
  <2> QED
    BY <2>2, <2>8, <2>9
<1>6. /\ \E task \in RemTask : Told(task)
      /\ known' = known \cup {p} /\ UNCHANGED <<writes, crashes>>
  <2> HIDE DEF Told
  <2> QED
    BY <1>2, <1>4, <1>5 DEF Handle, Healthy, Undiagnosed, NoCandidate
<1>7. \E state \in Life!State : Life!Message(p, state)
  <2>1. PICK task \in RemTask : tasks' = [tasks EXCEPT ![p] = task]
    BY <1>6
  <2>2. Life!Becomes(p, task.state) /\ task.state \in Life!State
    BY <2>1, OneTaskLives
    DEF Typed, RemTask, Terminal, Life!State, Life!Terminal, Life!Paused
  <2>3. Life!Idle /\ (p \notin known \/ StateOf(p) \in Life!Paused)
    BY <1>3, ListeningIsIdle DEF Typed
  <2>4. Life!Message(p, task.state)
    BY <1>6, <2>2, <2>3 DEF Life!Message
  <2> QED
    BY <2>2, <2>4
<1> QED
  BY <1>6, <1>7

----------------------------------------------------------------------------
\* What triage does, seen from the whole system.

SystemTyped ==
    /\ ttasks \in [AlertId -> T!Task \cup {None}]
    /\ DOMAIN twire = AlertId /\ DOMAIN asked = AlertId /\ DOMAIN delegated = TaskId
    /\ tcrashes \in Nat

\* The modes of triage are those of its peer, and the rules name one of them.
LEMMA ModesAgree == T!FailureMode = FailureMode
BY DEF T!FailureMode, T!Holds, FailureMode

LEMMA RulesNameAMode ==
    ASSUME NEW signals
    PROVE  T!Classify(signals) \in FailureMode
<1> DEFINE First(i) == /\ T!Holds(signals)[T!Precedence[i]]
                       /\ \A j \in 1..(i - 1) : ~T!Holds(signals)[T!Precedence[j]]
           H(i) == T!Holds(signals)[T!Precedence[i]]
<1>1. H(8)
  BY DEF T!Holds, T!Precedence
<1>2. DOMAIN T!Precedence = 1..8 /\ \A i \in 1..8 : T!Precedence[i] \in FailureMode
  BY DEF T!Precedence, FailureMode
<1>3. \E i \in 1..8 : First(i)
  <2> HIDE DEF H
  <2>1. \A i \in 1..8 : H(i) /\ (\A j \in 1..(i - 1) : ~H(j)) => First(i)
    BY DEF H
  <2>2. \E i \in 1..8 : H(i) /\ (\A j \in 1..(i - 1) : ~H(j))
    BY <1>1
  <2> QED
    BY <2>1, <2>2
<1>4. T!Classify(signals) = T!Precedence[CHOOSE i \in 1..8 : First(i)]
  BY <1>2 DEF T!Classify
<1> HIDE DEF First
<1>5. (CHOOSE i \in 1..8 : First(i)) \in 1..8
  BY <1>3
<1> QED
  BY <1>2, <1>4, <1>5

\* The fields of the handler's frame.
LEMMA HandlerFields ==
    ASSUME HandlerStands, handling # T!Free
    PROVE  /\ handling \in T!Frame(handling.signals)
           /\ handling.task \in AlertId
           /\ handling.phase \in {"diagnosis", "act", "peer"}
           /\ ttasks[handling.task] = T!NewTask
           /\ handling.remote \in TaskId \cup {None}
           /\ handling.answer \in T!Peer!State \cup {None}
BY DEF HandlerStands, T!Frame

\* A handler in a phase is at work; a frame is not the free event loop.
LEMMA AtWork ==
    ASSUME NEW phase \in {"diagnosis", "act", "peer"}, T!In(phase)
    PROVE  handling # T!Free /\ handling.phase = phase
BY DEF T!In, T!Free

LEMMA FrameIsBusy ==
    ASSUME NEW signals, NEW frame \in T!Frame(signals)
    PROVE  frame # T!Free
BY DEF T!Frame, T!Free

\* A message starts the handler on a new task, from the alert's signals, or
\* puts one task in a state that names no task of the peer.
LEMMA AlertedStep ==
    ASSUME NEW t \in AlertId, Alerted(t)
    PROVE  /\ UNCHANGED <<allVars, traced, tcrashes, twire, paused>>
           /\ handling = T!Free
           /\ \E state \in T!Peer!State :
                 /\ ttasks' = [ttasks EXCEPT ![t] = [state |-> state, remote |-> None]]
                 /\ \/ handling' = T!Free
                    \/ /\ state = "WORKING"
                       /\ handling' \in T!Frame(handling'.signals)
                       /\ handling'.task = t /\ handling'.alert \in Alert
                       /\ handling'.signals = handling'.alert.signals
                       /\ handling'.phase = "diagnosis"
                       /\ handling'.remote = None /\ handling'.answer = None
<1>1. CASE T!Reject(t) \/ T!Cancel(t)
  BY <1>1
  DEF Alerted, Triages, T!Restates, T!Reject, T!Cancel, T!Addressed, T!Continues,
      T!Peer!State, T!Peer!Terminal, T!theirs
<1>2. ASSUME NEW alert \in Alert, T!Receive(t, alert)
      PROVE  /\ UNCHANGED <<twire, paused>>
             /\ handling = T!Free
             /\ ttasks' = [ttasks EXCEPT ![t] = [state |-> "WORKING", remote |-> None]]
             /\ handling' \in T!Frame(handling'.signals)
             /\ handling'.task = t /\ handling'.alert \in Alert
             /\ handling'.signals = handling'.alert.signals
             /\ handling'.phase = "diagnosis"
             /\ handling'.remote = None /\ handling'.answer = None
  <2> DEFINE frame == [task |-> t, alert |-> alert, signals |-> alert.signals,
                       phase |-> "diagnosis", gathered |-> FALSE,
                       diagnosis |-> None, remote |-> None, answer |-> None]
  <2>1. alert.signals # <<>>
    BY AlertAssumption
  <2>2. (alert.signals = <<>>) = FALSE
    BY <2>1
  <2>3. handling' = [task |-> t, alert |-> alert, signals |-> alert.signals,
                     phase |-> IF alert.signals = <<>> THEN "metrics" ELSE "diagnosis",
                     gathered |-> (alert.signals = <<>>),
                     diagnosis |-> None, remote |-> None, answer |-> None]
    BY <1>2 DEF T!Receive
  <2>4. handling' = frame
    BY <2>2, <2>3
  <2>5. frame \in T!Frame(frame.signals)
    BY DEF T!Frame
  <2>6. UNCHANGED <<twire, paused>> /\ handling = T!Free
        /\ ttasks' = [ttasks EXCEPT ![t] = [state |-> "WORKING", remote |-> None]]
    BY <1>2 DEF T!Receive, T!Addressed, T!Restates, T!theirs
  <2>7. frame.task = t /\ frame.alert \in Alert /\ frame.signals = frame.alert.signals
        /\ frame.phase = "diagnosis" /\ frame.remote = None /\ frame.answer = None
    OBVIOUS
  <2> HIDE DEF frame
  <2> QED
    BY <2>4, <2>5, <2>6, <2>7
<1>3. UNCHANGED <<allVars, traced, tcrashes>> /\ T!Message(t)
  BY DEF Alerted, Triages
<1> QED
  BY <1>1, <1>2, <1>3 DEF T!Message, T!Peer!State

\* The handler concludes what is wrong.
LEMMA DiagnoseStep ==
    ASSUME HandlerStands, T!Diagnose
    PROVE  /\ UNCHANGED <<ttasks, twire, paused>>
           /\ handling # T!Free /\ handling.phase = "diagnosis"
           /\ handling' \in T!Frame(handling'.signals) /\ handling'.phase = "act"
           /\ handling'.task = handling.task /\ handling'.alert = handling.alert
           /\ handling'.signals = handling.signals
           /\ handling'.remote = handling.remote /\ handling'.answer = handling.answer
           /\ handling'.diagnosis \in T!Diagnosis
           /\ Ruled(handling.alert, handling'.diagnosis.failure_mode)
<1>1. handling # T!Free /\ handling.phase = "diagnosis"
      /\ handling \in T!Frame(handling.signals)
      /\ handling.signals = handling.alert.signals
  BY AtWork DEF T!Diagnose, HandlerStands
<1>2. PICK mode \in FailureMode, source \in {"rule", "model"} :
         T!Concludes(mode, source) /\ Ruled(handling.alert, mode)
  BY <1>1, RulesNameAMode, OpinionAssumption DEF T!Diagnose, Ruled, FailureMode
<1>3. /\ UNCHANGED <<ttasks, twire, paused>>
      /\ handling' = [handling EXCEPT !.phase = "act",
                        !.diagnosis = [failure_mode |-> mode, source |-> source]]
  BY <1>2 DEF T!Concludes, T!theirs
<1>4. [failure_mode |-> mode, source |-> source] \in T!Diagnosis
  BY ModesAgree DEF T!Diagnosis
<1>5. /\ handling' \in T!Frame(handling'.signals) /\ handling'.phase = "act"
      /\ handling'.task = handling.task /\ handling'.alert = handling.alert
      /\ handling'.signals = handling.signals
      /\ handling'.remote = handling.remote /\ handling'.answer = handling.answer
      /\ handling'.diagnosis = [failure_mode |-> mode, source |-> source]
  BY <1>1, <1>3, <1>4 DEF T!Frame
<1> QED
  BY <1>1, <1>2, <1>3, <1>4, <1>5

\* The delegation goes out, of the alert and as it was diagnosed.
LEMMA DelegatesStep ==
    ASSUME SystemTyped, HandlerStands, Delegates
    PROVE  /\ UNCHANGED <<allVars, tcrashes, ttasks, paused, delegated>>
           /\ handling # T!Free /\ handling.phase = "act"
           /\ handling' \in T!Frame(handling'.signals)
           /\ handling'.phase = "peer" /\ handling'.task = handling.task
           /\ handling'.remote = None /\ handling'.answer = None
           /\ DOMAIN twire' = AlertId /\ DOMAIN asked' = AlertId
           /\ asked'[handling.task] = handling.alert
           /\ \E mode \in DOMAIN CandidateTool :
                 /\ Ruled(handling.alert, mode)
                 /\ twire'[handling.task] = DelegationOf(handling.task, handling.alert, mode)
           /\ \A t \in AlertId : t # handling.task =>
                 twire'[t] = twire[t] /\ asked'[t] = asked[t]
<1> DEFINE t == handling.task
           mode == handling.diagnosis.failure_mode
<1>1. T!In("act") /\ mode \notin {"healthy", "unknown", "blind"}
  BY DEF Delegates, T!Delegate, T!Actionable, T!Found
<1>2. handling # T!Free /\ handling.phase = "act" /\ t \in AlertId
      /\ handling \in T!Frame(handling.signals)
      /\ handling.signals = handling.alert.signals
      /\ handling.remote = None /\ handling.answer = None
      /\ handling.diagnosis \in T!Diagnosis /\ Ruled(handling.alert, mode)
  <2>1. handling # T!Free /\ handling.phase = "act"
    BY <1>1, AtWork
  <2> QED
    BY <2>1, HandlerFields DEF HandlerStands
<1>3. mode \in DOMAIN CandidateTool
  BY <1>1, <1>2, ModesAgree DEF T!Diagnosis, FailureMode, CandidateTool
<1>4. handling' = [handling EXCEPT !.phase = "peer", !.signals = <<>>, !.alert = None]
  BY DEF Delegates, T!Delegate
<1>5. handling' \in T!Frame(handling'.signals) /\ handling'.phase = "peer"
      /\ handling'.task = t /\ handling'.remote = None /\ handling'.answer = None
  BY <1>2, <1>4 DEF T!Frame
<1>6. twire' = [twire EXCEPT ![t] = DelegationOf(t, handling.alert, mode)]
  BY <1>2 DEF Delegates, T!Delegate, T!Found, DelegationOf
<1>7. asked' = [asked EXCEPT ![t] = handling.alert]
  BY DEF Delegates
<1>8. /\ DOMAIN twire' = AlertId /\ DOMAIN asked' = AlertId
      /\ asked'[t] = handling.alert
      /\ twire'[t] = DelegationOf(t, handling.alert, mode)
      /\ \A u \in AlertId : u # t => twire'[u] = twire[u] /\ asked'[u] = asked[u]
  BY <1>2, <1>6, <1>7 DEF SystemTyped
<1>9. UNCHANGED <<allVars, tcrashes, ttasks, paused, delegated>>
  BY DEF Delegates, T!Delegate
<1> QED
  BY <1>2, <1>3, <1>5, <1>8, <1>9

\* The handler returns: its task shows no task of the peer, or the one the
\* answer came for in the state that was answered.
LEMMA EndsStep ==
    ASSUME SystemTyped, HandlerStands, T!Conclude \/ T!Surface \/ T!GiveUp
    PROVE  /\ UNCHANGED <<twire, paused>>
           /\ handling # T!Free /\ handling' = T!Free
           /\ \E state \in T!Peer!State, remote \in TaskId \cup {None} :
                 /\ ttasks' = [ttasks EXCEPT ![handling.task] =
                                              [state |-> state, remote |-> remote]]
                 /\ \/ remote = None
                    \/ /\ T!In("peer") /\ remote = handling.remote
                       /\ state = "COMPLETED" => handling.answer = "COMPLETED"
<1> DEFINE t == handling.task
<1>1. handling # T!Free
  BY DEF T!Conclude, T!Surface, T!GiveUp, T!Actionable, T!In, T!Free
<1>2. ttasks[t] = T!NewTask /\ handling.remote \in TaskId \cup {None}
  BY <1>1, HandlerFields
<1>3. ASSUME NEW state, T!Closes(t, state)
      PROVE  /\ UNCHANGED <<twire, paused>> /\ handling' = T!Free
             /\ ttasks' = [ttasks EXCEPT ![t] = [state |-> state, remote |-> None]]
  <2>1. [T!NewTask EXCEPT !.state = state] = [state |-> state, remote |-> None]
    BY DEF T!NewTask
  <2>2. ttasks' = [ttasks EXCEPT ![t] = [ttasks[t] EXCEPT !.state = state]]
    BY <1>3 DEF T!Closes
  <2> QED
    BY <1>2, <1>3, <2>1, <2>2 DEF T!Closes, T!theirs
<1>4. CASE T!Conclude
  <2>1. PICK state \in {"COMPLETED", "INPUT_REQUIRED"} : T!Closes(t, state)
    BY <1>4 DEF T!Conclude
  <2> QED
    BY <1>1, <1>3, <2>1 DEF T!Peer!State, T!Peer!Terminal, T!Peer!Paused
<1>5. CASE T!GiveUp
  BY <1>1, <1>3, <1>5 DEF T!GiveUp, T!Peer!State, T!Peer!Terminal
<1>6. CASE T!Surface
  <2> DEFINE state == T!Surfaced(handling.answer)
  <2>1. ttasks' = [ttasks EXCEPT ![t] = [state |-> state, remote |-> handling.remote]]
        /\ UNCHANGED <<twire, paused>> /\ handling' = T!Free /\ T!In("peer")
    BY <1>6 DEF T!Surface, T!theirs
  <2>2. state \in T!Peer!State /\ (state = "COMPLETED" => handling.answer = "COMPLETED")
    BY DEF T!Surfaced, T!Peer!State, T!Peer!Terminal, T!Peer!Paused
  <2> HIDE DEF state
  <2> QED
    BY <1>1, <1>2, <2>1, <2>2
<1> QED
  BY <1>4, <1>5, <1>6

\* What triage sees of its peer: the state of the task it waits for, once it
\* is not WORKING.
LEMMA AnswersStep ==
    ASSUME HandlerStands, NEW remote \in TaskId \cup {None}, T!PeerAnswers(remote),
           RemTypeOK'
    PROVE  /\ UNCHANGED <<ttasks, tknown, peered>>
           /\ paused' = paused \cup {p \in TaskId : StateOf(p)' = "AUTH_REQUIRED"}
           /\ ~T!In("peer") => handling' = handling
           /\ T!In("peer") =>
                 /\ handling # T!Free
                 /\ handling' \in T!Frame(handling'.signals)
                 /\ handling'.phase = "peer" /\ handling'.task = handling.task
                 /\ handling'.remote = remote
                 /\ handling'.answer =
                       IF /\ handling.answer = None /\ remote # None
                          /\ StateOf(remote)' \notin {None, "WORKING"}
                       THEN StateOf(remote)' ELSE handling.answer
<1>1. UNCHANGED <<ttasks, tknown, peered>>
      /\ paused' = paused \cup {p \in TaskId : StateOf(p)' = "AUTH_REQUIRED"}
  BY DEF T!PeerAnswers
<1>2. CASE ~T!In("peer")
  BY <1>1, <1>2 DEF T!PeerAnswers
<1>3. CASE T!In("peer")
  <2>1. handling # T!Free /\ handling \in T!Frame(handling.signals)
        /\ handling.phase = "peer"
    BY <1>3, AtWork, HandlerFields
  <2>2. CASE /\ handling.answer = None /\ remote # None
             /\ StateOf(remote)' \notin {None, "WORKING"}
    <3>1. remote \in TaskId
      BY <2>2
    <3>2. handling' = [handling EXCEPT !.remote = remote, !.answer = StateOf(remote)']
      BY <1>3, <2>2, <3>1 DEF T!PeerAnswers
    <3>3. StateOf(remote)' \in T!Peer!State
      BY <2>2, <3>1
      DEF StateOf, RemTypeOK, RemTask, Terminal, T!Peer!State, T!Peer!Terminal,
          T!Peer!Paused
    <3>4. /\ handling' \in T!Frame(handling'.signals)
          /\ handling'.phase = "peer" /\ handling'.task = handling.task
          /\ handling'.remote = remote /\ handling'.answer = StateOf(remote)'
      BY <2>1, <3>2, <3>3 DEF T!Frame
    <3> QED
      BY <1>1, <1>3, <2>1, <2>2, <3>4
  <2>3. CASE ~ /\ handling.answer = None /\ remote # None
               /\ StateOf(remote)' \notin {None, "WORKING"}
    <3>1. handling' = [handling EXCEPT !.remote = remote]
      BY <1>3, <2>3 DEF T!PeerAnswers
    <3>2. /\ handling' \in T!Frame(handling'.signals)
          /\ handling'.phase = "peer" /\ handling'.task = handling.task
          /\ handling'.remote = remote /\ handling'.answer = handling.answer
      BY <2>1, <3>1 DEF T!Frame
    <3> QED
      BY <1>1, <1>3, <2>1, <2>3, <3>2
  <2> QED
    BY <2>2, <2>3
<1> QED
  BY <1>2, <1>3

----------------------------------------------------------------------------
\* What is so of the whole system, one kind of step at a time.

\* What an alert led to at the remediation agent.
Booked == /\ TasksAreDelegated /\ PlansAreCaused /\ CompletedIsApplied
          /\ EveryRunHasACause

\* Nothing of it changes while only triage does.
LEMMA TriageKeepsBooks ==
    ASSUME Booked, UNCHANGED <<allVars, delegated>>
    PROVE  Booked'
<1>1. UNCHANGED <<tasks, known, wire, writes, delegated>>
  BY DEF allVars, agent
<1> QED
  BY <1>1 DEF Booked, TasksAreDelegated, PlansAreCaused, CompletedIsApplied,
     EveryRunHasACause, Caused

\* Nor does what triage is waiting for.
LEMMA TriageSeesNothing ==
    ASSUME UNCHANGED <<allVars, delegated>>
    PROVE  /\ \A p \in TaskId : StateOf(p)' = StateOf(p)
           /\ \A t, p : LedTo(t, p)' = LedTo(t, p)
           /\ writes' = writes
BY DEF allVars, agent, StateOf, LedTo

\* A step of triage that leaves it with nothing to wait for: one task at most
\* has a new status, which shows a task of the peer only as was answered.
LEMMA TriageMoves ==
    ASSUME SystemTyped, Traced, UNCHANGED <<allVars, traced, tcrashes, twire, paused>>,
           NEW t \in AlertId, NEW state \in T!Peer!State, NEW remote \in TaskId \cup {None},
           \/ ttasks' = ttasks
           \/ ttasks' = [ttasks EXCEPT ![t] = [state |-> state, remote |-> remote]],
           remote # None => /\ LedTo(t, remote)
                            /\ state = "COMPLETED" => Len(writes[remote]) = 1,
           HandlerStands', ~T!In("peer")'
    PROVE  SystemTyped' /\ Traced'
<1>1. UNCHANGED <<asked, delegated, twire, paused, tcrashes>>
  BY DEF traced
<1>2. /\ \A p \in TaskId : StateOf(p)' = StateOf(p)
      /\ \A u, p : LedTo(u, p)' = LedTo(u, p)
      /\ writes' = writes
  BY <1>1, TriageSeesNothing
<1>3. [state |-> state, remote |-> remote] \in T!Task
  BY DEF T!Task
<1>4. SystemTyped'
  BY <1>1, <1>3 DEF SystemTyped
<1>5. Booked'
  BY <1>1, TriageKeepsBooks DEF Booked, Traced
<1>6. DelegationsStand'
  BY <1>1 DEF Traced, DelegationsStand
<1>7. \A u \in AlertId : \/ ttasks'[u] = ttasks[u]
                         \/ /\ u = t /\ ttasks'[u].state = state
                            /\ ttasks'[u].remote = remote
  BY DEF SystemTyped
<1>8. \A u \in AlertId : ttasks'[u] # None =>
          (ttasks'[u].remote # None => LedTo(u, ttasks'[u].remote))
  BY <1>7 DEF Traced, RemotesStand
<1>9. RemotesStand'
  BY <1>2, <1>8 DEF RemotesStand
<1>10. ASSUME NEW u \in AlertId, ttasks'[u] # None, ttasks'[u].state = "COMPLETED",
              ttasks'[u].remote # None
       PROVE  /\ delegated[ttasks'[u].remote].task = u
              /\ Len(writes[ttasks'[u].remote]) = 1
  BY <1>7, <1>10 DEF Traced, CompletedMeansDone, LedTo
<1>11. CompletedMeansDone'
  BY <1>1, <1>2, <1>10 DEF CompletedMeansDone
<1>12. T!AnswerIsPrompt'
  BY <1>1, <1>2 DEF Traced, T!AnswerIsPrompt
<1> QED
  BY <1>4, <1>5, <1>6, <1>9, <1>11, <1>12 DEF Traced, Booked

LEMMA AlertedIsTraced ==
    ASSUME SystemTyped, Traced, NEW t \in AlertId, Alerted(t)
    PROVE  SystemTyped' /\ Traced'
<1>1. PICK state \in T!Peer!State :
         /\ ttasks' = [ttasks EXCEPT ![t] = [state |-> state, remote |-> None]]
         /\ \/ handling' = T!Free
            \/ /\ state = "WORKING"
               /\ handling' \in T!Frame(handling'.signals)
               /\ handling'.task = t /\ handling'.alert \in Alert
               /\ handling'.signals = handling'.alert.signals
               /\ handling'.phase = "diagnosis"
               /\ handling'.remote = None /\ handling'.answer = None
  BY AlertedStep
<1>2. ttasks'[t] = [state |-> state, remote |-> None]
  BY <1>1 DEF SystemTyped
<1>3. HandlerStands'
  BY <1>1, <1>2 DEF HandlerStands, T!NewTask
<1>4. ~T!In("peer")'
  BY <1>1 DEF T!In, T!Free
<1>5. UNCHANGED <<allVars, traced, tcrashes, twire, paused>>
  BY AlertedStep
<1> QED
  BY <1>1, <1>3, <1>4, <1>5, TriageMoves

LEMMA HandlesIsTraced ==
    ASSUME SystemTyped, Traced, TriageHandles
    PROVE  SystemTyped' /\ Traced'
<1>1. UNCHANGED <<allVars, traced, tcrashes>> /\ HandlerStands
  BY DEF TriageHandles, Triages, Traced
<1>2. CASE T!Diagnose
  <2>1. handling.phase = "diagnosis" /\ handling'.phase = "act"
        /\ handling # T!Free /\ UNCHANGED <<ttasks, twire, paused>>
    BY <1>1, <1>2, DiagnoseStep
  <2>2. HandlerStands'
    BY <1>1, <1>2, <2>1, DiagnoseStep DEF HandlerStands, Ruled
  <2>3. ~T!In("peer")'
    BY <2>1 DEF T!In
  <2>4. handling.task \in AlertId /\ "WORKING" \in T!Peer!State
    BY <1>1, <2>1, HandlerFields DEF T!Peer!State
  <2> QED
    BY <1>1, <2>1, <2>2, <2>3, <2>4, TriageMoves
<1>3. CASE T!Conclude \/ T!Surface \/ T!GiveUp
  <2>1. UNCHANGED <<twire, paused>> /\ handling # T!Free /\ handling' = T!Free
    BY <1>1, <1>3, EndsStep
  <2>2. PICK state \in T!Peer!State, remote \in TaskId \cup {None} :
           /\ ttasks' = [ttasks EXCEPT ![handling.task] =
                                        [state |-> state, remote |-> remote]]
           /\ \/ remote = None
              \/ /\ T!In("peer") /\ remote = handling.remote
                 /\ state = "COMPLETED" => handling.answer = "COMPLETED"
    BY <1>1, <1>3, EndsStep
  <2>3. HandlerStands' /\ ~T!In("peer")'
    BY <2>1 DEF HandlerStands, T!In, T!Free
  <2>4. handling.task \in AlertId
    BY <1>1, <2>1, HandlerFields
  <2>5. remote # None => /\ LedTo(handling.task, remote)
                         /\ state = "COMPLETED" => Len(writes[remote]) = 1
    BY <2>2 DEF Traced, RemotesStand
  <2> QED
    BY <1>1, <2>1, <2>2, <2>3, <2>4, <2>5, TriageMoves
<1> QED
  BY <1>2, <1>3 DEF TriageHandles, Triages

LEMMA DelegatesIsTraced ==
    ASSUME SystemTyped, Traced, Delegates
    PROVE  SystemTyped' /\ Traced'
<1> DEFINE t == handling.task
<1>1. /\ UNCHANGED <<allVars, tcrashes, ttasks, paused, delegated>>
      /\ handling # T!Free /\ handling.phase = "act"
      /\ handling' \in T!Frame(handling'.signals)
      /\ handling'.phase = "peer" /\ handling'.task = t
      /\ handling'.remote = None /\ handling'.answer = None
      /\ DOMAIN twire' = AlertId /\ DOMAIN asked' = AlertId
      /\ asked'[t] = handling.alert
  BY DelegatesStep DEF Traced
<1>2. PICK mode \in DOMAIN CandidateTool :
         /\ Ruled(handling.alert, mode)
         /\ twire'[t] = DelegationOf(t, handling.alert, mode)
  BY DelegatesStep DEF Traced
<1>3. \A u \in AlertId : u # t => twire'[u] = twire[u] /\ asked'[u] = asked[u]
  BY DelegatesStep DEF Traced
<1>4. t \in AlertId /\ handling.alert \in Alert /\ ttasks[t] = T!NewTask
  BY <1>1, HandlerFields DEF Traced, HandlerStands
<1>5. /\ \A p \in TaskId : StateOf(p)' = StateOf(p)
      /\ \A u, p : LedTo(u, p)' = LedTo(u, p)
      /\ writes' = writes
  BY <1>1, TriageSeesNothing
<1>6. SystemTyped'
  BY <1>1 DEF SystemTyped
<1>7. Booked'
  BY <1>1, TriageKeepsBooks DEF Booked, Traced
<1>8. HandlerStands'
  BY <1>1, <1>4 DEF HandlerStands, T!NewTask
<1>9. DelegationOf(t, handling.alert, mode).failure_mode = mode
  BY DEF DelegationOf
<1>10. ASSUME NEW u \in AlertId, twire'[u] # None
       PROVE  /\ asked'[u] \in Alert
              /\ twire'[u].failure_mode \in DOMAIN CandidateTool
              /\ Ruled(asked'[u], twire'[u].failure_mode)
              /\ twire'[u] = DelegationOf(u, asked'[u], twire'[u].failure_mode)
  <2>1. CASE u = t
    BY <1>1, <1>2, <1>4, <1>9, <2>1
  <2>2. CASE u # t
    BY <1>3, <1>10, <2>2 DEF Traced, DelegationsStand
  <2> QED
    BY <2>1, <2>2
<1>11. DelegationsStand'
  BY <1>10 DEF DelegationsStand, Ruled, DelegationOf
<1>12. RemotesStand'
  BY <1>1, <1>5 DEF Traced, RemotesStand
<1>13. CompletedMeansDone'
  BY <1>1, <1>5 DEF Traced, CompletedMeansDone
<1>14. T!AnswerIsPrompt'
  BY <1>1, <1>5 DEF Traced, T!AnswerIsPrompt
<1> QED
  BY <1>6, <1>7, <1>8, <1>11, <1>12, <1>13, <1>14 DEF Traced, Booked

LEMMA DroppedIsTraced ==
    ASSUME SystemTyped, Traced, NEW t \in AlertId, Dropped(t)
    PROVE  SystemTyped' /\ Traced'
<1>1. /\ UNCHANGED <<allVars, tcrashes, asked, delegated, ttasks, handling, paused>>
      /\ twire' = [twire EXCEPT ![t] = None]
  BY DEF Dropped, Triages, T!Drop, traced
<1>2. DOMAIN twire' = AlertId /\ \A u \in AlertId : twire'[u] \in {None, twire[u]}
  BY <1>1 DEF SystemTyped
<1>3. /\ \A p \in TaskId : StateOf(p)' = StateOf(p)
      /\ \A u, p : LedTo(u, p)' = LedTo(u, p)
      /\ writes' = writes
  BY <1>1, TriageSeesNothing
<1>4. SystemTyped'
  BY <1>1, <1>2 DEF SystemTyped
<1>5. Booked'
  BY <1>1, TriageKeepsBooks DEF Booked, Traced
<1>6. HandlerStands'
  BY <1>1 DEF Traced, HandlerStands
<1>7. DelegationsStand'
  BY <1>1, <1>2 DEF Traced, DelegationsStand
<1>8. T!In("peer") => handling.task \in AlertId
  BY AtWork, HandlerFields DEF Traced
<1>9. RemotesStand'
  BY <1>1, <1>2, <1>3, <1>8 DEF Traced, RemotesStand, T!In
<1>10. CompletedMeansDone'
  BY <1>1, <1>3 DEF Traced, CompletedMeansDone
<1>11. T!AnswerIsPrompt'
  BY <1>1, <1>3 DEF Traced, T!AnswerIsPrompt, T!In
<1> QED
  BY <1>4, <1>5, <1>6, <1>7, <1>9, <1>10, <1>11 DEF Traced, Booked

LEMMA TriageRestartsIsTraced ==
    ASSUME SystemTyped, Traced, TriageRestarts
    PROVE  SystemTyped' /\ Traced'
<1>1. /\ UNCHANGED <<allVars, asked, delegated, twire, paused>>
      /\ ttasks' = [t \in AlertId |-> None] /\ handling' = T!Free
      /\ tcrashes' = tcrashes + 1
  BY DEF TriageRestarts, T!AgentRestarts, T!theirs, traced
<1>2. /\ \A p \in TaskId : StateOf(p)' = StateOf(p)
      /\ \A u, p : LedTo(u, p)' = LedTo(u, p)
      /\ writes' = writes
  BY <1>1, TriageSeesNothing
<1>3. SystemTyped'
  BY <1>1 DEF SystemTyped
<1>4. Booked'
  BY <1>1, TriageKeepsBooks DEF Booked, Traced
<1>5. DelegationsStand'
  BY <1>1 DEF Traced, DelegationsStand
<1>6. ~T!In("peer")' /\ HandlerStands'
  BY <1>1 DEF T!In, T!Free, HandlerStands
<1>7. RemotesStand' /\ CompletedMeansDone'
  BY <1>1, <1>6 DEF RemotesStand, CompletedMeansDone
<1>8. T!AnswerIsPrompt'
  BY <1>1, <1>2, <1>6 DEF Traced, T!AnswerIsPrompt
<1> QED
  BY <1>3, <1>4, <1>5, <1>6, <1>7, <1>8 DEF Traced, Booked

\* What triage waits for and shows, after it saw what its peer did.
LEMMA AnswersAreTraced ==
    ASSUME SystemTyped, Traced, RemTypeOK, RemTypeOK',
           NEW remote \in TaskId \cup {None}, T!PeerAnswers(remote),
           \A t, p : LedTo(t, p) => LedTo(t, p)',
           \A p \in TaskId : Len(writes[p]) = 1 => Len(writes'[p]) = 1,
           \A p \in TaskId : StateOf(p)' = "COMPLETED" => Len(writes'[p]) = 1,
           T!In("peer") =>
               /\ remote = handling.remote \/ handling.remote = None
               /\ remote # None =>
                     /\ twire'[handling.task] = None
                     /\ \A t : t = handling.task => LedTo(t, remote)'
    PROVE  HandlerStands' /\ RemotesStand' /\ CompletedMeansDone' /\ T!AnswerIsPrompt'
<1>1. HandlerStands /\ RemotesStand /\ CompletedMeansDone
  BY DEF Traced
<1>2. /\ UNCHANGED ttasks
      /\ paused' = paused \cup {p \in TaskId : StateOf(p)' = "AUTH_REQUIRED"}
  BY <1>1, AnswersStep
<1>3. \A t \in AlertId : ttasks[t] # None =>
         (ttasks[t].remote # None =>
            /\ ttasks[t].remote \in TaskId
            /\ \A p : p = ttasks[t].remote => LedTo(t, p)')
  <2>1. ASSUME NEW t \in AlertId, ttasks[t] # None, ttasks[t].remote # None
        PROVE  LedTo(t, ttasks[t].remote) /\ ttasks[t].remote \in TaskId
    BY <1>1, <2>1 DEF RemotesStand, LedTo, RemTypeOK
  <2> QED
    BY <2>1
<1>4. CompletedMeansDone'
  BY <1>1, <1>2, <1>3 DEF CompletedMeansDone, LedTo
<1>5. \A p \in TaskId : StateOf(p)' = "AUTH_REQUIRED" => p \in paused'
  BY <1>2
<1>6. CASE ~T!In("peer")
  <2>1. handling' = handling
    BY <1>1, <1>6, AnswersStep
  <2>2. ~T!In("peer")'
    BY <1>6, <2>1 DEF T!In
  <2>3. HandlerStands'
    BY <1>1, <1>2, <2>1 DEF HandlerStands
  <2>4. RemotesStand'
    BY <1>2, <1>3, <2>2 DEF RemotesStand
  <2>5. T!AnswerIsPrompt'
    BY <1>5, <2>2 DEF T!AnswerIsPrompt
  <2> QED
    BY <1>4, <2>3, <2>4, <2>5
<1>7. CASE T!In("peer")
  <2>1. /\ handling # T!Free
        /\ handling' \in T!Frame(handling'.signals)
        /\ handling'.phase = "peer" /\ handling'.task = handling.task
        /\ handling'.remote = remote
        /\ handling'.answer =
              IF /\ handling.answer = None /\ remote # None
                 /\ StateOf(remote)' \notin {None, "WORKING"}
              THEN StateOf(remote)' ELSE handling.answer
    BY <1>1, <1>7, AnswersStep
  <2>2. handling'.answer = None /\ remote # None => StateOf(remote)' \in {None, "WORKING"}
    BY <2>1
  <2>3. HandlerStands'
    BY <1>1, <1>2, <2>1 DEF HandlerStands, T!NewTask
  <2>4. T!AnswerIsPrompt'
    BY <1>5, <2>1, <2>2 DEF T!AnswerIsPrompt
  <2>5. remote = None => handling'.answer = None
    BY <1>1, <1>7, <2>1 DEF RemotesStand
  <2>6. ASSUME remote # None, handling'.answer = "COMPLETED"
        PROVE  Len(writes'[remote]) = 1
    <3>1. CASE StateOf(remote)' = "COMPLETED"
      BY <2>6, <3>1
    <3>2. CASE handling.answer = "COMPLETED"
      <4>1. "COMPLETED" # None
        BY OpinionAssumption DEF Life!State, Life!Terminal
      <4>2. handling.remote # None
        BY <1>1, <1>7, <3>2, <4>1 DEF RemotesStand
      <4> QED
        BY <1>1, <1>7, <2>6, <3>2, <4>2 DEF RemotesStand
    <3> QED
      BY <2>1, <2>6, <3>1, <3>2
  <2>7. RemotesStand'
    BY <1>2, <1>3, <1>7, <2>1, <2>5, <2>6 DEF RemotesStand
  <2> QED
    BY <1>4, <2>3, <2>4, <2>7
<1> QED
  BY <1>6, <1>7

\* The remediation agent or the tool server goes on with what there is.
LEMMA RemediationKeepsBooks ==
    ASSUME Typed, CallsAccounted, Booked, UNCHANGED <<known, delegated>>,
           tasks' = tasks \/ \E p \in known : KeepsPlan(p),
           \A p \in TaskId : wire'[p] \in {None, wire[p]}
                             \/ (p \in known /\ OfPlan(p, wire'[p])),
           \A p \in TaskId :
               \/ writes'[p] = writes[p]
               \/ /\ writes[p] = <<>> /\ wire[p] # None
                  /\ writes'[p] # <<>>
                  /\ writes'[p][1] = [tool |-> wire[p].tool,
                                      arguments |-> wire[p].arguments]
    PROVE  Booked'
<1>1. TasksAreDelegated'
  BY DEF Booked, TasksAreDelegated
<1>2. \A p \in TaskId : tasks'[p] # None =>
         \/ tasks'[p] = tasks[p]
         \/ /\ tasks[p] # None
            /\ tasks'[p].plan = tasks[p].plan /\ tasks'[p].episode_id = tasks[p].episode_id
            /\ tasks'[p].state = "COMPLETED" => tasks'[p].applied
  BY AgentAbsenceAssumption DEF KeepsPlan, Typed, RemTypeOK
<1>3. CompletedIsApplied'
  BY <1>2 DEF Booked, CompletedIsApplied
<1>4. ASSUME NEW p \in known
      PROVE  /\ tasks'[p] # None => (tasks'[p].plan # None =>
                    Caused(p, tasks'[p].plan.tool, tasks'[p].plan.arguments,
                           tasks'[p].episode_id))
             /\ wire'[p] # None =>
                    Caused(p, wire'[p].tool, wire'[p].arguments.domain,
                           wire'[p].arguments.episode_id)
  BY <1>2 DEF Booked, PlansAreCaused, OfPlan, Typed, RemTypeOK
<1>5. PlansAreCaused'
  BY <1>4 DEF PlansAreCaused, Caused
<1>6. ASSUME NEW p \in TaskId, writes'[p] # <<>>
      PROVE  /\ Ruled(delegated[p].alert, delegated[p].failure_mode)
             /\ Caused(p, writes'[p][1].tool, writes'[p][1].arguments.domain,
                       writes'[p][1].arguments.episode_id)
  <2>1. CASE writes'[p] = writes[p]
    BY <1>6, <2>1 DEF Booked, EveryRunHasACause
  <2>2. CASE /\ writes[p] = <<>> /\ wire[p] # None
             /\ writes'[p][1] = [tool |-> wire[p].tool, arguments |-> wire[p].arguments]
    <3>1. p \in known
      BY <2>2 DEF CallsAccounted, UnknownIsFresh
    <3> QED
      BY <2>2, <3>1 DEF Booked, PlansAreCaused, TasksAreDelegated
  <2> QED
    BY <2>1, <2>2
<1>7. EveryRunHasACause'
  BY <1>6 DEF EveryRunHasACause, Caused
<1> QED
  BY <1>1, <1>3, <1>5, <1>7 DEF Booked

\* What completed ran: the agent's own accounts say so.
LEMMA CompletedRan ==
    ASSUME CallsAccounted', PlansKept', CompletedIsApplied',
           NEW p \in TaskId, StateOf(p)' = "COMPLETED"
    PROVE  Len(writes'[p]) = 1
<1>1. "COMPLETED" # None
  BY OpinionAssumption DEF Life!State, Life!Terminal
<1>2. tasks'[p] # None /\ tasks'[p].state = "COMPLETED"
  BY <1>1 DEF StateOf
<1>3. writes'[p] # <<>>
  BY <1>2 DEF CompletedIsApplied, PlansKept, OkMeansRun
<1> QED
  BY <1>3 DEF CallsAccounted, OneChance

\* The fields of a diagnosis that planning reads are the alert's own: the
\* projection that crosses to the peer keeps the one signal among them.
LEMMA DiagnosisIsAlerts ==
    ASSUME NEW t \in AlertId, NEW alert \in Alert, NEW mode \in DOMAIN CandidateTool
    PROVE  LET m == DiagnosisOf(DelegationOf(t, alert, mode))
           IN  /\ m \in Incident
               /\ m.failure_mode = mode /\ m.service = alert.service
               /\ m.memory_limit_bytes =
                     T!Number(T!Get(alert.signals, "memory_limit_bytes"))
               /\ m.episode_id = T!EpisodeOf(t, alert) /\ m.episode_id # None
<1> DEFINE d == DelegationOf(t, alert, mode)
<1>1. DiagnosisOf(d) \in Incident
  BY AlertAssumption
<1>2. d.failure_mode = mode /\ d.service = alert.service
      /\ d.signals = T!Forwarded(alert.signals) /\ d.episode_id = T!EpisodeOf(t, alert)
  BY DEF DelegationOf
<1>3. T!Get(T!Forwarded(alert.signals), "memory_limit_bytes")
        = T!Get(alert.signals, "memory_limit_bytes")
  BY DEF T!Get, T!Forwarded, T!Restrict, T!ForwardedSignals
<1>4. T!EpisodeOf(t, alert) # None
  BY AlertAssumption, AbsenceAssumption DEF T!EpisodeOf
<1> HIDE DEF d
<1> QED
  BY <1>1, <1>2, <1>3, <1>4 DEF DiagnosisOf, d

\* A delegation that is read is one of the diagnoses the agent is modelled for.
LEMMA DelegatedReads ==
    ASSUME Typed, CallsAccounted, SystemTyped, Traced,
           NEW t \in AlertId, NEW p \in TaskId, Delegated(t, p)
    PROVE  \E mode \in DOMAIN CandidateTool : \E m \in Incident :
              /\ asked[t] \in Alert /\ Ruled(asked[t], mode)
              /\ twire[t].failure_mode = mode
              /\ m.failure_mode = mode /\ m.service = asked[t].service
              /\ m.memory_limit_bytes =
                    T!Number(T!Get(asked[t].signals, "memory_limit_bytes"))
              /\ m.episode_id = T!EpisodeOf(t, asked[t]) /\ m.episode_id # None
              /\ p \notin known /\ Handle(p, m)
<1> DEFINE mode == twire[t].failure_mode
           m == DiagnosisOf(twire[t])
<1>1. twire[t] # None /\ p \notin known /\ Handle(p, m)
  BY DEF Delegated
<1>2. asked[t] \in Alert /\ mode \in DOMAIN CandidateTool /\ Ruled(asked[t], mode)
      /\ twire[t] = DelegationOf(t, asked[t], mode)
  BY <1>1 DEF Traced, DelegationsStand
<1>3. m = DiagnosisOf(DelegationOf(t, asked[t], mode))
  BY <1>2
<1> HIDE DEF m
<1>4. /\ m \in Incident
      /\ m.failure_mode = mode /\ m.service = asked[t].service
      /\ m.memory_limit_bytes =
            T!Number(T!Get(asked[t].signals, "memory_limit_bytes"))
      /\ m.episode_id = T!EpisodeOf(t, asked[t]) /\ m.episode_id # None
  BY <1>2, <1>3, DiagnosisIsAlerts
<1> QED
  BY <1>1, <1>2, <1>4

\* What a delegation led to is on its account.
LEMMA DelegatedBooks ==
    ASSUME Typed, CallsAccounted, SystemTyped, Traced,
           NEW t \in AlertId, NEW p \in TaskId, Delegated(t, p)
    PROVE  /\ Booked'
           /\ known' = known \cup {p} /\ UNCHANGED <<writes, crashes>>
           /\ LedTo(t, p)'
           /\ \A u, q : LedTo(u, q) => LedTo(u, q)'
           /\ DOMAIN delegated' = TaskId
<1>1. PICK mode \in DOMAIN CandidateTool, m \in Incident :
              /\ asked[t] \in Alert /\ Ruled(asked[t], mode)
              /\ twire[t].failure_mode = mode
              /\ m.failure_mode = mode /\ m.service = asked[t].service
              /\ m.memory_limit_bytes =
                    T!Number(T!Get(asked[t].signals, "memory_limit_bytes"))
              /\ m.episode_id = T!EpisodeOf(t, asked[t]) /\ m.episode_id # None
              /\ p \notin known /\ Handle(p, m)
  BY DelegatedReads
<1> DEFINE origin == [task |-> t, alert |-> asked[t], failure_mode |-> mode]
<1>2. known' = known \cup {p} /\ UNCHANGED <<writes, crashes>>
  BY <1>1, HandleStep
<1>3. PICK task \in RemTask :
         /\ tasks' = [tasks EXCEPT ![p] = task]
         /\ task.state # "COMPLETED"
         /\ \/ task.plan = None /\ wire' = wire
            \/ /\ AsDiagnosed(m, task.plan.tool, task.plan.arguments, task.episode_id)
               /\ \E q : /\ wire' = [wire EXCEPT ![p] = q]
                         /\ AsDiagnosed(m, q.tool, q.arguments.domain,
                                        q.arguments.episode_id)
  BY <1>1, HandleStep
<1>4. delegated' = [delegated EXCEPT ![p] = origin]
  BY <1>1 DEF Delegated
<1>5. /\ DOMAIN delegated' = TaskId /\ delegated'[p] = origin
      /\ \A q \in TaskId : q # p => delegated'[q] = delegated[q]
  BY <1>4 DEF SystemTyped
<1>6. origin \in Origin /\ origin.task = t /\ origin.alert = asked[t]
      /\ origin.failure_mode = mode
  BY <1>1 DEF Origin
<1> HIDE DEF origin
<1>7. \A q \in known : q # p /\ q \in TaskId
  BY <1>1 DEF Typed, RemTypeOK
<1>8. Ruled(origin.alert, origin.failure_mode)
  BY <1>1, <1>6
<1>9. TasksAreDelegated'
  BY <1>2, <1>5, <1>6, <1>7, <1>8 DEF Traced, TasksAreDelegated, Ruled, Origin
<1>10. wire[p] = None /\ writes[p] = <<>>
  BY <1>1 DEF CallsAccounted, UnknownIsFresh
<1>11. tasks'[p] = task /\ \A q \in TaskId : q # p =>
          tasks'[q] = tasks[q] /\ wire'[q] = wire[q]
  BY <1>3 DEF Typed, RemTypeOK
<1>12. ASSUME NEW tool, NEW domain, NEW episode, AsDiagnosed(m, tool, domain, episode)
       PROVE  /\ tool = CandidateTool[delegated'[p].failure_mode]
              /\ domain = DeriveArguments(tool, delegated'[p].alert.service,
                   T!Number(T!Get(delegated'[p].alert.signals, "memory_limit_bytes")))
              /\ episode = T!EpisodeOf(delegated'[p].task, delegated'[p].alert)
  BY <1>1, <1>5, <1>6, <1>12 DEF AsDiagnosed
<1>13. \A tool, domain, episode :
          AsDiagnosed(m, tool, domain, episode) => Caused(p, tool, domain, episode)'
  BY <1>12 DEF Caused
<1>14. \A q \in known : \A tool, domain, episode :
          Caused(q, tool, domain, episode) => Caused(q, tool, domain, episode)'
  BY <1>5, <1>7 DEF Caused
<1>15. PlansAreCaused'
  <2>1. ASSUME NEW q \in known
        PROVE  /\ tasks'[q] # None => (tasks'[q].plan # None =>
                     \A tool, domain, episode :
                        tool = tasks'[q].plan.tool /\ domain = tasks'[q].plan.arguments
                        /\ episode = tasks'[q].episode_id
                            => Caused(q, tool, domain, episode)')
               /\ wire'[q] # None =>
                     \A tool, domain, episode :
                        tool = wire'[q].tool /\ domain = wire'[q].arguments.domain
                        /\ episode = wire'[q].arguments.episode_id
                            => Caused(q, tool, domain, episode)'
    BY <1>7, <1>11, <1>14 DEF Traced, PlansAreCaused
  <2>2. /\ tasks'[p].plan # None =>
                     \A tool, domain, episode :
                        tool = tasks'[p].plan.tool /\ domain = tasks'[p].plan.arguments
                        /\ episode = tasks'[p].episode_id
                            => Caused(p, tool, domain, episode)'
        /\ wire'[p] # None =>
                     \A tool, domain, episode :
                        tool = wire'[p].tool /\ domain = wire'[p].arguments.domain
                        /\ episode = wire'[p].arguments.episode_id
                            => Caused(p, tool, domain, episode)'
    BY <1>3, <1>10, <1>11, <1>13 DEF Typed, RemTypeOK
  <2> QED
    BY <1>2, <2>1, <2>2 DEF PlansAreCaused
<1>16. CompletedIsApplied'
  BY <1>3, <1>11 DEF Traced, CompletedIsApplied
<1>17. ASSUME NEW q \in TaskId, writes'[q] # <<>>
       PROVE  /\ Ruled(delegated'[q].alert, delegated'[q].failure_mode)
              /\ \A tool, domain, episode :
                    tool = writes'[q][1].tool /\ domain = writes'[q][1].arguments.domain
                    /\ episode = writes'[q][1].arguments.episode_id
                        => Caused(q, tool, domain, episode)'
  <2>1. q # p /\ writes'[q] = writes[q]
    BY <1>2, <1>10, <1>17
  <2>2. q \in known
    BY <1>17, <2>1 DEF CallsAccounted, UnknownIsFresh
  <2> QED
    BY <1>5, <1>14, <1>17, <2>1, <2>2 DEF Traced, EveryRunHasACause
<1>18. EveryRunHasACause'
  BY <1>17 DEF EveryRunHasACause, Ruled
<1>19. LedTo(t, p)' /\ \A u, q : LedTo(u, q) => LedTo(u, q)'
  BY <1>2, <1>5, <1>6, <1>7 DEF LedTo
<1> QED
  BY <1>2, <1>5, <1>9, <1>15, <1>16, <1>18, <1>19 DEF Booked

\* Each step of the system is one the remediation agent's module allows.
LEMMA AgentsStep ==
    ASSUME Typed, CallsAccounted, SystemTyped, Traced, [SystemNext]_systemVars
    PROVE  [RemNext]_allVars
<1>1. ASSUME NEW t \in AlertId, NEW p \in TaskId, Delegated(t, p) PROVE RemNext
  <2>1. PICK m \in Incident : Handle(p, m)
    BY <1>1, DelegatedReads
  <2> QED
    BY <2>1 DEF RemNext, Message
<1>2. ASSUME NEW p \in TaskId, Decided(p) PROVE RemNext
  BY <1>2 DEF Decided, Remediates, RemNext, Message
<1>3. RemediationWorks => RemNext
  BY DEF RemediationWorks, Remediates, RemNext
<1>4. RemediationRestarts => RemNext
  BY DEF RemediationRestarts, RemNext
<1>5. ASSUME NEW t \in AlertId, Alerted(t) \/ Dropped(t) PROVE UNCHANGED allVars
  BY <1>5 DEF Alerted, Dropped, Triages
<1>6. TriageHandles \/ Delegates \/ TriageRestarts => UNCHANGED allVars
  BY DEF TriageHandles, Delegates, TriageRestarts, Triages
<1>7. UNCHANGED systemVars => UNCHANGED allVars
  BY DEF systemVars
<1> QED
  BY <1>1, <1>2, <1>3, <1>4, <1>5, <1>6, <1>7 DEF SystemNext

\* What the remediation agent and the tool server do of their own.
LEMMA RemediatesIsTraced ==
    ASSUME Typed, CallsAccounted, SystemTyped, Traced, NEW step,
           Typed', CallsAccounted', PlansKept',
           Remediates(step), UNCHANGED <<known, crashes>>,
           tasks' = tasks \/ \E p \in known : KeepsPlan(p),
           \A p \in TaskId : wire'[p] \in {None, wire[p]}
                             \/ (p \in known /\ OfPlan(p, wire'[p])),
           \A p \in TaskId :
               \/ writes'[p] = writes[p]
               \/ /\ writes[p] = <<>> /\ wire[p] # None
                  /\ writes'[p] # <<>>
                  /\ writes'[p][1] = [tool |-> wire[p].tool,
                                      arguments |-> wire[p].arguments]
    PROVE  SystemTyped' /\ Traced'
<1>1. UNCHANGED <<twire, tcrashes, asked, delegated>> /\ T!PeerAnswers(T!Remote)
  BY DEF Remediates, traced
<1>2. Booked'
  BY <1>1, RemediationKeepsBooks DEF Traced, Booked
<1>3. DelegationsStand'
  BY <1>1 DEF Traced, DelegationsStand
<1>4. \A u, p : LedTo(u, p) => LedTo(u, p)'
  BY <1>1 DEF LedTo
<1>5. \A p \in TaskId : Len(writes[p]) = 1 => Len(writes'[p]) = 1
  <2>1. Len(<<>>) # 1
    OBVIOUS
  <2> QED
    BY <2>1
<1>6. \A p \in TaskId : StateOf(p)' = "COMPLETED" => Len(writes'[p]) = 1
  BY <1>2, CompletedRan DEF Booked
<1>7. T!Remote \in TaskId \cup {None}
  BY AtWork, HandlerFields DEF T!Remote, Traced
<1>8. T!In("peer") => T!Remote = handling.remote
  BY DEF T!Remote
<1>9. T!In("peer") /\ T!Remote # None =>
         twire'[handling.task] = None /\ LedTo(handling.task, T!Remote)
  BY <1>1, <1>8 DEF Traced, RemotesStand
<1>10. PICK remote \in TaskId \cup {None} : remote = T!Remote
  BY <1>7
<1>11. HandlerStands' /\ RemotesStand' /\ CompletedMeansDone' /\ T!AnswerIsPrompt'
  <2>1. T!PeerAnswers(remote)
    BY <1>1, <1>10
  <2>2. T!In("peer") =>
           /\ remote = handling.remote \/ handling.remote = None
           /\ remote # None =>
                 /\ twire'[handling.task] = None
                 /\ \A t : t = handling.task => LedTo(t, remote)'
    <3>1. T!In("peer") /\ remote # None =>
             twire'[handling.task] = None /\ LedTo(handling.task, remote)
      BY <1>9, <1>10
    <3>2. \A u : LedTo(u, remote) => LedTo(u, remote)'
      BY <1>4
    <3> QED
      BY <1>8, <1>10, <3>1, <3>2
  <2> QED
    BY <1>4, <1>5, <1>6, <2>1, <2>2, AnswersAreTraced DEF Typed
<1>12. ttasks' = ttasks
  BY <1>1 DEF T!PeerAnswers
<1>13. SystemTyped'
  BY <1>1, <1>12 DEF SystemTyped
<1> QED
  BY <1>2, <1>3, <1>11, <1>13 DEF Traced, Booked

LEMMA DelegatedIsTraced ==
    ASSUME Typed, CallsAccounted, SystemTyped, Traced,
           Typed', CallsAccounted', PlansKept',
           NEW t \in AlertId, NEW p \in TaskId, Delegated(t, p)
    PROVE  SystemTyped' /\ Traced'
<1>1. /\ twire[t] # None /\ twire' = [twire EXCEPT ![t] = None]
      /\ T!PeerAnswers(IF T!In("peer") /\ handling.task = t THEN p ELSE T!Remote)
      /\ UNCHANGED <<tcrashes, asked>>
  BY DEF Delegated
<1>2. /\ Booked'
      /\ known' = known \cup {p} /\ UNCHANGED <<writes, crashes>>
      /\ LedTo(t, p)'
      /\ \A u, q : LedTo(u, q) => LedTo(u, q)'
      /\ DOMAIN delegated' = TaskId
  BY DelegatedBooks
<1>3. /\ DOMAIN twire' = AlertId /\ twire'[t] = None
      /\ \A u \in AlertId : twire'[u] \in {None, twire[u]}
  BY <1>1 DEF SystemTyped
<1>4. DelegationsStand'
  BY <1>1, <1>3 DEF Traced, DelegationsStand
<1>5. \A q \in TaskId : StateOf(q)' = "COMPLETED" => Len(writes'[q]) = 1
  BY <1>2, CompletedRan DEF Booked
<1>6. T!Remote \in TaskId \cup {None}
  BY AtWork, HandlerFields DEF T!Remote, Traced
<1>7. PICK remote \in TaskId \cup {None} :
         remote = IF T!In("peer") /\ handling.task = t THEN p ELSE T!Remote
  BY <1>6
<1>8. T!PeerAnswers(remote)
  BY <1>1, <1>7
<1>9. T!In("peer") => handling.task \in AlertId
  BY AtWork, HandlerFields DEF Traced
<1>10. T!In("peer") =>
          /\ remote = handling.remote \/ handling.remote = None
          /\ remote # None =>
                /\ twire'[handling.task] = None
                /\ \A u : u = handling.task => LedTo(u, remote)'
  <2>1. CASE T!In("peer") /\ handling.task = t
    <3>1. remote = p /\ handling.remote = None
      BY <1>1, <1>7, <2>1 DEF Traced, RemotesStand
    <3> QED
      BY <1>2, <1>3, <2>1, <3>1
  <2>2. CASE T!In("peer") /\ handling.task # t
    <3>1. remote = handling.remote
      BY <1>7, <2>2 DEF T!Remote
    <3>2. remote # None => twire[handling.task] = None /\ LedTo(handling.task, remote)
      BY <2>2, <3>1 DEF Traced, RemotesStand
    <3> QED
      BY <1>2, <1>3, <1>9, <2>2, <3>1, <3>2
  <2> QED
    BY <2>1, <2>2
<1>11. HandlerStands' /\ RemotesStand' /\ CompletedMeansDone' /\ T!AnswerIsPrompt'
  BY <1>2, <1>5, <1>8, <1>10, AnswersAreTraced DEF Typed
<1>12. ttasks' = ttasks
  BY <1>8 DEF T!PeerAnswers
<1>13. SystemTyped'
  BY <1>1, <1>2, <1>3, <1>12 DEF SystemTyped
<1> QED
  BY <1>2, <1>4, <1>11, <1>13 DEF Traced, Booked

LEMMA RestartedIsTraced ==
    ASSUME Typed, CallsAccounted, SystemTyped, Traced, RemediationRestarts
    PROVE  SystemTyped' /\ Traced'
<1>1. /\ tasks' = [p \in TaskId |-> None]
      /\ UNCHANGED <<known, wire, writes, ttasks, handling, paused, tcrashes,
                     asked, delegated>>
      /\ twire' = [t \in AlertId |-> None]
  BY DEF RemediationRestarts, AgentRestarts, traced
<1>2. SystemTyped'
  BY <1>1 DEF SystemTyped
<1>3. TasksAreDelegated'
  BY <1>1 DEF Traced, TasksAreDelegated
<1>4. \A p \in known : tasks'[p] = None
  BY <1>1 DEF Typed, RemTypeOK
<1>5. PlansAreCaused'
  BY <1>1, <1>4 DEF Traced, PlansAreCaused, Caused
<1>6. CompletedIsApplied' /\ DelegationsStand'
  BY <1>1 DEF CompletedIsApplied, DelegationsStand
<1>7. EveryRunHasACause' /\ CompletedMeansDone' /\ HandlerStands'
  BY <1>1 DEF Traced, EveryRunHasACause, Caused, CompletedMeansDone, HandlerStands
<1>8. T!In("peer")' = T!In("peer") /\ \A t, p : LedTo(t, p)' = LedTo(t, p)
  BY <1>1 DEF T!In, LedTo
<1>9. T!In("peer") => handling.task \in AlertId
  BY AtWork, HandlerFields DEF Traced
<1>10. RemotesStand'
  BY <1>1, <1>8, <1>9 DEF Traced, RemotesStand
<1>11. \A p \in TaskId : StateOf(p)' = None
  BY <1>1 DEF StateOf
<1>12. "AUTH_REQUIRED" # None
  BY OpinionAssumption DEF Life!State, Life!Paused
<1>13. T!In("peer") /\ handling.remote # None => handling.remote \in TaskId
  BY AtWork, HandlerFields DEF Traced
<1>14. T!AnswerIsPrompt'
  BY <1>1, <1>8, <1>11, <1>12, <1>13 DEF T!AnswerIsPrompt
<1> QED
  BY <1>2, <1>3, <1>5, <1>6, <1>7, <1>10, <1>14 DEF Traced

LEMMA TracedStep ==
    ASSUME Typed, CallsAccounted, PlansKept, SystemTyped, Traced,
           [SystemNext]_systemVars
    PROVE  Typed' /\ CallsAccounted' /\ PlansKept' /\ SystemTyped' /\ Traced'
<1>1. Typed' /\ CallsAccounted' /\ PlansKept'
  BY AgentsStep, CallsAccountedStep, PlansKeptStep
<1>2. ASSUME NEW t \in AlertId, Alerted(t) \/ Dropped(t) PROVE SystemTyped' /\ Traced'
  BY <1>2, AlertedIsTraced, DroppedIsTraced
<1>3. ASSUME NEW t \in AlertId, NEW p \in TaskId, Delegated(t, p)
      PROVE  SystemTyped' /\ Traced'
  BY <1>1, <1>3, DelegatedIsTraced
<1>4. ASSUME NEW p \in TaskId, Decided(p) PROVE SystemTyped' /\ Traced'
  <2>1. p \in known /\ (Resume(p) \/ Cancel(p))
        /\ Remediates(p \in known /\ (Resume(p) \/ Cancel(p)))
    BY <1>4 DEF Decided, Remediates
  <2>2. KeepsPlan(p) /\ UNCHANGED <<known, writes, crashes>>
    BY <2>1, DecidedStep
  <2>3. \A q \in TaskId : wire'[q] \in {None, wire[q]}
                          \/ (q \in known /\ OfPlan(q, wire'[q]))
    BY <2>1, DecidedStep DEF Typed, RemTypeOK
  <2>4. (tasks' = tasks \/ \E q \in known : KeepsPlan(q))
        /\ \A q \in TaskId : writes'[q] = writes[q]
    BY <2>1, <2>2
  <2> QED
    BY <1>1, <2>1, <2>2, <2>3, <2>4, RemediatesIsTraced
<1>5. CASE RemediationWorks
  <2>1. Remediates(ToolServer \/ Returns) /\ (ToolServer \/ Returns)
    BY <1>5 DEF RemediationWorks, Remediates
  <2>2. CASE Returns
    <3>1. /\ \E q \in known : KeepsPlan(q)
          /\ UNCHANGED <<known, wire, writes, crashes>>
      BY <2>2, ReturnsStep
    <3> QED
      BY <1>1, <2>1, <3>1, RemediatesIsTraced
  <2>3. CASE ToolServer
    BY <1>1, <2>1, <2>3, ToolServerStep, RemediatesIsTraced
  <2> QED
    BY <2>1, <2>2, <2>3
<1>6. CASE TriageHandles \/ Delegates \/ TriageRestarts \/ RemediationRestarts
  BY <1>1, <1>6, HandlesIsTraced, DelegatesIsTraced, TriageRestartsIsTraced,
     RestartedIsTraced
<1>7. CASE UNCHANGED systemVars
  <2>1. /\ UNCHANGED <<allVars, delegated, asked, ttasks, handling, twire, paused, tcrashes>>
    BY <1>7 DEF systemVars, triageVars, traced
  <2>2. /\ \A p \in TaskId : StateOf(p)' = StateOf(p)
        /\ \A u, p : LedTo(u, p)' = LedTo(u, p)
        /\ writes' = writes
    BY <2>1, TriageSeesNothing
  <2>3. Booked' /\ SystemTyped'
    BY <2>1, TriageKeepsBooks DEF Booked, Traced, SystemTyped
  <2>4. HandlerStands' /\ DelegationsStand'
    BY <2>1 DEF Traced, HandlerStands, DelegationsStand
  <2>5. RemotesStand' /\ CompletedMeansDone' /\ T!AnswerIsPrompt'
    BY <2>1, <2>2 DEF Traced, RemotesStand, CompletedMeansDone, T!AnswerIsPrompt, T!In
  <2> QED
    BY <1>1, <2>3, <2>4, <2>5 DEF Traced, Booked
<1> QED
  BY <1>1, <1>2, <1>3, <1>4, <1>5, <1>6, <1>7 DEF SystemNext

----------------------------------------------------------------------------
\* The theorems.

LEMMA TracedInit == SystemInit => Typed /\ CallsAccounted /\ PlansKept
                                        /\ SystemTyped /\ Traced
<1> SUFFICES ASSUME SystemInit
             PROVE  Typed /\ CallsAccounted /\ PlansKept /\ SystemTyped /\ Traced
  OBVIOUS
<1>1. Typed /\ CallsAccounted
  BY RemTypeInit, CallsAccountedInit DEF SystemInit
<1>2. PlansKept
  BY DEF SystemInit, RemInit, PlansKept, CallsArePlanned, OkMeansRun, UnappliedIsUnused
<1>3. SystemTyped
  BY DEF SystemInit, SystemTyped, T!Init
<1>4. handling = T!Free /\ ~T!In("peer")
  BY DEF SystemInit, T!Init, T!In, T!Free
<1>5. HandlerStands /\ DelegationsStand /\ RemotesStand /\ CompletedMeansDone
  BY <1>4 DEF SystemInit, T!Init, HandlerStands, DelegationsStand, RemotesStand,
     CompletedMeansDone
<1>6. TasksAreDelegated /\ PlansAreCaused /\ CompletedIsApplied /\ EveryRunHasACause
  BY DEF SystemInit, RemInit, TasksAreDelegated, PlansAreCaused, CompletedIsApplied,
     EveryRunHasACause
<1>7. \A p \in TaskId : StateOf(p) = None
  BY DEF SystemInit, RemInit, StateOf
<1>8. "AUTH_REQUIRED" # None
  BY OpinionAssumption DEF Life!State, Life!Paused
<1>9. T!AnswerIsPrompt
  BY <1>4, <1>7, <1>8 DEF T!AnswerIsPrompt
<1> QED
  BY <1>1, <1>2, <1>3, <1>5, <1>6, <1>9 DEF Traced

LEMMA SystemInvariant ==
    System => [](Typed /\ CallsAccounted /\ PlansKept /\ SystemTyped /\ Traced)
<1>1. SystemInit => Typed /\ CallsAccounted /\ PlansKept /\ SystemTyped /\ Traced
  BY TracedInit
<1>2. Typed /\ CallsAccounted /\ PlansKept /\ SystemTyped /\ Traced
        /\ [SystemNext]_systemVars
          => (Typed /\ CallsAccounted /\ PlansKept /\ SystemTyped /\ Traced)'
  BY TracedStep
<1> QED
  BY <1>1, <1>2, PTL DEF System

\* The remediation agent in the system is the one of Remediation: every
\* delegation triage makes of an alert is a diagnosis that module allows for,
\* so whatever is proved of the agent holds while triage calls it.
THEOREM SystemRunsTheAgent == System => RemSpec
<1>1. SystemInit => RemInit
  BY DEF SystemInit
<1>2. Typed /\ CallsAccounted /\ PlansKept /\ SystemTyped /\ Traced
        /\ [SystemNext]_systemVars => [RemNext]_allVars
  BY AgentsStep
<1> QED
  BY <1>1, <1>2, SystemInvariant, PTL DEF System, RemSpec

\* Whatever runs was caused by an alert: it is the tool for what triage found
\* wrong, by its rules where they settle it, with the parameters computed from
\* the alert's own service and readings, on the account of its incident -
\* whatever is lost, sent again, approved or restarted on the way.
THEOREM RunsAreCaused == System => []EveryRunHasACause
BY SystemInvariant, PTL DEF Traced

\* A triage task that says its remediation is COMPLETED is right: its own
\* delegation led to one run.
THEOREM CompletedIsDone == System => []CompletedMeansDone
BY SystemInvariant, PTL DEF Traced

\* Through the whole system a remediation task leads to one handler run at most.
THEOREM SystemWritesOnce == System => []OneWritePerTask
BY SystemRunsTheAgent, TaskWritesOnce, PTL

\* And what runs under an approval is what the person who gave it was shown.
THEOREM SystemRunsAsDisplayed == System => []RunsAsDisplayed
BY SystemRunsTheAgent, ApprovedAsDisplayed, PTL

\* Both agents and every caller together keep the promise of the tool server:
\* what runs, runs with consent or within what needs none.
THEOREM SystemKeepsConsent == System => ConsentKept
BY SystemRunsTheAgent, AgentKeepsService, ServiceKeepsConsent, PTL

\* Nothing triage could see changes.
LEMMA TriageStutters ==
    ASSUME UNCHANGED <<ttasks, handling, tknown, twire, tasks, known, paused, peered,
                       tcrashes, crashes>>
    PROVE  UNCHANGED T!vars
BY DEF T!vars, StateOf

\* Triage does not see what the tool server does.
LEMMA ToolServerIsHidden ==
    ASSUME HandlerStands, T!AnswerIsPrompt, T!PeerAnswers(T!Remote),
           UNCHANGED <<twire, tcrashes, tasks, known, crashes>>
    PROVE  UNCHANGED T!vars
<1>1. \A p \in TaskId : StateOf(p)' = StateOf(p)
  BY DEF StateOf
<1>2. UNCHANGED <<ttasks, tknown, peered>>
      /\ paused' = paused \cup {p \in TaskId : StateOf(p)' = "AUTH_REQUIRED"}
  BY DEF T!PeerAnswers
<1>3. paused' = paused
  BY <1>1, <1>2 DEF T!AnswerIsPrompt
<1>4. handling' = handling
  <2>1. CASE ~T!In("peer")
    BY <2>1 DEF T!PeerAnswers
  <2>2. CASE T!In("peer")
    <3>1. handling \in T!Frame(handling.signals) /\ handling.remote \in TaskId \cup {None}
          /\ T!Remote = handling.remote
      BY <2>2, AtWork, HandlerFields DEF T!Remote
    <3>2. ~ /\ handling.answer = None /\ handling.remote # None
            /\ StateOf(handling.remote) \notin {None, "WORKING"}
      BY <2>2, <3>1 DEF T!AnswerIsPrompt
    <3>3. handling' = [handling EXCEPT !.remote = handling.remote]
      BY <1>1, <2>2, <3>1, <3>2 DEF T!PeerAnswers
    <3> QED
      BY <3>1, <3>3 DEF T!Frame
  <2> QED
    BY <2>1, <2>2
<1> QED
  BY <1>2, <1>3, <1>4, TriageStutters

\* Its peer is one of those Triage is specified for.
LEMMA PeerIsTheAgent ==
    /\ \A p, state : T!Peer!Message(p, state) <=> Life!Message(p, state)
    /\ \A p, state : T!Peer!Return(p, state) <=> Life!Return(p, state)
BY DEF T!Peer!Message, Life!Message, T!Peer!Return, Life!Return, T!Peer!Idle, Life!Idle,
   T!Peer!Becomes, Life!Becomes, T!Peer!Paused, Life!Paused

LEMMA TriagesStep ==
    ASSUME Typed, CallsAccounted, SystemTyped, Traced, [SystemNext]_systemVars
    PROVE  T!Next \/ UNCHANGED T!vars
<1>1. ASSUME NEW t \in AlertId, Alerted(t) \/ Dropped(t) PROVE T!Next
  BY <1>1 DEF Alerted, Dropped, Triages, T!Next, T!Peers
<1>2. ASSUME TriageHandles \/ Delegates PROVE T!Next
  BY <1>2 DEF TriageHandles, Delegates, Triages, T!Next, T!Handler
<1>3. ASSUME TriageRestarts PROVE T!Next
  BY <1>3 DEF TriageRestarts, T!Next
<1>4. ASSUME NEW t \in AlertId, NEW p \in TaskId, Delegated(t, p) PROVE T!Next
  <2>1. \E state \in Life!State : Life!Message(p, state)
    BY <1>4, DelegatedReads, HandleStep
  <2>2. UNCHANGED <<tcrashes, crashes>>
    BY <1>4, DelegatedBooks DEF Delegated
  <2>3. T!PeerReads(t, p)
    BY <1>4, <2>1, <2>2, PeerIsTheAgent DEF Delegated, T!PeerReads
  <2> QED
    BY <2>3 DEF T!Next, T!Peers
<1>5. ASSUME NEW p \in TaskId, Decided(p) PROVE T!Next
  <2>1. p \in known /\ (Resume(p) \/ Cancel(p)) /\ T!PeerAnswers(T!Remote)
        /\ UNCHANGED <<twire, tcrashes>>
    BY <1>5 DEF Decided, Remediates
  <2>2. crashes' = crashes /\ \E state \in Life!State : Life!Message(p, state)
    BY <2>1, DecidedStep
  <2>3. T!PeerWorks
    BY <2>1, <2>2, PeerIsTheAgent DEF T!PeerWorks
  <2> QED
    BY <2>3 DEF T!Next, T!Peers
<1>6. ASSUME RemediationWorks PROVE T!Next \/ UNCHANGED T!vars
  <2>1. (ToolServer \/ Returns) /\ T!PeerAnswers(T!Remote) /\ UNCHANGED <<twire, tcrashes>>
    BY <1>6 DEF RemediationWorks, Remediates
  <2>2. CASE Returns
    <3>1. crashes' = crashes
          /\ \E p \in known, state \in Life!State : Life!Return(p, state)
      BY <2>2, ReturnsStep
    <3>2. T!PeerWorks
      BY <2>1, <3>1, PeerIsTheAgent DEF T!PeerWorks
    <3> QED
      BY <3>2 DEF T!Next, T!Peers
  <2>3. CASE ToolServer
    BY <2>1, <2>3, ToolServerStep, ToolServerIsHidden DEF Traced
  <2> QED
    BY <2>1, <2>2, <2>3
<1>7. ASSUME RemediationRestarts PROVE T!Next
  <2>1. /\ tcrashes + crashes < MaxCrashes
        /\ tasks' = [t \in TaskId |-> None] /\ crashes' = crashes + 1
        /\ twire' = [t \in AlertId |-> None]
        /\ UNCHANGED <<ttasks, handling, tknown, known, paused, peered, tcrashes>>
    BY <1>7 DEF RemediationRestarts, AgentRestarts
  <2>2. T!Peer!Forget
    BY <2>1 DEF T!Peer!Forget, StateOf
  <2>3. tcrashes' + crashes' = (tcrashes + crashes) + 1
    BY <2>1 DEF SystemTyped, Typed, RemTypeOK
  <2>4. T!PeerRestarts
    BY <2>1, <2>2, <2>3 DEF T!PeerRestarts
  <2> QED
    BY <2>4 DEF T!Next, T!Peers
<1>8. ASSUME UNCHANGED systemVars PROVE UNCHANGED T!vars
  <2>1. UNCHANGED <<ttasks, handling, tknown, twire, tasks, known, paused, peered,
                    tcrashes, crashes>>
    BY <1>8 DEF systemVars, triageVars, allVars, agent
  <2> QED
    BY <2>1, TriageStutters
<1> QED
  BY <1>1, <1>2, <1>3, <1>4, <1>5, <1>6, <1>7, <1>8 DEF SystemNext

\* Triage in the system is the one of Triage: the remediation agent, behind
\* which the tool server is, does nothing the abstract peer does not, so
\* whatever is proved of triage over any peer holds over this one.
THEOREM SystemRunsTriage == System => TriageAsSpecified
<1>1. SystemInit => T!Init
  BY DEF SystemInit
<1>2. Typed /\ CallsAccounted /\ PlansKept /\ SystemTyped /\ Traced
        /\ [SystemNext]_systemVars => [T!Next]_(T!vars)
  BY TriagesStep
<1> QED
  BY <1>1, <1>2, SystemInvariant, PTL DEF System, TriageAsSpecified, T!Spec

----------------------------------------------------------------------------
\* What an incident was moved by, without a person.

\* One more run weighs what its tool weighs.
LEMMA OneMoreRun ==
    ASSUME NEW ps, IsFiniteSet(ps), NEW t, t \notin ps,
           NEW w, NEW v, \A p \in ps : w[p] \in Nat /\ v[p] = w[p], v[t] \in Nat
    PROVE  SumFunctionOnSet(v, ps \cup {t}) = v[t] + SumFunctionOnSet(w, ps)
<1>1. IsFiniteSet(ps \cup {t}) /\ (ps \cup {t}) \ {t} = ps
  BY FS_AddElement
<1>2. \A p \in ps \cup {t} : v[p] \in Nat
  OBVIOUS
<1>3. SumFunctionOnSet(v, ps \cup {t}) = v[t] + SumFunctionOnSet(v, ps)
  BY <1>1, <1>2, SumSplit
<1>4. SumFunctionOnSet(v, ps) = SumFunctionOnSet(w, ps)
  BY SumSame
<1> QED
  BY <1>3, <1>4

\* Runs there have been are those of tools, which weigh something.
LEMMA RunsWeigh ==
    ASSUME RemTypeOK, FewRuns, NEW ps \in SUBSET {p \in TaskId : writes[p] # <<>>}
    PROVE  /\ IsFiniteSet(ps)
           /\ \A p \in ps : Weight(writes[p][1].tool) \in Nat
           /\ WeightMoved(ps) \in Nat
           /\ WeightMoved(ps) =
                SumFunctionOnSet([p \in ps |-> Weight(writes[p][1].tool)], ps)
<1> DEFINE w == [p \in ps |-> Weight(writes[p][1].tool)]
<1>1. IsFiniteSet(ps)
  BY FS_Subset DEF FewRuns
<1>2. ASSUME NEW p \in ps PROVE Weight(writes[p][1].tool) \in Nat
  <2>1. writes[p] \in Seq([tool: Tool, arguments: Arguments]) /\ writes[p] # <<>>
    BY DEF RemTypeOK
  <2>2. \A S : \A run \in Seq(S) : run # <<>> => run[1] \in S
    OBVIOUS
  <2>3. writes[p][1] \in [tool: Tool, arguments: Arguments]
    BY <2>1, <2>2
  <2> QED
    BY <2>3, WeightPositive
<1>3. DOMAIN w = ps /\ \A p \in ps : w[p] \in Nat
  BY <1>2
<1>4. WeightMoved(ps) = SumFunctionOnSet(w, ps)
  BY <1>3 DEF WeightMoved, SumFunction
<1>5. WeightMoved(ps) \in Nat
  <2> HIDE DEF w
  <2> QED
    BY <1>1, <1>3, <1>4, SumType
<1> QED
  BY <1>1, <1>2, <1>4, <1>5

RunsCharged == FewRuns /\ AloneIsCharged

\* A step that runs nothing.
LEMMA NothingRuns ==
    ASSUME RemTypeOK, TypeOK, RunsCharged, writes' = writes, alone' = alone
    PROVE  RunsCharged'
<1>1. FewRuns'
  BY DEF RunsCharged, FewRuns
<1>2. \A e \in Episode : RunsAlone(e)' = RunsAlone(e)
  BY DEF RunsAlone, Alone
<1>3. \A ps : WeightMoved(ps)' = WeightMoved(ps)
  BY DEF WeightMoved
<1> QED
  BY <1>1, <1>2, <1>3 DEF RunsCharged, AloneIsCharged

\* A run that starts is charged what it weighs, unless a person let it through.
LEMMA ServedIsCharged ==
    ASSUME Typed, RunsCharged, NEW t \in TaskId, Serve(t), inflight' # None,
           writes[t] = <<>>
    PROVE  RunsCharged'
<1> DEFINE q == wire[t]
           start == [tool |-> q.tool, arguments |-> q.arguments]
<1>1. RemTypeOK /\ TypeOK
  BY DEF Typed
<1>2. q \in AgentCalls /\ Call(q)
  BY <1>1 DEF Serve, RemTypeOK
<1>3. q.tool \in Tool /\ ~Risk[q.tool].read_only /\ q.arguments \in Arguments
      /\ Weight(q.tool) \in Nat
  BY <1>2, AgentAssumption, WeightPositive DEF AgentCalls
<1>4. writes' = [writes EXCEPT ![t] = <<start>>] /\ writes'[t] # <<>>
      /\ writes'[t][1] = start
  <2>1. writes' = [writes EXCEPT ![t] = Append(@, start)]
    BY DEF Serve
  <2>2. Append(writes[t], start) = <<start>>
    OBVIOUS
  <2> QED
    BY <1>1, <2>1, <2>2 DEF RemTypeOK
<1>5. \A p \in TaskId : p # t => writes'[p] = writes[p]
  BY <1>1, <1>4 DEF RemTypeOK
<1> DEFINE ran == {p \in TaskId : writes[p] # <<>>}
<1>6. IsFiniteSet(ran) /\ {p \in TaskId : writes'[p] # <<>>} = ran \cup {t}
  BY <1>4, <1>5 DEF RunsCharged, FewRuns
<1>7. FewRuns'
  <2>1. IsFiniteSet(ran \cup {t})
    BY <1>6, FS_AddElement
  <2> QED
    BY <1>6, <2>1 DEF FewRuns
<1>8. ASSUME NEW e \in Episode
      PROVE  /\ RunsAlone(e) \in SUBSET ran /\ t \notin RunsAlone(e)
             /\ RunsAlone(e)' =
                  IF start.arguments.approval_ref = None
                     /\ start.arguments.episode_id = e
                  THEN RunsAlone(e) \cup {t} ELSE RunsAlone(e)
  BY <1>4, <1>5 DEF RunsAlone, Alone
<1> HIDE DEF ran
<1>9. ASSUME NEW ps \in SUBSET ran, t \notin ps
      PROVE  /\ WeightMoved(ps)' = WeightMoved(ps) /\ WeightMoved(ps) \in Nat
             /\ WeightMoved(ps \cup {t})' = Weight(q.tool) + WeightMoved(ps)
  <2> DEFINE w == [p \in ps |-> Weight(writes[p][1].tool)]
             v == [p \in ps |-> Weight(writes'[p][1].tool)]
             u == [p \in ps \cup {t} |-> Weight(writes'[p][1].tool)]
  <2>1. /\ IsFiniteSet(ps) /\ WeightMoved(ps) \in Nat
        /\ \A p \in ps : Weight(writes[p][1].tool) \in Nat
        /\ WeightMoved(ps) = SumFunctionOnSet(w, ps)
    BY <1>1, RunsWeigh DEF RunsCharged, ran
  <2>2. \A p \in ps : writes'[p] = writes[p]
    BY <1>5 DEF ran
  <2>3. w = v
    BY <2>2
  <2>4. WeightMoved(ps)' = SumFunctionOnSet(v, ps)
    BY DEF WeightMoved, SumFunction
  <2>5. WeightMoved(ps \cup {t})' = SumFunctionOnSet(u, ps \cup {t})
    BY DEF WeightMoved, SumFunction
  <2>6. /\ \A p \in ps : w[p] \in Nat /\ u[p] = w[p]
        /\ u[t] = Weight(q.tool) /\ u[t] \in Nat
    BY <1>3, <1>4, <2>1, <2>2
  <2> HIDE DEF w, v, u
  <2>7. SumFunctionOnSet(u, ps \cup {t}) = u[t] + SumFunctionOnSet(w, ps)
    BY <1>9, <2>1, <2>6, OneMoreRun
  <2> QED
    BY <2>1, <2>3, <2>4, <2>5, <2>6, <2>7
<1>10. CASE Release(q)
  <2>1. q.arguments.approval_ref # None /\ alone' = alone
    BY <1>10 DEF Release, Presented, Held, Claimed
  <2>2. \A e \in Episode : RunsAlone(e)' = RunsAlone(e)
    BY <1>8, <2>1
  <2>3. \A e \in Episode : WeightMoved(RunsAlone(e))' = WeightMoved(RunsAlone(e))
    BY <1>8, <1>9, <2>2
  <2> QED
    BY <1>7, <2>1, <2>3 DEF RunsCharged, AloneIsCharged
<1>11. CASE Apply(q)
  <2> DEFINE e0 == q.arguments.episode_id
  <2>1. q.arguments.approval_ref = None /\ e0 \in Episode
    BY <1>3, <1>11 DEF Apply, Unclaimed, Attributed, Arguments
  <2>2. alone' = [alone EXCEPT ![e0] = @ + Weight(q.tool)]
    BY <1>11 DEF Apply
  <2>3. ASSUME NEW e \in Episode PROVE WeightMoved(RunsAlone(e))' <= alone'[e]
    <3>1. alone[e] \in Nat /\ WeightMoved(RunsAlone(e)) <= alone[e]
          /\ WeightMoved(RunsAlone(e)) \in Nat
      BY <1>1, <1>8, <1>9 DEF TypeOK, RunsCharged, AloneIsCharged
    <3>2. CASE e = e0
      <4>1. WeightMoved(RunsAlone(e))' = Weight(q.tool) + WeightMoved(RunsAlone(e))
        BY <1>8, <1>9, <2>1, <3>2
      <4>2. alone'[e] = alone[e] + Weight(q.tool)
        BY <1>1, <2>1, <2>2, <3>2 DEF TypeOK
      <4> QED
        BY <1>3, <3>1, <4>1, <4>2
    <3>3. CASE e # e0
      <4>1. WeightMoved(RunsAlone(e))' = WeightMoved(RunsAlone(e))
        BY <1>8, <1>9, <2>1, <3>3
      <4>2. alone'[e] = alone[e]
        BY <1>1, <2>1, <2>2, <3>3 DEF TypeOK
      <4> QED
        BY <3>1, <4>1, <4>2
    <3> QED
      BY <3>2, <3>3
  <2> QED
    BY <1>7, <2>3 DEF RunsCharged, AloneIsCharged
<1>12. Release(q) \/ Apply(q)
  BY <1>2, <1>3 DEF Call, Read, FailUnaudited, RejectRequest, UnknownTool, DeniedByTier,
     NoEpisode, UnknownRef, NoApprover, Mismatch, RequireHuman, Room, Free
<1> QED
  BY <1>10, <1>11, <1>12

LEMMA ChargedStep ==
    ASSUME Typed, OneWritePerTask, OneWritePerTask', RunsCharged, [RemNext]_allVars
    PROVE  RunsCharged'
<1>1. RemTypeOK /\ TypeOK
  BY DEF Typed
<1>2. ASSUME NEW t \in TaskId, Message(t) PROVE writes' = writes /\ alone' = alone
  BY <1>2 DEF Message, Handle, Resume, Healthy, Undiagnosed, NoCandidate, PlanFails, Remediate,
     NothingToApprove, Decline, Approve, Cancel, Settles, vars
<1>3. ASSUME NEW t \in TaskId, Serve(t) PROVE RunsCharged'
  <2>1. CASE inflight' # None
    <3>1. writes' = [writes EXCEPT ![t] = Append(@,
                [tool |-> wire[t].tool, arguments |-> wire[t].arguments])]
      BY <1>3, <2>1 DEF Serve
    <3>2. writes[t] \in Seq([tool: Tool, arguments: Arguments])
      BY <1>1 DEF RemTypeOK
    <3>3. Len(writes'[t]) = Len(writes[t]) + 1 /\ Len(writes[t]) \in Nat
      BY <1>1, <3>1, <3>2 DEF RemTypeOK
    <3>4. Len(writes'[t]) <= 1
      BY DEF OneWritePerTask
    <3>5. writes[t] = <<>>
      BY <3>2, <3>3, <3>4, EmptySeq
    <3> QED
      BY <1>3, <2>1, <3>5, ServedIsCharged
  <2>2. CASE inflight' = None
    <3>1. writes' = writes
      BY <1>3, <2>2 DEF Serve
    <3>2. alone' = alone
      <4>1. wire[t] \in Requests /\ Call(wire[t])
        BY <1>1, <1>3, AgentAssumption DEF Serve, RemTypeOK
      <4>2. ~Apply(wire[t])
        BY <1>1, <2>2, <4>1, ApplyType, ExecutionAssumption
      <4> QED
        BY <4>1, <4>2 DEF Call, FailUnaudited, RejectRequest, UnknownTool, DeniedByTier,
           Read, NoEpisode, UnknownRef, NoApprover, Mismatch, Release, RequireHuman, history
    <3> QED
      BY <1>1, <3>1, <3>2, NothingRuns
  <2> QED
    BY <2>1, <2>2
<1>4. ASSUME NEW t \in TaskId, Drop(t) PROVE writes' = writes /\ alone' = alone
  BY <1>4 DEF Drop, vars
<1>5. CASE HandlerEnds \/ Finish \/ ToolServerRestarts
  BY <1>1, <1>5, NothingRuns
  DEF HandlerEnds, Handler, Finish, RecordOutcome, ToolServerRestarts, Restart, agent, history
<1>6. CASE Returns \/ AgentRestarts
  BY <1>1, <1>6, NothingRuns DEF Returns, Pause, Complete, Fail, GiveUp, AgentRestarts, vars
<1>7. CASE UNCHANGED allVars
  BY <1>1, <1>7, NothingRuns DEF allVars, vars, agent
<1> QED
  BY <1>1, <1>2, <1>3, <1>4, <1>5, <1>6, <1>7, NothingRuns DEF RemNext, ToolServer

LEMMA RunsAreCharged == RemSpec => []RunsCharged
<1>1. RemInit => RunsCharged
  <2> SUFFICES ASSUME RemInit PROVE RunsCharged
    OBVIOUS
  <2>1. \A p \in TaskId : writes[p] = <<>>
    BY DEF RemInit
  <2>2. {p \in TaskId : writes[p] # <<>>} = {} /\ \A e : RunsAlone(e) = {}
    BY <2>1 DEF RunsAlone, Alone
  <2>3. FewRuns
    BY <2>2, FS_EmptySet DEF FewRuns
  <2>4. \A f : SumFunctionOnSet(f, {}) = 0
    BY FS_EmptySet, SumStep
  <2>5. WeightMoved({}) = 0
    BY <2>4 DEF WeightMoved, SumFunction
  <2>6. \A e \in Episode : alone[e] = 0
    BY DEF RemInit, Init
  <2>7. \A e \in Episode : WeightMoved(RunsAlone(e)) = 0
    BY <2>2, <2>5
  <2> QED
    BY <2>3, <2>6, <2>7 DEF RunsCharged, AloneIsCharged
<1>2. Typed /\ OneWritePerTask /\ OneWritePerTask' /\ RunsCharged /\ [RemNext]_allVars
        => RunsCharged'
  BY ChargedStep
<1> QED
  BY <1>1, <1>2, RemediationInvariant, TaskWritesOnce, PTL DEF RemSpec

\* An incident the alerts name is moved without a person by no more than one
\* ceiling per start of the tool server, for every number of alerts, of tasks
\* of either agent, of lost calls and of restarts: what runs is on the account
\* of the incident its alert names, and was charged to it.
THEOREM IncidentCeilingHolds == System => []IncidentBounded
<1>1. RunsCharged /\ RemTypeOK /\ EveryRunHasACause /\ AutonomyBounded /\ TypeOK
        => IncidentBounded
  <2> SUFFICES ASSUME RunsCharged, RemTypeOK, EveryRunHasACause, AutonomyBounded, TypeOK,
                      NEW e \in Episode
               PROVE  WeightMoved(MovedAlone(e)) <= EpisodeCeiling * (restarts + 1)
    BY DEF IncidentBounded
  <2>1. e # None
    BY AbsenceAssumption
  <2>2. MovedAlone(e) \in SUBSET RunsAlone(e)
    BY <2>1 DEF MovedAlone, RunsAlone, Alone, EveryRunHasACause, Caused, T!EpisodeOf
  <2>3. RunsAlone(e) \in SUBSET {p \in TaskId : writes[p] # <<>>}
    BY DEF RunsAlone, Alone
  <2>4. MovedAlone(e) \in SUBSET {p \in TaskId : writes[p] # <<>>}
    BY <2>2, <2>3
  <2> DEFINE w == [p \in RunsAlone(e) |-> Weight(writes[p][1].tool)]
             v == [p \in MovedAlone(e) |-> Weight(writes[p][1].tool)]
  <2>5. /\ IsFiniteSet(RunsAlone(e)) /\ WeightMoved(RunsAlone(e)) \in Nat
        /\ \A p \in RunsAlone(e) : w[p] \in Nat
        /\ WeightMoved(RunsAlone(e)) = SumFunctionOnSet(w, RunsAlone(e))
    BY <2>3, RunsWeigh DEF RunsCharged
  <2>6. /\ IsFiniteSet(MovedAlone(e)) /\ WeightMoved(MovedAlone(e)) \in Nat
        /\ WeightMoved(MovedAlone(e)) = SumFunctionOnSet(v, MovedAlone(e))
    BY <2>4, RunsWeigh DEF RunsCharged
  <2>7. \A p \in MovedAlone(e) : v[p] = w[p]
    BY <2>2
  <2> HIDE DEF w, v
  <2>8. SumFunctionOnSet(v, MovedAlone(e)) = SumFunctionOnSet(w, MovedAlone(e))
    BY <2>6, <2>7, SumSame
  <2>9. SumFunctionOnSet(w, MovedAlone(e)) <= SumFunctionOnSet(w, RunsAlone(e))
    BY <2>2, <2>5, SumOfPart
  <2>10. WeightMoved(RunsAlone(e)) <= alone[e] /\ alone[e] \in Nat
         /\ alone[e] <= EpisodeCeiling * (restarts + 1)
    BY DEF RunsCharged, AloneIsCharged, AutonomyBounded, TypeOK
  <2>11. EpisodeCeiling * (restarts + 1) \in Nat
    BY CeilingAssumption DEF TypeOK
  <2> QED
    BY <2>5, <2>6, <2>8, <2>9, <2>10, <2>11
<1> QED
  BY <1>1, SystemRunsTheAgent, RunsAreCharged, RemediationTypeCorrect, RunsAreCaused,
     AgentKeepsService, EpisodeCeilingHolds, TypeCorrect, PTL
=============================================================================
