------------------------------- MODULE Triage -------------------------------
(***************************************************************************)
(* The triage agent's process - a2a/server.py with the handler of          *)
(* agents/triage/agent.py - as it reads a service through the tool server, *)
(* asks the rules and the model what is wrong, and delegates to its peer   *)
(* over a2a/client.py.  The peer is any agent that implements TaskLife.    *)
(*                                                                         *)
(* The handler never awaits, so its event loop serves one message at a     *)
(* time; while it is blocked in a call the peer goes on serving others,    *)
(* either process may stop, and requests and answers are late or lost.     *)
(***************************************************************************)
EXTENDS TriageRules, Functions

CONSTANTS
    TaskId,       \* task ids triage can hand out
    PeerTaskId,   \* task ids its peer can hand out
    Alert,        \* what callers send: a service, the signals they have of it,
                  \* <<>> for none, and the incident it is, None for one not named
    Stats,        \* what `docker stats` says of the memory in use
    Inspection,   \* what `docker inspect` says
    Opinion,      \* failure modes the model answers with
    PeerState,    \* states the peer's tasks are in
    MaxCrashes    \* bound: restarts of either process

FailureMode == DOMAIN Holds(<<>>)

ASSUME CallerAssumption ==
    /\ Opinion \subseteq FailureMode
    /\ None \notin TaskId \cup PeerTaskId
    /\ MaxCrashes \in Nat

VARIABLES
    tasks,     \* TaskStore._tasks: the state, and the task of the peer the
               \* status message names
    handling,  \* the frame of the handler - the alert it was sent, what it knows
               \* so far - or Free when the event loop is
    known,     \* history: task ids ever handed out
    wire,      \* the delegations that were sent and not read yet, by task
    peer,      \* the state of the peer's tasks
    pknown,    \* history: task ids the peer ever handed out
    paused,    \* history: tasks of the peer that ever waited for a person
    peered,    \* whether a remediation peer is configured
    crashes    \* history: how often a process was started again

vars == <<tasks, handling, known, wire, peer, pknown, paused, peered, crashes>>
theirs == <<wire, peer, pknown, paused>>
steady == <<peered, crashes>>

Peer == INSTANCE TaskLife WITH TaskId <- PeerTaskId, life <- peer, known <- pknown

ASSUME PeerAssumption == PeerState \subseteq Peer!State

Terminal == Peer!Terminal

----------------------------------------------------------------------------
\* get_metrics: two docker commands, one after the other, and the container
\* free to change between them.
GetMetrics(stats, inspection) ==
    [memory_percent |-> stats, restart_count |-> inspection.restart_count,
     oom_killed |-> inspection.oom_killed,
     memory_limit_bytes |-> inspection.memory_limit_bytes]

\* What get_logs returns of interest here: text somebody else wrote.
GetLogs == [logs |-> "text"]

\* signals |= outcome.result
With(signals, result) ==
    [field \in DOMAIN signals \cup DOMAIN result |->
        IF field \in DOMAIN result THEN result[field] ELSE signals[field]]

ForwardedSignals ==
    {"memory_limit_bytes", "memory_percent", "cpu_percent", "disk_percent",
     "restart_count", "p99_latency_ms", "exit_code", "oom_killed",
     "config_changed_recently"}

\* _forwarded_signals: the projection that crosses to the peer.
Forwarded(signals) == Restrict(signals, ForwardedSignals \cap DOMAIN signals)

\* Mutant of Surfaced: an answer is an answer.
SurfacedDone(remote_state) ==
    IF remote_state = "FAILED" THEN "FAILED" ELSE "COMPLETED"

\* The state a task takes on from the state of the peer's.
Surfaced(remote_state) ==
    IF remote_state \in {"AUTH_REQUIRED", "COMPLETED"} THEN remote_state ELSE "FAILED"

----------------------------------------------------------------------------
\* No handler is at work.
Free == [phase |-> "none"]

Init ==
    /\ tasks = [t \in TaskId |-> None]
    /\ handling = Free
    /\ known = {}
    /\ wire = [t \in TaskId |-> None]
    /\ peer = [p \in PeerTaskId |-> None]
    /\ pknown = {}
    /\ paused = {}
    /\ peered \in BOOLEAN
    /\ crashes = 0

NewTask == [state |-> "WORKING", remote |-> None]

\* Mutant of Continues: a task that is over goes on.
ContinuesAny(t) == t \in known /\ tasks[t] # None

\* _handle_send and tasks/cancel find a task that is not over.
Continues(t) ==
    /\ t \in known
    /\ tasks[t] # None
    /\ tasks[t].state \notin Terminal

Addressed(t) == handling = Free /\ (Continues(t) \/ t \notin known)

\* A new status: it names no task of the peer.
Restates(t, state) ==
    /\ tasks' = [tasks EXCEPT ![t] = [state |-> state, remote |-> None]]
    /\ known' = known \cup {t}

\* The handler returns with its task in this state.
Closes(t, state) ==
    /\ tasks' = [tasks EXCEPT ![t].state = state]
    /\ handling' = Free
    /\ UNCHANGED <<known, theirs, steady>>

\* A message that names no service, a person's decision among them, or one
\* that carries no data, at which the handler raises.
Reject(t) ==
    /\ Addressed(t)
    /\ Restates(t, "REJECTED") \/ Restates(t, "FAILED")
    /\ UNCHANGED <<handling, theirs, steady>>

\* A message about a service: signals the caller sends along are taken as
\* they are, and without any the agent gathers its own.
Receive(t, alert) ==
    /\ Addressed(t)
    /\ Restates(t, "WORKING")
    /\ handling' = [task |-> t, alert |-> alert, signals |-> alert.signals,
                    phase |-> IF alert.signals = <<>> THEN "metrics" ELSE "diagnosis",
                    gathered |-> alert.signals = <<>>,
                    diagnosis |-> None, remote |-> None, answer |-> None]
    /\ UNCHANGED <<theirs, steady>>

Cancel(t) ==
    /\ handling = Free
    /\ Continues(t)
    /\ Restates(t, "CANCELED")
    /\ UNCHANGED <<handling, theirs, steady>>

----------------------------------------------------------------------------
In(phase) == handling.phase = phase

\* One step on in the handler, with these signals in hand.
Proceeds(phase, signals) ==
    /\ handling' = [handling EXCEPT !.phase = phase, !.signals = signals]
    /\ UNCHANGED <<tasks, known, theirs, steady>>

\* _gather: a tool that answers adds its fields, one that fails adds none.
ReadMetrics ==
    /\ In("metrics")
    /\ \/ \E stats \in Stats, inspection \in Inspection :
             Proceeds("logs", With(handling.signals, GetMetrics(stats, inspection)))
       \/ Proceeds("logs", handling.signals)

ReadLogs ==
    /\ In("logs")
    /\ \/ Proceeds("diagnosis", With(handling.signals, GetLogs))
       \/ Proceeds("diagnosis", handling.signals)

\* Mutant of Concludes: the two fields change places.
ConcludesSwapped(failure_mode, source) ==
    /\ handling' = [handling EXCEPT !.phase = "act",
            !.diagnosis = [failure_mode |-> source, source |-> failure_mode]]
    /\ UNCHANGED <<tasks, known, theirs, steady>>

\* There is a diagnosis, and whose it is.
Concludes(failure_mode, source) ==
    /\ handling' = [handling EXCEPT !.phase = "act",
            !.diagnosis = [failure_mode |-> failure_mode, source |-> source]]
    /\ UNCHANGED <<tasks, known, theirs, steady>>

\* _diagnose: the rules decide, or the model does; a model that fails or
\* answers outside the schema leaves it unknown.
Diagnose ==
    LET ruled == Classify(handling.signals)
    IN  /\ In("diagnosis")
        /\ \/ ~IsAmbiguous(ruled) /\ Concludes(ruled, "rule")
           \/ /\ IsAmbiguous(ruled)
              /\ \E opinion \in Opinion \cup {"unknown"} : Concludes(opinion, "model")

Found == handling.diagnosis.failure_mode

\* There is a diagnosis to act on.
Actionable == In("act") /\ Found \notin {"healthy", "unknown", "blind"}

\* What follows from the diagnosis without anybody else.
Conclude ==
    \/ In("act") /\ Found = "healthy" /\ Closes(handling.task, "COMPLETED")
    \/ /\ In("act") /\ Found \in {"unknown", "blind"}
       /\ Closes(handling.task, "INPUT_REQUIRED")
    \/ Actionable /\ ~peered /\ Closes(handling.task, "COMPLETED")

\* Mutant of EpisodeOf: every task is an incident of its own.
EpisodeOfTask(t, alert) == t

\* payload.get("episode_id") or task.id
EpisodeOf(t, alert) == IF alert.episode_id = None THEN t ELSE alert.episode_id

\* send_data: a message of its own to the peer, never about an earlier task.
\* Neither the alert nor the signals are looked at again.
Delegate ==
    /\ Actionable
    /\ peered
    /\ handling' = [handling EXCEPT !.phase = "peer", !.signals = <<>>, !.alert = None]
    /\ wire' = [wire EXCEPT ![handling.task] =
            [failure_mode |-> Found, service |-> handling.alert.service,
             signals |-> Forwarded(handling.signals),
             episode_id |-> EpisodeOf(handling.task, handling.alert)]]
    /\ UNCHANGED <<tasks, known, peer, pknown, paused, steady>>

\* The peer's answer came: its task is noted and its state passed on.
Surface ==
    /\ In("peer")
    /\ handling.answer # None
    /\ tasks' = [tasks EXCEPT ![handling.task] =
            [state |-> Surfaced(handling.answer), remote |-> handling.remote]]
    /\ handling' = Free
    /\ UNCHANGED <<known, theirs, steady>>

\* Mutants of GiveUp: the exception is not caught; the task may be tried again.
GiveUpUncaught ==
    /\ handling # Free
    /\ handling.phase \in {"metrics", "logs", "peer"}
    /\ handling' = Free
    /\ UNCHANGED <<tasks, known, theirs, steady>>
GiveUpPaused ==
    /\ handling # Free
    /\ handling.phase \in {"metrics", "logs", "peer"}
    /\ Closes(handling.task, "INPUT_REQUIRED")

\* A call raises - no connection, an error of the peer, a timeout - and
\* _handle_send catches it.  The request goes its own way.
GiveUp ==
    /\ handling # Free
    /\ handling.phase \in {"metrics", "logs", "peer"}
    /\ Closes(handling.task, "FAILED")

AgentRestarts ==
    /\ crashes < MaxCrashes
    /\ tasks' = [t \in TaskId |-> None]
    /\ handling' = Free
    /\ crashes' = crashes + 1
    /\ UNCHANGED <<known, theirs, peered>>

----------------------------------------------------------------------------
\* The peer answers triage once the task it made for it is not WORKING; what
\* happens to that task later, triage is not told.
PeerAnswers(remote) ==
    /\ paused' = paused \cup {p \in PeerTaskId : peer'[p] = "AUTH_REQUIRED"}
    /\ IF /\ In("peer") /\ handling.answer = None
          /\ remote # None /\ peer'[remote] \notin {None, "WORKING"}
       THEN handling' = [handling EXCEPT !.remote = remote, !.answer = peer'[remote]]
       ELSE IF In("peer") THEN handling' = [handling EXCEPT !.remote = remote]
                          ELSE UNCHANGED handling
    /\ UNCHANGED <<tasks, known, peered>>

\* The task of the peer triage waits for.
Remote == IF In("peer") THEN handling.remote ELSE None

\* It reads a delegation, whose sender may have given up, and makes a task.
PeerReads(t, p) ==
    /\ wire[t] # None
    /\ p \notin pknown
    /\ \E state \in PeerState : Peer!Message(p, state)
    /\ wire' = [wire EXCEPT ![t] = None]
    /\ PeerAnswers(IF In("peer") /\ handling.task = t THEN p ELSE Remote)
    /\ UNCHANGED crashes

\* It serves a message about a task it has - a person's decision - or returns.
\* Tasks others start there only make it late.
PeerWorks ==
    /\ \E p \in pknown, state \in PeerState :
          Peer!Message(p, state) \/ Peer!Return(p, state)
    /\ PeerAnswers(Remote)
    /\ UNCHANGED <<wire, crashes>>

\* A request whose connection is gone may be dropped unread.
Drop(t) ==
    /\ wire[t] # None
    /\ wire' = [wire EXCEPT ![t] = None]
    /\ UNCHANGED <<tasks, handling, known, peer, pknown, paused, steady>>

PeerRestarts ==
    /\ crashes < MaxCrashes
    /\ Peer!Forget
    /\ wire' = [t \in TaskId |-> None]
    /\ crashes' = crashes + 1
    /\ UNCHANGED <<tasks, handling, known, paused, peered>>

----------------------------------------------------------------------------
Message(t) == Reject(t) \/ Cancel(t) \/ \E alert \in Alert : Receive(t, alert)

Handler ==
    \/ ReadMetrics \/ ReadLogs \/ Diagnose \/ Conclude \/ Delegate
    \/ Surface \/ GiveUp

Peers ==
    \/ \E t \in TaskId : Drop(t) \/ \E p \in PeerTaskId : PeerReads(t, p)
    \/ PeerWorks
    \/ PeerRestarts

Next ==
    \/ \E t \in TaskId : Message(t)
    \/ Handler
    \/ Peers
    \/ AgentRestarts

\* The handler runs on: its calls return or raise within 60 s to the tool
\* server and 600 s to the peer, and a model that does not answer raises.
Spec == Init /\ [][Next]_vars
FairSpec == Spec /\ WF_vars(Handler)

----------------------------------------------------------------------------
\* Types.

Diagnosis == [failure_mode: FailureMode, source: {"rule", "model"}]

Task == [state: Peer!State, remote: PeerTaskId \cup {None}]

\* The frame of a handler that has these signals, whatever their fields.
Frame(signals) ==
    [task: TaskId, alert: Alert \cup {None}, signals: {signals},
     phase: {"metrics", "logs", "diagnosis", "act", "peer"}, gathered: BOOLEAN,
     diagnosis: Diagnosis \cup {None}, remote: PeerTaskId \cup {None},
     answer: Peer!State \cup {None}]

\* None is none of the values it stands in for the absence of.
ASSUME AbsenceAssumption ==
    /\ None \notin Task /\ None \notin Peer!State /\ None \notin Alert
    /\ None \notin Diagnosis

TypeOK ==
    /\ tasks \in [TaskId -> Task \cup {None}]
    /\ handling # Free => handling \in Frame(handling.signals)
    /\ DOMAIN wire = TaskId
    /\ \A t \in TaskId : wire[t] # None =>
          /\ wire[t].failure_mode \in FailureMode
          /\ \E alert \in Alert : /\ wire[t].service = alert.service
                                 /\ wire[t].episode_id = EpisodeOf(t, alert)
    /\ known \subseteq TaskId
    /\ peer \in [PeerTaskId -> Peer!State \cup {None}]
    /\ paused \subseteq pknown /\ pknown \subseteq PeerTaskId
    /\ crashes \in 0..MaxCrashes

----------------------------------------------------------------------------
\* Safety.

\* The step closes a task the rules say is healthy.
ClosesHealthy ==
    /\ In("act")
    /\ handling.diagnosis = [failure_mode |-> "healthy", source |-> "rule"]
    /\ tasks'[handling.task] # None
    /\ tasks'[handling.task].state = "COMPLETED"

\* Nothing is delegated on evidence that is not there: what was gathered has
\* a reading of the metrics, what the model decided has every guaranteed
\* field, and an OOM kill is delegated as one whatever else was seen.
NothingDelegatedBlind ==
    Actionable =>
        /\ handling.gathered \/ handling.diagnosis.source = "model"
              => Observed(handling.signals)
        /\ Get(handling.signals, "oom_killed") = TRUE
              => Found = "memory_exhaustion"

\* A task is closed as healthy by the rules only if every guaranteed field
\* was read and nothing read was an OOM kill.
HealthyWasRead ==
    [][ClosesHealthy => /\ Observed(handling.signals)
                        /\ Get(handling.signals, "oom_killed") # TRUE]_vars

\* A task that shows a task of its peer says no more than that one did: it is
\* COMPLETED only if the remediation was, and waits for a person only if the
\* remediation did - at this moment, or until the peer went on or restarted.
PeerSurfaced ==
    \A t \in TaskId : tasks[t] # None =>
        (tasks[t].remote # None =>
            /\ tasks[t].state = "COMPLETED"
                  => peer[tasks[t].remote] \in {"COMPLETED", None}
            /\ tasks[t].state = "AUTH_REQUIRED" => tasks[t].remote \in paused)

\* A delegation can outlive the wait for it only on a task that failed, or
\* that a restart forgot: no task that is done, rejected, canceled or waiting
\* for a person can still set a remediation off.
LateOnlyWhenFailed ==
    \A t \in TaskId : wire[t] # None =>
        \/ In("peer") /\ handling.task = t
        \/ tasks[t] = None
        \/ tasks[t].state = "FAILED"

\* The agent is what its callers take it for: see TaskLife.
StateOf(t) == IF tasks[t] = None THEN None ELSE tasks[t].state

Life == INSTANCE TaskLife WITH life <- [t \in TaskId |-> StateOf(t)]

TriageLivesByTheBook == Life!Spec

\* A task never stays WORKING, whatever happens to the tools, the model and
\* the peer.
TriageEnds ==
    \A t \in TaskId :
        tasks[t] # None /\ tasks[t].state = "WORKING"
            ~> tasks[t] = None \/ tasks[t].state # "WORKING"

----------------------------------------------------------------------------
\* What makes the above inductive.

\* The handler works on a task of the store that is WORKING and names no task
\* of the peer, and no other task is.
HandledIsWorking ==
    /\ \A t \in TaskId : tasks[t] # None =>
          /\ t \in known
          /\ tasks[t].state = "WORKING" => handling # Free /\ handling.task = t
    /\ handling # Free => tasks[handling.task] = NewTask

\* An id that was not handed out has set nothing off; nor has the peer's.
UnknownIsFresh ==
    /\ \A t \in TaskId \ known : wire[t] = None
    /\ \A p \in PeerTaskId \ pknown : peer[p] = None

\* Until it has delegated, the handler has its alert and knows no task of the
\* peer.
NotYetDelegated ==
    handling # Free => (handling.phase # "peer" =>
        handling.alert \in Alert /\ handling.remote = None /\ handling.answer = None)

\* What was gathered is the metrics and perhaps the logs, or no metrics.
GatheredSignals ==
    handling # Free => (handling.gathered =>
        /\ handling.phase = "metrics" => handling.signals = <<>>
        /\ handling.phase \in {"logs", "diagnosis", "act"} =>
              Observed(handling.signals) \/ DOMAIN handling.signals \subseteq {"logs"})

\* A diagnosis is the rules', but where they leave it to the model.
DiagnosisIsRuled ==
    In("act") =>
        /\ handling.diagnosis # None
        /\ \/ /\ handling.diagnosis.source = "rule"
              /\ Found = Classify(handling.signals)
           \/ /\ handling.diagnosis.source = "model"
              /\ IsAmbiguous(Classify(handling.signals))

\* What triage knows of the peer's task is true of it: the delegation that
\* made it was read, and an answer is the state it had then.
AnswerIsPeers ==
    In("peer") =>
        /\ handling.remote # None =>
              handling.remote \in pknown /\ wire[handling.task] = None
        /\ handling.answer # None =>
              /\ handling.remote # None
              /\ handling.answer = "COMPLETED" =>
                    peer[handling.remote] \in {"COMPLETED", None}
              /\ handling.answer = "AUTH_REQUIRED" => handling.remote \in paused

\* The answer comes as soon as there is one; every pause was noted.
AnswerIsPrompt ==
    /\ In("peer") => (handling.answer = None /\ handling.remote # None =>
          peer[handling.remote] \in {None, "WORKING"})
    /\ \A p \in PeerTaskId : peer[p] = "AUTH_REQUIRED" => p \in paused

\* A task of the peer on show is one it handed out.
RemoteIsKnown ==
    \A t \in TaskId : tasks[t] # None =>
        (tasks[t].remote # None => tasks[t].remote \in pknown)

Diagnosed == NotYetDelegated /\ GatheredSignals /\ DiagnosisIsRuled

Handled == HandledIsWorking /\ UnknownIsFresh

Answered ==
    AnswerIsPeers /\ AnswerIsPrompt /\ RemoteIsKnown /\ PeerSurfaced /\ LateOnlyWhenFailed

----------------------------------------------------------------------------
\* What the documentation says and the code does not do.

\* tests/test_blind_sensor.py: "A blind agent must not report all-green."
HealthyWasMeasured ==
    [][ClosesHealthy =>
        Get(handling.signals, "memory_percent") \notin {None, Unreadable}]_vars
=============================================================================
