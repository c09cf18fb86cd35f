-------------------------- MODULE IncidentResponse --------------------------
(***************************************************************************)
(* The whole system: the triage agent of Triage, with the remediation      *)
(* agent of Remediation in place of the abstract peer, and the tool server *)
(* behind it.  Three processes, the calls between them, and the people who *)
(* send alerts and decide on what is refused.                              *)
(*                                                                         *)
(* Alerts carry their signals, as the evaluation's and the demo's do, so   *)
(* that triage makes no calls of its own to the tool server; how it reads  *)
(* a service without them is in Triage.                                    *)
(***************************************************************************)
EXTENDS Remediation, Functions

CONSTANTS
    Unreadable, Alert, Opinion,  \* of Triage
    AlertId                      \* task ids triage can hand out

VARIABLES
    ttasks, handling, tknown, twire, paused, peered,  \* of Triage
    tcrashes,    \* history: how often triage's process was started again
    asked,       \* history: the alert behind the delegation of a triage task
    delegated    \* history: the delegation a remediation task was made for

\* Triage, its peer's tasks being the remediation agent's.
T == INSTANCE Triage WITH
    TaskId <- AlertId, tasks <- ttasks, known <- tknown, wire <- twire,
    PeerTaskId <- TaskId, pknown <- known, PeerState <- Life!State,
    peer <- [p \in TaskId |-> StateOf(p)],
    Stats <- {}, Inspection <- {},
    crashes <- tcrashes + crashes

triageVars == <<ttasks, handling, tknown, twire, paused, peered, tcrashes>>
traced == <<asked, delegated>>
systemVars == <<allVars, triageVars, traced>>

\* int(signals.get("memory_limit_bytes") or 0): the one signal planning reads.
DiagnosisOf(d) ==
    [failure_mode |-> d.failure_mode, service |-> d.service,
     memory_limit_bytes |-> T!Number(T!Get(d.signals, "memory_limit_bytes")),
     episode_id |-> d.episode_id]

\* The delegation triage makes of an alert.
DelegationOf(t, alert, failure_mode) ==
    [failure_mode |-> failure_mode, service |-> alert.service,
     signals |-> T!Forwarded(alert.signals), episode_id |-> T!EpisodeOf(t, alert)]

\* Alerts are about services the system has, and what triage makes of them is
\* a message the remediation agent is modelled for.
ASSUME AlertAssumption ==
    /\ AlertId \subseteq Episode
    /\ \A alert \in Alert :
          /\ alert.signals # <<>>
          /\ alert.service \in Service
          /\ alert.episode_id \in Episode \cup {None}
    /\ \A alert \in Alert, t \in AlertId, mode \in DOMAIN CandidateTool :
          DiagnosisOf(DelegationOf(t, alert, mode)) \in Incident

\* The model answers with failure modes, and None is no state of a task.
ASSUME OpinionAssumption == Opinion \subseteq FailureMode /\ None \notin Life!State

----------------------------------------------------------------------------
SystemInit ==
    /\ RemInit
    /\ tcrashes = 0
    /\ T!Init
    /\ asked = [t \in AlertId |-> None]
    /\ delegated = [p \in TaskId |-> None]

\* Triage takes a step of its own.
Triages(step) ==
    /\ UNCHANGED allVars
    /\ tcrashes' = tcrashes
    /\ step
    /\ UNCHANGED traced

\* The remediation agent or the tool server takes one, which triage sees the
\* effect of when it ends what triage waits for.
Remediates(step) ==
    /\ step
    /\ T!PeerAnswers(T!Remote)
    /\ UNCHANGED <<twire, tcrashes, traced>>

Alerted(t) == Triages(T!Message(t))

TriageHandles ==
    Triages(T!Diagnose \/ T!Conclude \/ T!Surface \/ T!GiveUp)

\* The delegation leaves triage.
Delegates ==
    /\ UNCHANGED allVars
    /\ tcrashes' = tcrashes
    /\ T!Delegate
    /\ asked' = [asked EXCEPT ![handling.task] = handling.alert]
    /\ UNCHANGED delegated

\* The remediation agent reads it, as a message that names no task.
Delegated(t, p) ==
    /\ twire[t] # None
    /\ p \notin known
    /\ Handle(p, DiagnosisOf(twire[t]))
    /\ twire' = [twire EXCEPT ![t] = None]
    /\ T!PeerAnswers(IF T!In("peer") /\ handling.task = t THEN p ELSE T!Remote)
    /\ delegated' = [delegated EXCEPT ![p] =
            [task |-> t, alert |-> asked[t], failure_mode |-> twire[t].failure_mode]]
    /\ UNCHANGED <<tcrashes, asked>>

Dropped(t) == Triages(T!Drop(t))

\* A person answers a pause, or cancels, at the remediation agent.
Decided(p) == Remediates(p \in known /\ (Resume(p) \/ Cancel(p)))

RemediationWorks == Remediates(ToolServer \/ Returns)

TriageRestarts ==
    /\ tcrashes + crashes < MaxCrashes
    /\ UNCHANGED allVars
    /\ tcrashes' = tcrashes + 1
    /\ T!AgentRestarts
    /\ UNCHANGED traced

RemediationRestarts ==
    /\ tcrashes + crashes < MaxCrashes
    /\ AgentRestarts
    /\ twire' = [t \in AlertId |-> None]
    /\ UNCHANGED <<ttasks, handling, tknown, paused, peered, tcrashes, traced>>

SystemNext ==
    \/ \E t \in AlertId :
          \/ Alerted(t) \/ Dropped(t)
          \/ \E p \in TaskId : Delegated(t, p)
    \/ TriageHandles
    \/ Delegates
    \/ \E p \in TaskId : Decided(p)
    \/ RemediationWorks
    \/ TriageRestarts
    \/ RemediationRestarts

System == SystemInit /\ [][SystemNext]_systemVars

\* A blocking call returns or raises, and a handler runs on: httpx gives the
\* remediation agent's calls 60 s, and the model's and the peer's are bounded too.
FairSystem ==
    /\ System
    /\ WF_systemVars(Remediates(Returns))
    /\ WF_systemVars(TriageHandles \/ Delegates)

----------------------------------------------------------------------------
\* Triage as the composition runs it is Triage over a peer of which it knows
\* no more than TaskLife: what was checked of triage there holds here, and
\* the abstract peer promises nothing the remediation agent does not keep.
TriageAsSpecified == T!Spec

\* The handler runs a delegation led to without a person.
Alone(p) == writes[p] # <<>> /\ writes[p][1].arguments.approval_ref = None

\* The tasks that moved incident e so, where its alert names it.
MovedAlone(e) ==
    {p \in TaskId : /\ delegated[p] # None
                    /\ delegated[p].alert.episode_id = e
                    /\ Alone(p)}

WeightMoved(ps) == SumFunction([p \in ps |-> Weight(writes[p][1].tool)])

\* An incident the alerts name is moved without a person by no more than one
\* ceiling, however often it is sent, read again or delegated again, and
\* however many tasks of either agent are spent on it.
IncidentBounded ==
    \A e \in Episode : WeightMoved(MovedAlone(e)) <= EpisodeCeiling * (restarts + 1)

\* The failure mode is what the rules find, where they settle it.
Ruled(alert, failure_mode) ==
    LET ruled == T!Classify(alert.signals)
    IN  T!IsAmbiguous(ruled) \/ failure_mode = ruled

\* The call is what the delegation behind task p calls for.
Caused(p, tool, domain, episode_id) ==
    LET alert == delegated[p].alert
    IN  /\ tool = CandidateTool[delegated[p].failure_mode]
        /\ domain = DeriveArguments(tool, alert.service,
                        T!Number(T!Get(alert.signals, "memory_limit_bytes")))
        /\ episode_id = T!EpisodeOf(delegated[p].task, alert)

\* Whatever runs was caused by an alert: it is the tool for what triage found
\* wrong, by its rules where they settle it, with the parameters computed from
\* the alert's own service and readings, on the account of its incident.
EveryRunHasACause ==
    \A p \in TaskId : writes[p] # <<>> =>
        LET run == writes[p][1]
        IN  /\ Ruled(delegated[p].alert, delegated[p].failure_mode)
            /\ Caused(p, run.tool, run.arguments.domain, run.arguments.episode_id)

\* A triage task that says its remediation is COMPLETED is right: its own
\* delegation led to one run.
CompletedMeansDone ==
    \A t \in AlertId : ttasks[t] # None =>
        LET p == ttasks[t].remote
        IN  ttasks[t].state = "COMPLETED" /\ p # None =>
                delegated[p].task = t /\ Len(writes[p]) = 1

\* No task of either agent stays WORKING, whatever the others do.
EveryTaskEnds == WorkingEnds /\ T!TriageEnds

----------------------------------------------------------------------------
\* What makes these inductive.

\* Triage's handler works on a new task, from the alert's own signals; until
\* it has delegated it knows of no task of its peer.
HandlerStands ==
    handling # T!Free =>
        /\ handling \in T!Frame(handling.signals)
        /\ handling.phase \in {"diagnosis", "act", "peer"}
        /\ ttasks[handling.task] = T!NewTask
        /\ handling.phase # "peer" =>
              /\ handling.alert \in Alert /\ handling.signals = handling.alert.signals
              /\ handling.remote = None /\ handling.answer = None
        /\ handling.phase = "act" =>
              /\ handling.diagnosis \in T!Diagnosis
              /\ Ruled(handling.alert, handling.diagnosis.failure_mode)

\* A delegation on its way is of the alert it was asked for.
DelegationsStand ==
    \A t \in AlertId : twire[t] # None =>
        /\ asked[t] \in Alert
        /\ twire[t].failure_mode \in DOMAIN CandidateTool
        /\ Ruled(asked[t], twire[t].failure_mode)
        /\ twire[t] = DelegationOf(t, asked[t], twire[t].failure_mode)

\* Every task of the remediation agent was made for a delegation.
Origin == [task: AlertId, alert: Alert, failure_mode: DOMAIN CandidateTool]

TasksAreDelegated ==
    \A p \in known :
        /\ delegated[p] \in Origin
        /\ Ruled(delegated[p].alert, delegated[p].failure_mode)

\* So is what it plans, what it asks the tool server for, and what runs.
PlansAreCaused ==
    \A p \in known :
        /\ tasks[p] # None => (tasks[p].plan # None =>
              Caused(p, tasks[p].plan.tool, tasks[p].plan.arguments,
                     tasks[p].episode_id))
        /\ wire[p] # None =>
              Caused(p, wire[p].tool, wire[p].arguments.domain,
                     wire[p].arguments.episode_id)

\* COMPLETED is said of a plan that was applied: what is delegated is never
\* healthy.
CompletedIsApplied ==
    \A p \in TaskId : tasks[p] # None =>
        (tasks[p].state = "COMPLETED" => tasks[p].applied)

\* Task p of the peer was made for task t of triage.
LedTo(t, p) == p \in known /\ delegated[p].task = t

\* Triage waits for, and shows, the tasks its own delegations led to.
RemotesStand ==
    /\ T!In("peer") =>
          /\ handling.remote = None => handling.answer = None
          /\ handling.remote # None =>
                /\ twire[handling.task] = None
                /\ LedTo(handling.task, handling.remote)
                /\ handling.answer = "COMPLETED" => Len(writes[handling.remote]) = 1
    /\ \A t \in AlertId : ttasks[t] # None =>
          (ttasks[t].remote # None => LedTo(t, ttasks[t].remote))

\* The runs without a person on the account of e are few, and were charged.
RunsAlone(e) == {p \in TaskId : Alone(p) /\ writes[p][1].arguments.episode_id = e}

FewRuns == IsFiniteSet({p \in TaskId : writes[p] # <<>>})

AloneIsCharged == \A e \in Episode : WeightMoved(RunsAlone(e)) <= alone[e]

Traced == /\ HandlerStands /\ DelegationsStand /\ TasksAreDelegated
          /\ PlansAreCaused /\ CompletedIsApplied /\ RemotesStand
          /\ CompletedMeansDone /\ EveryRunHasACause /\ T!AnswerIsPrompt
=============================================================================
