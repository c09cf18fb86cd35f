---------------------------- MODULE TriageProofs ----------------------------
(***************************************************************************)
(* Proofs about Triage: what its rules make of a reading, and what it      *)
(* promises whoever sends it an alert, for every number of tasks, every    *)
(* alert, reading and opinion, and any peer that implements TaskLife.      *)
(***************************************************************************)
EXTENDS Triage, TLAPS

\* classify names the first rule that holds; the last one always does.
LEMMA ClassifyFirst ==
    ASSUME NEW signals
    PROVE  \E i \in 1..8 :
              /\ Classify(signals) = Precedence[i]
              /\ Holds(signals)[Precedence[i]]
              /\ \A j \in 1..(i - 1) : ~Holds(signals)[Precedence[j]]
<1> DEFINE First(i) == /\ Holds(signals)[Precedence[i]]
                       /\ \A j \in 1..(i - 1) : ~Holds(signals)[Precedence[j]]
           H(i) == Holds(signals)[Precedence[i]]
<1>1. H(8)
  BY DEF Holds, Precedence
<1>2. DOMAIN Precedence = 1..8
  BY DEF Precedence
<1>3. \E i \in 1..8 : First(i)
  <2> HIDE DEF H
  <2>1. \A i \in 1..8 : H(i) /\ (\A j \in 1..(i - 1) : ~H(j)) => First(i)
    BY DEF H
  <2>2. \E i \in 1..8 : H(i) /\ (\A j \in 1..(i - 1) : ~H(j))
    BY <1>1
  <2> QED
    BY <2>1, <2>2
<1>4. Classify(signals) = Precedence[CHOOSE i \in 1..8 : First(i)]
  BY <1>2 DEF Classify
<1> HIDE DEF First
<1>5. First(CHOOSE i \in 1..8 : First(i)) /\ (CHOOSE i \in 1..8 : First(i)) \in 1..8
  BY <1>3
<1> QED
  BY <1>4, <1>5 DEF First

\* The modes, by name.
LEMMA FailureModes ==
    FailureMode = {"memory_exhaustion", "disk_pressure", "crash_loop",
                   "latency_degradation", "config_drift", "blind", "healthy",
                   "unknown"}
BY DEF FailureMode, Holds

LEMMA ClassifyType ==
    ASSUME NEW signals
    PROVE  Classify(signals) \in FailureMode
<1>1. \A i \in 1..8 : Precedence[i] \in FailureMode
  BY FailureModes DEF Precedence
<1> QED
  BY <1>1, ClassifyFirst

\* An OOM kill is one whatever else was seen.
LEMMA OomFirst ==
    ASSUME NEW signals, Get(signals, "oom_killed") = TRUE
    PROVE  Classify(signals) = "memory_exhaustion"
<1>1. Holds(signals)[Precedence[1]]
  BY DEF Holds, Precedence
<1>2. PICK i \in 1..8 : /\ Classify(signals) = Precedence[i]
                        /\ \A j \in 1..(i - 1) : ~Holds(signals)[Precedence[j]]
  BY ClassifyFirst
<1>3. i = 1
  BY <1>1, <1>2
<1> QED
  BY <1>2, <1>3 DEF Precedence

\* A reading that has not every guaranteed field is neither healthy nor left
\* to the model.
LEMMA BlindBeforeHealthy ==
    ASSUME NEW signals, Classify(signals) \in {"healthy", "unknown"}
    PROVE  Observed(signals)
<1>1. PICK i \in 1..8 : /\ Classify(signals) = Precedence[i]
                        /\ \A j \in 1..(i - 1) : ~Holds(signals)[Precedence[j]]
  BY ClassifyFirst
<1>2. i \in 7..8
  BY <1>1 DEF Precedence
<1>3. ~Holds(signals)[Precedence[6]]
  BY <1>1, <1>2
<1> QED
  BY <1>3 DEF Holds, Precedence

\* Without the metrics nothing is diagnosed.
LEMMA BlindWithoutMetrics ==
    ASSUME NEW signals, DOMAIN signals \subseteq {"logs"}
    PROVE  Classify(signals) = "blind"
<1>1. /\ Get(signals, "oom_killed") = None /\ Get(signals, "memory_percent") = None
      /\ Get(signals, "restart_count") = None /\ Get(signals, "disk_percent") = None
      /\ Get(signals, "p99_latency_ms") = None /\ Get(signals, "exit_code") = None
      /\ Get(signals, "config_changed_recently") = None
  BY DEF Get
<1>2. /\ ~Holds(signals)[Precedence[1]] /\ ~Holds(signals)[Precedence[2]]
      /\ ~Holds(signals)[Precedence[3]] /\ ~Holds(signals)[Precedence[4]]
      /\ ~Holds(signals)[Precedence[5]]
  <2>1. Percent(None) = 0 /\ Number(None) = 0
    BY DEF Percent, Number
  <2>2. ~Holds(signals).memory_exhaustion
    <3>1. Holds(signals).memory_exhaustion = ((None = TRUE) \/ 0 >= 95)
      BY <1>1, <2>1 DEF Holds, OomMemoryPercent
    <3>2. ~(0 >= 95)
      OBVIOUS
    <3> QED
      BY <3>1, <3>2, ReadingAssumption, Zenon
  <2>3. ~Holds(signals).disk_pressure
    <3>1. Holds(signals).disk_pressure = (0 >= 90)
      BY <1>1, <2>1 DEF Holds, DiskPressurePercent
    <3>2. ~(0 >= 90)
      OBVIOUS
    <3> QED
      BY <3>1, <3>2, Zenon
  <2>4. ~Holds(signals).crash_loop
    <3>1. Holds(signals).crash_loop = FALSE
      BY <1>1, <2>1 DEF Holds, CrashLoopRestarts
    <3> QED
      BY <3>1
  <2>5. ~Holds(signals).latency_degradation
    <3> DEFINE idle == Number(Get(signals, "restart_count")) = 0
    <3>1. Holds(signals).latency_degradation = (0 >= LatencyP99Ms /\ idle)
      BY <1>1, <2>1 DEF Holds
    <3>2. ~(0 >= LatencyP99Ms)
      BY DEF LatencyP99Ms
    <3> QED
      BY <3>1, <3>2, Zenon
  <2>6. ~Holds(signals).config_drift
    <3> DEFINE changed == Get(signals, "config_changed_recently") = TRUE
               late == \/ Number(Get(signals, "restart_count")) > 0
                       \/ Number(Get(signals, "p99_latency_ms")) >= LatencyP99Ms
    <3>1. Holds(signals).config_drift = (changed /\ late)
      BY Zenon DEF Holds
    <3>2. ~changed
      BY <1>1, ReadingAssumption, Zenon
    <3> QED
      BY <3>1, <3>2, Zenon
  <2> QED
    BY <2>2, <2>3, <2>4, <2>5, <2>6 DEF Precedence
<1>3. Holds(signals)[Precedence[6]]
  BY DEF Holds, Precedence, Observed, SensorGuaranteedFields
<1>4. PICK i \in 1..8 : /\ Classify(signals) = Precedence[i]
                        /\ Holds(signals)[Precedence[i]]
                        /\ \A j \in 1..(i - 1) : ~Holds(signals)[Precedence[j]]
  BY ClassifyFirst
<1>5. i = 6
  <2>1. ~ (i > 6)
    BY <1>3, <1>4
  <2>2. i \notin 1..5
    BY <1>2, <1>4
  <2> QED
    BY <2>1, <2>2
<1> QED
  BY <1>4, <1>5 DEF Precedence

----------------------------------------------------------------------------
\* What each kind of step does, with the types it leaves.

\* The fields of the frame.
LEMMA FrameFields ==
    ASSUME TypeOK, handling # Free
    PROVE  /\ handling.task \in TaskId /\ handling.alert \in Alert \cup {None}
           /\ handling.phase \in {"metrics", "logs", "diagnosis", "act", "peer"}
           /\ handling.gathered \in BOOLEAN
           /\ handling.diagnosis \in Diagnosis \cup {None}
           /\ handling.remote \in PeerTaskId \cup {None}
           /\ handling.answer \in Peer!State \cup {None}
BY DEF TypeOK, Frame

LEMMA NewTaskType == NewTask \in Task /\ \A s \in Peer!State, p \in PeerTaskId \cup {None} :
                                            [state |-> s, remote |-> p] \in Task
BY DEF NewTask, Task, Peer!State

\* A handler in a phase is at work.
LEMMA InFrame ==
    ASSUME TypeOK, NEW phase \in {"metrics", "logs", "diagnosis", "act", "peer"}, In(phase)
    PROVE  handling # Free /\ handling.phase = phase /\ handling \in Frame(handling.signals)
BY DEF In, Free, TypeOK

\* A message puts one task in a state without a task of the peer, and starts
\* the handler on it or is done with.
LEMMA MessageStep ==
    ASSUME TypeOK, NEW t \in TaskId, Message(t)
    PROVE  /\ Addressed(t) /\ known' = known \cup {t}
           /\ UNCHANGED <<theirs, steady>>
           /\ \E state \in Peer!State :
                 /\ tasks' = [tasks EXCEPT ![t] = [state |-> state, remote |-> None]]
                 /\ \/ state # "WORKING" /\ handling' = Free
                    \/ /\ state = "WORKING"
                       /\ handling' # Free /\ handling' \in Frame(handling'.signals)
                       /\ handling'.task = t /\ handling'.alert \in Alert
                       /\ handling'.phase \in {"metrics", "diagnosis"}
                       /\ handling'.gathered =>
                             handling'.phase = "metrics" /\ handling'.signals = <<>>
                       /\ handling'.remote = None /\ handling'.answer = None
<1>1. CASE Reject(t) \/ Cancel(t)
  BY <1>1
  DEF Restates, Reject, Cancel, Addressed, Continues, Peer!State, Peer!Terminal
<1>2. ASSUME NEW alert \in Alert, Receive(t, alert)
      PROVE  /\ Addressed(t) /\ known' = known \cup {t}
             /\ UNCHANGED <<theirs, steady>>
             /\ tasks' = [tasks EXCEPT ![t] = [state |-> "WORKING", remote |-> None]]
             /\ handling' # Free /\ handling' \in Frame(handling'.signals)
             /\ handling'.task = t /\ handling'.alert \in Alert
             /\ handling'.phase \in {"metrics", "diagnosis"}
             /\ handling'.gathered =>
                   handling'.phase = "metrics" /\ handling'.signals = <<>>
             /\ handling'.remote = None /\ handling'.answer = None
  <2> DEFINE frame == [task |-> t, alert |-> alert, signals |-> alert.signals,
                    phase |-> IF alert.signals = <<>> THEN "metrics" ELSE "diagnosis",
                    gathered |-> alert.signals = <<>>,
                    diagnosis |-> None, remote |-> None, answer |-> None]
  <2>1. handling' = frame
    BY <1>2 DEF Receive
  <2>2. frame \in Frame(frame.signals)
    BY DEF Frame
  <2>3. frame # Free
    BY <2>2 DEF Free, Frame
  <2>4. tasks' = [tasks EXCEPT ![t] = [state |-> "WORKING", remote |-> None]]
        /\ known' = known \cup {t}
    BY <1>2 DEF Restates, Receive, Peer!State
  <2>5. /\ frame.task = t /\ frame.alert \in Alert
        /\ frame.phase \in {"metrics", "diagnosis"}
        /\ frame.gathered => frame.phase = "metrics" /\ frame.signals = <<>>
        /\ frame.remote = None /\ frame.answer = None
    OBVIOUS
  <2>6. Addressed(t) /\ UNCHANGED <<theirs, steady>>
    BY <1>2 DEF Receive
  <2> HIDE DEF frame
  <2> QED
    BY <2>1, <2>2, <2>3, <2>4, <2>5, <2>6
<1> QED
  BY <1>1, <1>2 DEF Message, Peer!State

\* The handler reads or thinks: nothing moves but its own frame.
LEMMA ThinksStep ==
    ASSUME TypeOK, Diagnosed, ReadMetrics \/ ReadLogs \/ Diagnose
    PROVE  /\ UNCHANGED <<tasks, known, theirs, steady>>
           /\ handling # Free /\ handling.phase # "peer"
           /\ handling' # Free /\ handling' \in Frame(handling'.signals)
           /\ handling'.phase \in {"logs", "diagnosis", "act"}
           /\ handling'.task = handling.task /\ handling'.alert = handling.alert
           /\ handling'.gathered = handling.gathered
           /\ handling'.remote = handling.remote /\ handling'.answer = handling.answer
<1>1. handling # Free => handling \in Frame(handling.signals)
  BY DEF TypeOK
<1>2. ASSUME NEW phase \in {"logs", "diagnosis"}, NEW signals, handling # Free,
             handling' = [handling EXCEPT !.phase = phase, !.signals = signals]
      PROVE  /\ handling' \in Frame(handling'.signals) /\ handling'.signals = signals
             /\ handling'.phase = phase
             /\ handling'.task = handling.task /\ handling'.alert = handling.alert
             /\ handling'.gathered = handling.gathered
             /\ handling'.remote = handling.remote /\ handling'.answer = handling.answer
  BY <1>1, <1>2 DEF Frame
<1>3. CASE ReadMetrics \/ ReadLogs
  <2>1. PICK phase \in {"logs", "diagnosis"} : \E signals : Proceeds(phase, signals)
    BY <1>3 DEF ReadMetrics, ReadLogs
  <2>2. PICK signals : Proceeds(phase, signals)
    BY <2>1
  <2>4. handling # Free /\ handling.phase # "peer"
    BY <1>3, InFrame DEF ReadMetrics, ReadLogs
  <2>3. handling' = [handling EXCEPT !.phase = phase, !.signals = signals]
        /\ UNCHANGED <<tasks, known, theirs, steady>>
    BY <2>2 DEF Proceeds
  <2>5. handling' \in Frame(handling'.signals) => handling' # Free
    BY DEF Frame, Free
  <2> QED
    BY <1>2, <2>3, <2>4, <2>5
<1>4. CASE Diagnose
  <2>1. PICK mode \in FailureMode, source \in {"rule", "model"} : Concludes(mode, source)
    BY <1>4, ClassifyType, CallerAssumption, FailureModes DEF Diagnose
  <2>2. handling # Free /\ handling.phase # "peer"
    BY <1>4, InFrame DEF Diagnose
  <2>3. /\ UNCHANGED <<tasks, known, theirs, steady>>
        /\ handling' = [handling EXCEPT !.phase = "act",
                          !.diagnosis = [failure_mode |-> mode, source |-> source]]
    BY <2>1 DEF Concludes
  <2>4. [failure_mode |-> mode, source |-> source] \in Diagnosis
    BY DEF Diagnosis
  <2>5. /\ handling' \in Frame(handling'.signals) /\ handling'.phase = "act"
        /\ handling'.task = handling.task /\ handling'.alert = handling.alert
        /\ handling'.gathered = handling.gathered
        /\ handling'.remote = handling.remote /\ handling'.answer = handling.answer
    BY <1>1, <2>2, <2>3, <2>4 DEF Frame
  <2>6. handling' # Free
    BY <2>5 DEF Free
  <2> QED
    BY <2>2, <2>3, <2>5, <2>6
<1> QED
  BY <1>3, <1>4

\* The delegation goes out.
LEMMA DelegateStep ==
    ASSUME TypeOK, Diagnosed, Delegate
    PROVE  /\ UNCHANGED <<tasks, known, peer, pknown, paused, steady>>
           /\ handling # Free /\ handling.phase = "act"
           /\ handling' # Free /\ handling' \in Frame(handling'.signals)
           /\ handling'.phase = "peer" /\ handling'.task = handling.task
           /\ handling'.remote = None /\ handling'.answer = None
           /\ DOMAIN wire' = TaskId
           /\ wire'[handling.task].failure_mode \in FailureMode
           /\ \E alert \in Alert :
                 /\ wire'[handling.task].service = alert.service
                 /\ wire'[handling.task].episode_id = EpisodeOf(handling.task, alert)
           /\ \A t \in TaskId : t # handling.task => wire'[t] = wire[t]
<1>0. In("act")
  BY DEF Delegate, Actionable
<1>1. handling # Free /\ handling.phase = "act" /\ handling \in Frame(handling.signals)
      /\ handling.alert \in Alert /\ handling.remote = None /\ handling.answer = None
      /\ handling.diagnosis # None
  BY <1>0, InFrame DEF Diagnosed, NotYetDelegated, DiagnosisIsRuled
<1>2. handling' = [handling EXCEPT !.phase = "peer", !.signals = <<>>, !.alert = None]
  BY DEF Delegate
<1>3. handling' \in Frame(handling'.signals) /\ handling'.phase = "peer"
      /\ handling'.task = handling.task
      /\ handling'.remote = None /\ handling'.answer = None
  BY <1>1, <1>2 DEF Frame
<1>4. Found \in FailureMode /\ handling.task \in TaskId
  BY <1>1 DEF Frame, Diagnosis, Found
<1>5. DOMAIN wire = TaskId
  BY DEF TypeOK
<1>6. wire'[handling.task] = [failure_mode |-> Found, service |-> handling.alert.service,
             signals |-> Forwarded(handling.signals),
             episode_id |-> EpisodeOf(handling.task, handling.alert)]
      /\ DOMAIN wire' = TaskId
      /\ \A t \in TaskId : t # handling.task => wire'[t] = wire[t]
  BY <1>4, <1>5 DEF Delegate
<1>7. handling' # Free
  BY <1>3 DEF Free
<1>8. UNCHANGED <<tasks, known, peer, pknown, paused, steady>>
  BY DEF Delegate
<1> QED
  BY <1>1, <1>3, <1>4, <1>6, <1>7, <1>8

\* The handler returns or raises: its task gets a state that is not WORKING.
LEMMA EndsStep ==
    ASSUME TypeOK, HandledIsWorking, Conclude \/ Surface \/ GiveUp
    PROVE  /\ UNCHANGED <<known, theirs, steady>> /\ handling' = Free
           /\ handling # Free /\ handling.task \in TaskId
           /\ \E state \in Peer!State \ {"WORKING"}, remote \in PeerTaskId \cup {None} :
                 /\ tasks' = [tasks EXCEPT ![handling.task] =
                                             [state |-> state, remote |-> remote]]
                 /\ \/ remote = None /\ (In("peer") => state = "FAILED")
                    \/ /\ In("peer") /\ handling.answer # None
                       /\ remote = handling.remote
                       /\ state = Surfaced(handling.answer)
<1> DEFINE t == handling.task
<1>1. handling # Free /\ t \in TaskId /\ tasks[t] = NewTask
      /\ tasks \in [TaskId -> Task \cup {None}]
  <2>1. handling # Free
    BY InFrame DEF Conclude, Surface, GiveUp, Actionable
  <2> QED
    BY <2>1, FrameFields DEF HandledIsWorking, TypeOK
<1>2. ASSUME NEW state, Closes(t, state)
      PROVE  /\ UNCHANGED <<known, theirs, steady>> /\ handling' = Free
             /\ tasks' = [tasks EXCEPT ![t] = [state |-> state, remote |-> None]]
  <2>1. [NewTask EXCEPT !.state = state] = [state |-> state, remote |-> None]
    BY DEF NewTask
  <2> QED
    BY <1>1, <1>2, <2>1 DEF Closes
<1>3. CASE Conclude
  <2>1. ~In("peer")
    BY <1>3 DEF Conclude, Actionable, In
  <2>2. PICK state \in {"COMPLETED", "INPUT_REQUIRED"} : Closes(t, state)
    BY <1>3 DEF Conclude
  <2> QED
    BY <1>1, <1>2, <2>1, <2>2 DEF Peer!State, Peer!Terminal, Peer!Paused
<1>4. CASE GiveUp
  BY <1>1, <1>2, <1>4 DEF GiveUp, Peer!State, Peer!Terminal
<1>5. CASE Surface
  <2> DEFINE state == Surfaced(handling.answer)
  <2>2. tasks' = [tasks EXCEPT ![t] = [state |-> state, remote |-> handling.remote]]
    BY <1>5 DEF Surface
  <2>3. state \in Peer!State \ {"WORKING"}
    BY DEF Surfaced, Peer!State, Peer!Terminal, Peer!Paused
  <2>4. handling.remote \in PeerTaskId \cup {None}
    BY <1>1, FrameFields
  <2> QED
    BY <1>1, <1>5, <2>2, <2>3, <2>4 DEF Surface
<1> QED
  BY <1>3, <1>4, <1>5

\* The peer's agent starts, goes on with or ends one task: what is COMPLETED
\* stays so, what it forgot stays forgotten.
LEMMA PeerMoves ==
    ASSUME TypeOK, UnknownIsFresh, NEW p \in PeerTaskId, NEW state \in PeerState,
           Peer!Message(p, state) \/ (p \in pknown /\ Peer!Return(p, state))
    PROVE  /\ peer' \in [PeerTaskId -> Peer!State \cup {None}]
           /\ pknown' \in {pknown, pknown \cup {p}}
           /\ \A q \in PeerTaskId \ pknown' : peer'[q] = None
           /\ \A q \in pknown : peer[q] = None => peer'[q] = None
           /\ \A q \in PeerTaskId : peer[q] = "COMPLETED" => peer'[q] = "COMPLETED"
<1>1. peer \in [PeerTaskId -> Peer!State \cup {None}] /\ pknown \subseteq PeerTaskId
  BY DEF TypeOK
<1>2. peer' = [peer EXCEPT ![p] = state] /\ state \in Peer!State
  BY PeerAssumption DEF Peer!Message, Peer!Return, Peer!Becomes
<1>3. p \in pknown' /\ pknown' \in {pknown, pknown \cup {p}}
  BY DEF Peer!Message, Peer!Return
<1>4. \/ p \notin pknown /\ peer[p] = None
      \/ p \in pknown /\ peer[p] \in {"WORKING", "INPUT_REQUIRED", "AUTH_REQUIRED"}
  BY DEF Peer!Message, Peer!Return, Peer!Paused, UnknownIsFresh
<1>5. None \notin {"WORKING", "INPUT_REQUIRED", "AUTH_REQUIRED", "COMPLETED"}
  BY AbsenceAssumption DEF Peer!State, Peer!Terminal, Peer!Paused
<1>6. \A q \in PeerTaskId \ pknown : peer[q] = None
  BY DEF UnknownIsFresh
<1> QED
  BY <1>1, <1>2, <1>3, <1>4, <1>5, <1>6

\* What triage sees of it: the state of the task it waits for, once there is
\* one that is not WORKING.
LEMMA AnswersStep ==
    ASSUME TypeOK, NEW remote \in PeerTaskId \cup {None}, PeerAnswers(remote),
           peer' \in [PeerTaskId -> Peer!State \cup {None}]
    PROVE  /\ UNCHANGED <<tasks, known, peered>>
           /\ paused' = paused \cup {p \in PeerTaskId : peer'[p] = "AUTH_REQUIRED"}
           /\ ~In("peer") => handling' = handling
           /\ In("peer") =>
                 /\ handling' \in Frame(handling'.signals)
                 /\ handling'.phase = "peer" /\ handling'.task = handling.task
                 /\ handling'.remote = remote
                 /\ handling'.answer =
                       IF /\ handling.answer = None /\ remote # None
                          /\ peer'[remote] \notin {None, "WORKING"}
                       THEN peer'[remote] ELSE handling.answer
<1>1. UNCHANGED <<tasks, known, peered>>
      /\ paused' = paused \cup {p \in PeerTaskId : peer'[p] = "AUTH_REQUIRED"}
  BY DEF PeerAnswers
<1>2. CASE ~In("peer")
  BY <1>1, <1>2 DEF PeerAnswers
<1>3. CASE In("peer")
  <2>1. handling \in Frame(handling.signals) /\ handling.phase = "peer"
    BY <1>3, InFrame
  <2>2. CASE /\ handling.answer = None /\ remote # None
             /\ peer'[remote] \notin {None, "WORKING"}
    <3>1. handling' = [handling EXCEPT !.remote = remote, !.answer = peer'[remote]]
      BY <1>3, <2>2 DEF PeerAnswers
    <3>2. peer'[remote] \in Peer!State
      BY <2>2
    <3>3. /\ handling' \in Frame(handling'.signals)
          /\ handling'.phase = "peer" /\ handling'.task = handling.task
          /\ handling'.remote = remote /\ handling'.answer = peer'[remote]
      BY <2>1, <3>1, <3>2 DEF Frame
    <3> QED
      BY <1>1, <1>3, <2>2, <3>3
  <2>3. CASE ~ /\ handling.answer = None /\ remote # None
               /\ peer'[remote] \notin {None, "WORKING"}
    <3>1. handling' = [handling EXCEPT !.remote = remote]
      BY <1>3, <2>3 DEF PeerAnswers
    <3>2. /\ handling' \in Frame(handling'.signals)
          /\ handling'.phase = "peer" /\ handling'.task = handling.task
          /\ handling'.remote = remote /\ handling'.answer = handling.answer
      BY <2>1, <3>1 DEF Frame
    <3> QED
      BY <1>1, <1>3, <2>3, <3>2
  <2> QED
    BY <2>2, <2>3
<1> QED
  BY <1>2, <1>3

\* Both together, and the delegation the peer may have read.
LEMMA PeerStep ==
    ASSUME TypeOK, UnknownIsFresh, AnswerIsPeers,
           (\E t \in TaskId, p \in PeerTaskId : PeerReads(t, p)) \/ PeerWorks
    PROVE  /\ UNCHANGED <<tasks, known, peered, crashes>>
           /\ peer' \in [PeerTaskId -> Peer!State \cup {None}]
           /\ pknown \subseteq pknown' /\ pknown' \subseteq PeerTaskId
           /\ \A q \in PeerTaskId \ pknown' : peer'[q] = None
           /\ \A q \in pknown : peer[q] = None => peer'[q] = None
           /\ \A q \in PeerTaskId : peer[q] = "COMPLETED" => peer'[q] = "COMPLETED"
           /\ paused' = paused \cup {p \in PeerTaskId : peer'[p] = "AUTH_REQUIRED"}
           /\ DOMAIN wire' = TaskId
           /\ \A t \in TaskId : wire'[t] \in {wire[t], None}
           /\ ~In("peer") => handling' = handling
           /\ In("peer") =>
                 /\ handling' \in Frame(handling'.signals)
                 /\ handling'.phase = "peer" /\ handling'.task = handling.task
                 /\ handling'.remote = handling.remote
                    \/ /\ handling.remote = None /\ handling.answer = None
                       /\ handling'.remote \in pknown'
                       /\ wire'[handling.task] = None
                 /\ handling'.answer =
                       IF /\ handling.answer = None /\ handling'.remote # None
                          /\ peer'[handling'.remote] \notin {None, "WORKING"}
                       THEN peer'[handling'.remote] ELSE handling.answer
<1>1. DOMAIN wire = TaskId /\ pknown \subseteq PeerTaskId
  BY DEF TypeOK
<1>2. Remote \in PeerTaskId \cup {None} /\ (In("peer") => Remote = handling.remote)
  BY InFrame, FrameFields DEF Remote
<1>3. ASSUME NEW t \in TaskId, NEW p \in PeerTaskId, PeerReads(t, p)
      PROVE  /\ peer' \in [PeerTaskId -> Peer!State \cup {None}]
             /\ pknown' = pknown \cup {p}
             /\ \A q \in PeerTaskId \ pknown' : peer'[q] = None
             /\ \A q \in pknown : peer[q] = None => peer'[q] = None
             /\ \A q \in PeerTaskId : peer[q] = "COMPLETED" => peer'[q] = "COMPLETED"
  BY <1>3, PeerMoves DEF PeerReads, Peer!Message
<1>4. CASE \E t \in TaskId, p \in PeerTaskId : PeerReads(t, p)
  <2>1. PICK t \in TaskId, p \in PeerTaskId : PeerReads(t, p)
    BY <1>4
  <2> DEFINE remote == IF In("peer") /\ handling.task = t THEN p ELSE Remote
  <2>2. wire[t] # None /\ wire' = [wire EXCEPT ![t] = None] /\ PeerAnswers(remote)
        /\ UNCHANGED crashes
    BY <2>1 DEF PeerReads
  <2>3. DOMAIN wire' = TaskId /\ wire'[t] = None
        /\ \A u \in TaskId : wire'[u] \in {wire[u], None}
    BY <1>1, <2>2
  <2>4. In("peer") => \/ remote = handling.remote
                      \/ /\ handling.remote = None /\ handling.answer = None
                         /\ remote = p /\ handling.task = t
    BY <1>2, <2>2 DEF AnswerIsPeers
  <2>5. remote \in PeerTaskId \cup {None}
    BY <1>2
  <2> HIDE DEF remote
  <2>6. /\ UNCHANGED <<tasks, known, peered>>
        /\ paused' = paused \cup {q \in PeerTaskId : peer'[q] = "AUTH_REQUIRED"}
        /\ ~In("peer") => handling' = handling
        /\ In("peer") =>
              /\ handling' \in Frame(handling'.signals)
              /\ handling'.phase = "peer" /\ handling'.task = handling.task
              /\ handling'.remote = remote
              /\ handling'.answer =
                    IF /\ handling.answer = None /\ remote # None
                       /\ peer'[remote] \notin {None, "WORKING"}
                    THEN peer'[remote] ELSE handling.answer
    BY <1>3, <2>1, <2>2, <2>5, AnswersStep
  <2> QED
    BY <1>1, <1>3, <2>1, <2>2, <2>3, <2>4, <2>6
<1>5. CASE PeerWorks
  <2>1. PICK p \in pknown, state \in PeerState :
           Peer!Message(p, state) \/ Peer!Return(p, state)
    BY <1>5 DEF PeerWorks
  <2>2. PeerAnswers(Remote) /\ UNCHANGED <<wire, crashes>>
    BY <1>5 DEF PeerWorks
  <2>3. /\ peer' \in [PeerTaskId -> Peer!State \cup {None}]
        /\ pknown' \in {pknown, pknown \cup {p}}
        /\ \A q \in PeerTaskId \ pknown' : peer'[q] = None
        /\ \A q \in pknown : peer[q] = None => peer'[q] = None
        /\ \A q \in PeerTaskId : peer[q] = "COMPLETED" => peer'[q] = "COMPLETED"
    BY <1>1, <2>1, PeerMoves
  <2>4. /\ UNCHANGED <<tasks, known, peered>>
        /\ paused' = paused \cup {q \in PeerTaskId : peer'[q] = "AUTH_REQUIRED"}
        /\ ~In("peer") => handling' = handling
        /\ In("peer") =>
              /\ handling' \in Frame(handling'.signals)
              /\ handling'.phase = "peer" /\ handling'.task = handling.task
              /\ handling'.remote = Remote
              /\ handling'.answer =
                    IF /\ handling.answer = None /\ Remote # None
                       /\ peer'[Remote] \notin {None, "WORKING"}
                    THEN peer'[Remote] ELSE handling.answer
    BY <1>2, <2>2, <2>3, AnswersStep
  <2> QED
    BY <1>1, <1>2, <2>1, <2>2, <2>3, <2>4
<1> QED
  BY <1>4, <1>5

----------------------------------------------------------------------------
\* The inductive invariant, one kind of step after the other.

Consistent == TypeOK /\ Handled /\ Diagnosed /\ Answered

LEMMA StartsConsistent == Init => Consistent
<1> SUFFICES ASSUME Init PROVE Consistent
  OBVIOUS
<1>1. \A phase \in {"metrics", "logs", "diagnosis", "act", "peer"} : ~In(phase)
  BY DEF Init, In, Free
<1>2. TypeOK
  BY CallerAssumption DEF Init, TypeOK
<1>3. Handled
  BY DEF Init, Handled, HandledIsWorking, UnknownIsFresh
<1>4. Diagnosed
  BY <1>1 DEF Init, Diagnosed, NotYetDelegated, GatheredSignals, DiagnosisIsRuled
<1>5. Answered
  <2>1. None # "AUTH_REQUIRED"
    BY AbsenceAssumption DEF Peer!State, Peer!Paused
  <2> QED
    BY <1>1, <2>1 DEF Init, Answered, AnswerIsPeers, AnswerIsPrompt, RemoteIsKnown,
      PeerSurfaced, LateOnlyWhenFailed
<1> QED
  BY <1>2, <1>3, <1>4, <1>5 DEF Consistent

\* What a task may be in.
LEMMA States ==
    /\ {"WORKING", "COMPLETED", "FAILED", "CANCELED", "REJECTED", "INPUT_REQUIRED",
        "AUTH_REQUIRED"} = Peer!State
    /\ None \notin Peer!State
    /\ \A s \in Peer!State, p \in PeerTaskId \cup {None} :
          /\ [state |-> s, remote |-> p] \in Task
          /\ [state |-> s, remote |-> p] # None
BY AbsenceAssumption, NewTaskType DEF Peer!State, Peer!Terminal, Peer!Paused

\* No task that is addressed has a delegation under way.
LEMMA AddressedIsQuiet ==
    ASSUME TypeOK, Handled, LateOnlyWhenFailed, NEW t \in TaskId, Addressed(t)
    PROVE  handling = Free /\ wire[t] = None
           /\ \A u \in TaskId : tasks[u] # None => tasks[u].state # "WORKING"
<1>1. handling = Free /\ ~In("peer")
  BY DEF Addressed, In, Free
<1>2. tasks[t] = None => t \notin known
  BY DEF Addressed, Continues
<1>3. tasks[t] # None => t \in known /\ tasks[t].state # "FAILED"
  BY DEF Addressed, Continues, Handled, HandledIsWorking, Terminal, Peer!Terminal
<1>4. t \notin known => wire[t] = None
  BY DEF Handled, UnknownIsFresh
<1> QED
  BY <1>1, <1>2, <1>3, <1>4 DEF LateOnlyWhenFailed, Handled, HandledIsWorking

LEMMA MessageConsistent ==
    ASSUME Consistent, NEW t \in TaskId, Message(t)
    PROVE  Consistent'
<1>0. TypeOK /\ Handled /\ Diagnosed /\ Answered /\ LateOnlyWhenFailed
  BY DEF Consistent, Answered
<1>1. /\ Addressed(t) /\ known' = known \cup {t}
      /\ UNCHANGED <<theirs, steady>>
  BY <1>0, MessageStep
<1>2. PICK state \in Peer!State :
         /\ tasks' = [tasks EXCEPT ![t] = [state |-> state, remote |-> None]]
         /\ \/ state # "WORKING" /\ handling' = Free
            \/ /\ state = "WORKING"
               /\ handling' # Free /\ handling' \in Frame(handling'.signals)
               /\ handling'.task = t /\ handling'.alert \in Alert
               /\ handling'.phase \in {"metrics", "diagnosis"}
               /\ handling'.gathered =>
                     handling'.phase = "metrics" /\ handling'.signals = <<>>
               /\ handling'.remote = None /\ handling'.answer = None
  BY <1>0, MessageStep
<1>3. handling = Free /\ wire[t] = None
      /\ \A u \in TaskId : tasks[u] # None => tasks[u].state # "WORKING"
  BY <1>0, <1>1, AddressedIsQuiet
<1>4. UNCHANGED <<wire, peer, pknown, paused, peered, crashes>>
  BY <1>1 DEF theirs, steady
<1>5. /\ tasks'[t] = [state |-> state, remote |-> None]
      /\ \A u \in TaskId \ {t} : tasks'[u] = tasks[u]
  BY <1>0, <1>2 DEF TypeOK
<1>6. TypeOK'
  <2>1. tasks' \in [TaskId -> Task \cup {None}]
    BY <1>0, <1>2, States DEF TypeOK
  <2> QED
    BY <1>0, <1>1, <1>2, <1>4, <2>1 DEF TypeOK
<1>7. Handled'
  <2>1. HandledIsWorking'
    BY <1>0, <1>1, <1>2, <1>3, <1>5 DEF Handled, HandledIsWorking, NewTask
  <2>2. UnknownIsFresh'
    BY <1>0, <1>1, <1>4 DEF Handled, UnknownIsFresh
  <2> QED
    BY <2>1, <2>2 DEF Handled
<1>8. Diagnosed'
  BY <1>2 DEF Diagnosed, NotYetDelegated, GatheredSignals, DiagnosisIsRuled, In, Free
<1>9. Answered'
  <2>1. ~In("peer") /\ ~In("peer")'
    BY <1>2, <1>3 DEF In, Free
  <2>2. AnswerIsPeers' /\ AnswerIsPrompt'
    BY <1>0, <1>4, <2>1 DEF Answered, AnswerIsPeers, AnswerIsPrompt
  <2>3. RemoteIsKnown' /\ PeerSurfaced'
    BY <1>0, <1>4, <1>5 DEF Answered, RemoteIsKnown, PeerSurfaced
  <2>4. LateOnlyWhenFailed'
    BY <1>0, <1>3, <1>4, <1>5, <2>1 DEF LateOnlyWhenFailed
  <2> QED
    BY <2>2, <2>3, <2>4 DEF Answered
<1> QED
  BY <1>6, <1>7, <1>8, <1>9 DEF Consistent

\* What a tool adds to the signals.
LEMMA Readings ==
    /\ \A stats, inspection, signals :
          Observed(With(signals, GetMetrics(stats, inspection)))
    /\ \A signals : /\ Observed(signals) => Observed(With(signals, GetLogs))
                    /\ DOMAIN With(signals, GetLogs) = DOMAIN signals \cup {"logs"}
BY DEF Observed, With, GetMetrics, GetLogs, SensorGuaranteedFields

\* The handler reads what it has not got, and the rules judge what it read.
LEMMA ThinksDiagnosed ==
    ASSUME TypeOK, Diagnosed, ReadMetrics \/ ReadLogs \/ Diagnose
    PROVE  Diagnosed'
<1>1. /\ handling # Free /\ handling.phase # "peer"
      /\ handling' # Free /\ handling' \in Frame(handling'.signals)
      /\ handling'.phase \in {"logs", "diagnosis", "act"}
      /\ handling'.alert = handling.alert /\ handling'.gathered = handling.gathered
      /\ handling'.remote = handling.remote /\ handling'.answer = handling.answer
  BY ThinksStep
<1>2. NotYetDelegated'
  BY <1>1 DEF Diagnosed, NotYetDelegated
<1>3. handling \in Frame(handling.signals)
  BY <1>1 DEF TypeOK
<1>4. handling.gathered =>
        /\ handling.phase = "metrics" => handling.signals = <<>>
        /\ handling.phase \in {"logs", "diagnosis", "act"} =>
              Observed(handling.signals) \/ DOMAIN handling.signals \subseteq {"logs"}
  BY <1>1 DEF Diagnosed, GatheredSignals
<1>5. \A phase, signals : Proceeds(phase, signals) =>
         handling'.phase = phase /\ handling'.signals = signals
  BY <1>3 DEF Proceeds, Frame
<1>6. CASE ReadMetrics
  <2>1. handling.phase = "metrics"
    BY <1>6 DEF ReadMetrics, In
  <2>2. /\ handling'.phase = "logs"
        /\ \/ Observed(handling'.signals)
           \/ handling'.signals = handling.signals
    BY <1>5, <1>6, Readings DEF ReadMetrics
  <2>3. DOMAIN <<>> \subseteq {"logs"}
    OBVIOUS
  <2> QED
    BY <1>1, <1>2, <1>4, <2>1, <2>2, <2>3 DEF Diagnosed, GatheredSignals, DiagnosisIsRuled, In
<1>7. CASE ReadLogs
  <2>1. handling.phase = "logs"
    BY <1>7 DEF ReadLogs, In
  <2>2. /\ handling'.phase = "diagnosis"
        /\ \/ handling'.signals = With(handling.signals, GetLogs)
           \/ handling'.signals = handling.signals
    BY <1>5, <1>7 DEF ReadLogs
  <2> QED
    BY <1>1, <1>2, <1>4, <2>1, <2>2, Readings
    DEF Diagnosed, GatheredSignals, DiagnosisIsRuled, In
<1>8. CASE Diagnose
  <2>1. handling.phase = "diagnosis"
    BY <1>8 DEF Diagnose, In
  <2>2. \A mode, source : Concludes(mode, source) =>
           /\ handling'.phase = "act" /\ handling'.signals = handling.signals
           /\ handling'.diagnosis = [failure_mode |-> mode, source |-> source]
    BY <1>3 DEF Concludes, Frame
  <2>3. PICK mode \in FailureMode, source \in {"rule", "model"} :
           /\ Concludes(mode, source)
           /\ \/ source = "rule" /\ mode = Classify(handling.signals)
              \/ source = "model" /\ IsAmbiguous(Classify(handling.signals))
    <3> DEFINE ruled == Classify(handling.signals)
    <3>1. ruled \in FailureMode /\ Opinion \cup {"unknown"} \subseteq FailureMode
      BY ClassifyType, CallerAssumption, FailureModes
    <3>2. \/ Concludes(ruled, "rule")
          \/ /\ IsAmbiguous(ruled)
             /\ \E opinion \in Opinion \cup {"unknown"} : Concludes(opinion, "model")
      BY <1>8 DEF Diagnose
    <3> HIDE DEF ruled
    <3>3. CASE Concludes(ruled, "rule")
      BY <3>1, <3>3 DEF ruled
    <3>4. CASE /\ IsAmbiguous(ruled)
               /\ \E opinion \in Opinion \cup {"unknown"} : Concludes(opinion, "model")
      BY <3>1, <3>4 DEF ruled
    <3> QED
      BY <3>2, <3>3, <3>4
  <2>4. /\ handling'.phase = "act" /\ handling'.signals = handling.signals
        /\ handling'.diagnosis = [failure_mode |-> mode, source |-> source]
        /\ handling'.diagnosis # None
    BY <2>2, <2>3, AbsenceAssumption DEF Diagnosis
  <2>5. DiagnosisIsRuled'
    BY <2>3, <2>4 DEF DiagnosisIsRuled, Found
  <2>6. GatheredSignals'
    BY <1>1, <1>4, <2>1, <2>4 DEF GatheredSignals
  <2> QED
    BY <1>2, <2>5, <2>6 DEF Diagnosed
<1> QED
  BY <1>6, <1>7, <1>8

LEMMA ThinksConsistent ==
    ASSUME Consistent, ReadMetrics \/ ReadLogs \/ Diagnose
    PROVE  Consistent'
<1>0. TypeOK /\ Handled /\ Diagnosed /\ Answered
  BY DEF Consistent
<1>1. /\ UNCHANGED <<tasks, known, wire, peer, pknown, paused, peered, crashes>>
      /\ handling # Free /\ handling.phase # "peer"
      /\ handling' # Free /\ handling' \in Frame(handling'.signals)
      /\ handling'.phase \in {"logs", "diagnosis", "act"}
      /\ handling'.task = handling.task
  BY <1>0, ThinksStep DEF theirs, steady
<1>2. ~In("peer") /\ ~In("peer")'
  BY <1>1 DEF In
<1>3. TypeOK'
  BY <1>0, <1>1 DEF TypeOK
<1>4. Handled'
  BY <1>0, <1>1 DEF Handled, HandledIsWorking, UnknownIsFresh
<1>5. Diagnosed'
  BY <1>0, ThinksDiagnosed
<1>6. Answered'
  BY <1>0, <1>1, <1>2 DEF Answered, AnswerIsPeers, AnswerIsPrompt, RemoteIsKnown,
    PeerSurfaced, LateOnlyWhenFailed
<1> QED
  BY <1>3, <1>4, <1>5, <1>6 DEF Consistent

LEMMA DelegateConsistent ==
    ASSUME Consistent, Delegate
    PROVE  Consistent'
<1>0. TypeOK /\ Handled /\ Diagnosed /\ Answered
  BY DEF Consistent
<1>1. /\ UNCHANGED <<tasks, known, peer, pknown, paused, peered, crashes>>
      /\ handling # Free /\ handling.phase = "act"
      /\ handling' # Free /\ handling' \in Frame(handling'.signals)
      /\ handling'.phase = "peer" /\ handling'.task = handling.task
      /\ handling'.remote = None /\ handling'.answer = None
      /\ DOMAIN wire' = TaskId
      /\ wire'[handling.task].failure_mode \in FailureMode
      /\ \E alert \in Alert :
            /\ wire'[handling.task].service = alert.service
            /\ wire'[handling.task].episode_id = EpisodeOf(handling.task, alert)
      /\ \A t \in TaskId : t # handling.task => wire'[t] = wire[t]
  BY <1>0, DelegateStep DEF steady
<1>2. tasks[handling.task] = NewTask /\ handling.task \in TaskId
      /\ handling.task \in known
  BY <1>0, <1>1, FrameFields, States DEF Handled, HandledIsWorking, NewTask
<1>3. TypeOK'
  <2>1. \A t \in TaskId : EpisodeOf(t, handling.alert)' = EpisodeOf(t, handling.alert)'
    OBVIOUS
  <2>2. \A t \in TaskId : wire'[t] # None =>
           /\ wire'[t].failure_mode \in FailureMode
           /\ \E alert \in Alert : /\ wire'[t].service = alert.service
                                  /\ wire'[t].episode_id = EpisodeOf(t, alert)
    BY <1>0, <1>1 DEF TypeOK
  <2> QED
    BY <1>0, <1>1, <2>2 DEF TypeOK
<1>4. Handled'
  BY <1>0, <1>1, <1>2 DEF Handled, HandledIsWorking, UnknownIsFresh
<1>5. Diagnosed'
  BY <1>1 DEF Diagnosed, NotYetDelegated, GatheredSignals, DiagnosisIsRuled, In
<1>6. Answered'
  <2>1. ~In("peer") /\ In("peer")'
    BY <1>1 DEF In
  <2>2. AnswerIsPeers' /\ AnswerIsPrompt'
    BY <1>0, <1>1 DEF Answered, AnswerIsPeers, AnswerIsPrompt
  <2>3. RemoteIsKnown' /\ PeerSurfaced'
    BY <1>0, <1>1 DEF Answered, RemoteIsKnown, PeerSurfaced
  <2>4. LateOnlyWhenFailed'
    BY <1>0, <1>1, <2>1 DEF Answered, LateOnlyWhenFailed
  <2> QED
    BY <2>2, <2>3, <2>4 DEF Answered
<1> QED
  BY <1>3, <1>4, <1>5, <1>6 DEF Consistent

LEMMA EndsConsistent ==
    ASSUME Consistent, Conclude \/ Surface \/ GiveUp
    PROVE  Consistent'
<1>0. TypeOK /\ Handled /\ Diagnosed /\ Answered
  BY DEF Consistent
<1> DEFINE t == handling.task
<1>1. /\ UNCHANGED <<known, wire, peer, pknown, paused, peered, crashes>>
      /\ handling' = Free /\ handling # Free /\ t \in TaskId
  BY <1>0, EndsStep DEF Handled, theirs, steady
<1>2. PICK state \in Peer!State \ {"WORKING"}, remote \in PeerTaskId \cup {None} :
         /\ tasks' = [tasks EXCEPT ![t] = [state |-> state, remote |-> remote]]
         /\ \/ remote = None /\ (In("peer") => state = "FAILED")
            \/ /\ In("peer") /\ handling.answer # None
               /\ remote = handling.remote
               /\ state = Surfaced(handling.answer)
  BY <1>0, EndsStep DEF Handled
<1>3. tasks[t] = NewTask /\ t \in known
  BY <1>0, <1>1, States DEF Handled, HandledIsWorking, NewTask
<1>4. /\ tasks'[t] = [state |-> state, remote |-> remote]
      /\ \A u \in TaskId \ {t} : tasks'[u] = tasks[u]
  BY <1>0, <1>1, <1>2 DEF TypeOK
<1>5. TypeOK'
  <2>1. tasks' \in [TaskId -> Task \cup {None}]
    BY <1>0, <1>2, States DEF TypeOK
  <2> QED
    BY <1>0, <1>1, <2>1 DEF TypeOK
<1>6. Handled'
  BY <1>0, <1>1, <1>3, <1>4 DEF Handled, HandledIsWorking, UnknownIsFresh
<1>7. Diagnosed' /\ ~In("peer")'
  BY <1>1 DEF Diagnosed, NotYetDelegated, GatheredSignals, DiagnosisIsRuled, In, Free
<1>8. Answered'
  <2>1. AnswerIsPeers' /\ AnswerIsPrompt'
    BY <1>0, <1>1, <1>7 DEF Answered, AnswerIsPeers, AnswerIsPrompt
  <2>2. remote # None =>
           /\ remote \in pknown
           /\ state = "COMPLETED" => peer[remote] \in {"COMPLETED", None}
           /\ state = "AUTH_REQUIRED" => remote \in paused
    BY <1>0, <1>2 DEF Answered, AnswerIsPeers, Surfaced
  <2>3. RemoteIsKnown' /\ PeerSurfaced'
    BY <1>0, <1>1, <1>4, <2>2 DEF Answered, RemoteIsKnown, PeerSurfaced
  <2>4. wire[t] # None => In("peer") /\ state = "FAILED"
    <3>1. wire[t] # None => In("peer")
      BY <1>0, <1>1, <1>3, States DEF Answered, LateOnlyWhenFailed, NewTask
    <3>2. In("peer") /\ handling.answer # None => wire[t] = None
      BY <1>0 DEF Answered, AnswerIsPeers
    <3> QED
      BY <1>2, <3>1, <3>2
  <2>5. LateOnlyWhenFailed'
    BY <1>0, <1>1, <1>4, <2>4 DEF Answered, LateOnlyWhenFailed
  <2> QED
    BY <2>1, <2>3, <2>5 DEF Answered
<1> QED
  BY <1>5, <1>6, <1>7, <1>8 DEF Consistent

LEMMA PeersConsistent ==
    ASSUME Consistent, Peers
    PROVE  Consistent'
<1>0. TypeOK /\ Handled /\ Diagnosed /\ Answered
  BY DEF Consistent
<1>1. CASE (\E t \in TaskId, p \in PeerTaskId : PeerReads(t, p)) \/ PeerWorks
  <2>1. /\ UNCHANGED <<tasks, known, peered, crashes>>
        /\ peer' \in [PeerTaskId -> Peer!State \cup {None}]
        /\ pknown \subseteq pknown' /\ pknown' \subseteq PeerTaskId
        /\ \A q \in PeerTaskId \ pknown' : peer'[q] = None
        /\ \A q \in pknown : peer[q] = None => peer'[q] = None
        /\ \A q \in PeerTaskId : peer[q] = "COMPLETED" => peer'[q] = "COMPLETED"
        /\ paused' = paused \cup {p \in PeerTaskId : peer'[p] = "AUTH_REQUIRED"}
        /\ DOMAIN wire' = TaskId
        /\ \A t \in TaskId : wire'[t] \in {wire[t], None}
        /\ ~In("peer") => handling' = handling
        /\ In("peer") =>
              /\ handling' \in Frame(handling'.signals)
              /\ handling'.phase = "peer" /\ handling'.task = handling.task
              /\ handling'.remote = handling.remote
                 \/ /\ handling.remote = None /\ handling.answer = None
                    /\ handling'.remote \in pknown'
                    /\ wire'[handling.task] = None
              /\ handling'.answer =
                    IF /\ handling.answer = None /\ handling'.remote # None
                       /\ peer'[handling'.remote] \notin {None, "WORKING"}
                    THEN peer'[handling'.remote] ELSE handling.answer
    BY <1>0, <1>1, PeerStep DEF Handled, Answered
  <2>2. pknown \subseteq PeerTaskId /\ paused \subseteq pknown
        /\ None \notin PeerTaskId /\ None # "AUTH_REQUIRED"
    BY <1>0, CallerAssumption, States DEF TypeOK
  <2>3. In("peer")' = In("peer") /\ (handling' = Free) = (handling = Free)
        /\ (handling # Free => handling'.task = handling.task)
    BY <2>1 DEF In, Free
  <2>4. TypeOK'
    <3>1. handling' # Free => handling' \in Frame(handling'.signals)
      BY <1>0, <2>1 DEF TypeOK
    <3>2. \A t \in TaskId : wire'[t] # None =>
             /\ wire'[t].failure_mode \in FailureMode
             /\ \E alert \in Alert : /\ wire'[t].service = alert.service
                                    /\ wire'[t].episode_id = EpisodeOf(t, alert)
      BY <1>0, <2>1 DEF TypeOK
    <3>3. paused' \subseteq pknown'
      BY <2>1, <2>2
    <3> QED
      BY <1>0, <2>1, <3>1, <3>2, <3>3 DEF TypeOK
  <2>5. Handled'
    BY <1>0, <2>1, <2>3 DEF Handled, HandledIsWorking, UnknownIsFresh
  <2>6. Diagnosed'
    <3>1. CASE ~In("peer")
      BY <1>0, <2>1, <3>1
      DEF Diagnosed, NotYetDelegated, GatheredSignals, DiagnosisIsRuled, Found, In
    <3>2. CASE In("peer")
      BY <2>1, <3>2
      DEF Diagnosed, NotYetDelegated, GatheredSignals, DiagnosisIsRuled, In
    <3> QED
      BY <3>1, <3>2
  <2>7. Answered'
    <3>1. AnswerIsPeers'
      <4> SUFFICES ASSUME In("peer") PROVE AnswerIsPeers'
        BY <2>3 DEF AnswerIsPeers
      <4>1. handling.task \in TaskId /\ handling.remote \in PeerTaskId \cup {None}
        BY <1>0, InFrame, FrameFields
      <4>2. handling'.remote # None =>
               handling'.remote \in pknown' /\ wire'[handling'.task] = None
        BY <1>0, <2>1, <4>1 DEF Answered, AnswerIsPeers
      <4>3. CASE handling.answer # None
        <5>1. handling'.answer = handling.answer
          BY <2>1, <4>3
        <5>2. handling'.remote = handling.remote /\ handling.remote # None
              /\ handling.remote \in pknown
          BY <1>0, <2>1, <4>3 DEF Answered, AnswerIsPeers
        <5>3. /\ handling.answer = "COMPLETED" => peer[handling.remote] \in {"COMPLETED", None}
              /\ handling.answer = "AUTH_REQUIRED" => handling.remote \in paused
          BY <1>0, <4>3 DEF Answered, AnswerIsPeers
        <5> QED
          BY <2>1, <2>2, <4>2, <5>1, <5>2, <5>3 DEF AnswerIsPeers
      <4>4. CASE handling.answer = None
        <5>1. handling'.answer # None =>
                 handling'.remote # None /\ handling'.answer = peer'[handling'.remote]
          BY <2>1, <4>4
        <5>2. handling'.remote # None => handling'.remote \in PeerTaskId
          BY <2>1, <4>2
        <5> QED
          BY <2>1, <4>2, <5>1, <5>2 DEF AnswerIsPeers
      <4> QED
        BY <4>3, <4>4
    <3>2. AnswerIsPrompt'
      <4>1. \A p \in PeerTaskId : peer'[p] = "AUTH_REQUIRED" => p \in paused'
        BY <2>1
      <4>2. In("peer")' => (handling'.answer = None /\ handling'.remote # None =>
               peer'[handling'.remote] \in {None, "WORKING"})
        BY <2>1, <2>3
      <4> QED
        BY <4>1, <4>2 DEF AnswerIsPrompt
    <3>3. RemoteIsKnown' /\ PeerSurfaced'
      BY <1>0, <2>1, <2>2 DEF Answered, RemoteIsKnown, PeerSurfaced
    <3>4. LateOnlyWhenFailed'
      <4>1. \A t \in TaskId : wire'[t] # None => wire[t] # None
        BY <2>1
      <4>2. In("peer") => handling # Free
        BY DEF In, Free
      <4> QED
        BY <1>0, <2>1, <2>3, <4>1, <4>2 DEF Answered, LateOnlyWhenFailed
    <3> QED
      BY <3>1, <3>2, <3>3, <3>4 DEF Answered
  <2> QED
    BY <2>4, <2>5, <2>6, <2>7 DEF Consistent
<1>2. ASSUME UNCHANGED <<tasks, handling, known, pknown, paused, peered>>,
             crashes' \in 0..MaxCrashes, DOMAIN wire' = TaskId,
             \A t \in TaskId : wire'[t] \in {wire[t], None},
             peer' \in {peer, [p \in PeerTaskId |-> None]}
      PROVE  Consistent'
  <2>1. \A p \in PeerTaskId : peer'[p] \in {peer[p], None}
    BY <1>2
  <2>2. TypeOK'
    BY <1>0, <1>2 DEF TypeOK
  <2>3. Handled'
    BY <1>0, <1>2, <2>1 DEF Handled, HandledIsWorking, UnknownIsFresh
  <2>4. Diagnosed'
    BY <1>0, <1>2
    DEF Diagnosed, NotYetDelegated, GatheredSignals, DiagnosisIsRuled, Found, In
  <2>5. AnswerIsPeers'
    <3> SUFFICES ASSUME In("peer") PROVE AnswerIsPeers'
      BY <1>2 DEF AnswerIsPeers, In
    <3>1. handling.task \in TaskId /\ handling.remote \in PeerTaskId \cup {None}
      BY <1>0, InFrame, FrameFields
    <3> QED
      BY <1>0, <1>2, <2>1, <3>1 DEF Answered, AnswerIsPeers
  <2>6. AnswerIsPrompt'
    <3>1. In("peer") => handling.remote \in PeerTaskId \cup {None}
      BY <1>0, InFrame, FrameFields
    <3> QED
      BY <1>0, <1>2, <2>1, <3>1, States DEF Answered, AnswerIsPrompt, In
  <2>7. RemoteIsKnown' /\ PeerSurfaced'
    <3>1. pknown \subseteq PeerTaskId
      BY <1>0 DEF TypeOK
    <3> QED
      BY <1>0, <1>2, <2>1, <3>1 DEF Answered, RemoteIsKnown, PeerSurfaced
  <2>8. LateOnlyWhenFailed'
    BY <1>0, <1>2 DEF Answered, LateOnlyWhenFailed, In
  <2> QED
    BY <2>2, <2>3, <2>4, <2>5, <2>6, <2>7, <2>8 DEF Consistent, Answered
<1>3. ASSUME NEW t \in TaskId, Drop(t)
      PROVE  Consistent'
  <2>1. DOMAIN wire = TaskId /\ crashes \in 0..MaxCrashes
    BY <1>0 DEF TypeOK
  <2> QED
    BY <1>2, <1>3, <2>1 DEF Drop, steady
<1>4. CASE PeerRestarts
  <2>1. crashes' \in 0..MaxCrashes
    BY <1>0, <1>4, CallerAssumption DEF PeerRestarts, TypeOK
  <2> QED
    BY <1>2, <1>4, <2>1 DEF PeerRestarts, Peer!Forget
<1> QED
  BY <1>1, <1>3, <1>4 DEF Peers

LEMMA RestartConsistent ==
    ASSUME Consistent, AgentRestarts
    PROVE  Consistent'
<1>0. TypeOK /\ Handled /\ Diagnosed /\ Answered
  BY DEF Consistent
<1>1. /\ tasks' = [t \in TaskId |-> None] /\ handling' = Free
      /\ UNCHANGED <<known, wire, peer, pknown, paused, peered>>
      /\ crashes' = crashes + 1 /\ crashes < MaxCrashes
  BY DEF AgentRestarts, theirs
<1>2. TypeOK'
  BY <1>0, <1>1, CallerAssumption DEF TypeOK
<1>3. Handled'
  BY <1>0, <1>1 DEF Handled, HandledIsWorking, UnknownIsFresh
<1>4. Diagnosed' /\ ~In("peer")'
  BY <1>1 DEF Diagnosed, NotYetDelegated, GatheredSignals, DiagnosisIsRuled, In, Free
<1>5. Answered'
  BY <1>0, <1>1, <1>4 DEF Answered, AnswerIsPeers, AnswerIsPrompt, RemoteIsKnown,
    PeerSurfaced, LateOnlyWhenFailed
<1> QED
  BY <1>2, <1>3, <1>4, <1>5 DEF Consistent

LEMMA StepConsistent == Consistent /\ [Next]_vars => Consistent'
<1> SUFFICES ASSUME Consistent, [Next]_vars PROVE Consistent'
  OBVIOUS
<1>1. CASE \E t \in TaskId : Message(t)
  BY <1>1, MessageConsistent
<1>2. CASE Handler
  BY <1>2, ThinksConsistent, DelegateConsistent, EndsConsistent DEF Handler
<1>3. CASE Peers
  BY <1>3, PeersConsistent
<1>4. CASE AgentRestarts
  BY <1>4, RestartConsistent
<1>5. CASE UNCHANGED vars
  BY <1>5 DEF vars, Consistent, TypeOK, Handled, HandledIsWorking, UnknownIsFresh,
    Diagnosed, NotYetDelegated, GatheredSignals, DiagnosisIsRuled, Found, Answered,
    AnswerIsPeers, AnswerIsPrompt, RemoteIsKnown, PeerSurfaced, LateOnlyWhenFailed, In
<1> QED
  BY <1>1, <1>2, <1>3, <1>4, <1>5 DEF Next

LEMMA ConsistentInvariant == Spec => []Consistent
<1>1. Init => Consistent
  BY StartsConsistent
<1>2. Consistent /\ [Next]_vars => Consistent'
  BY StepConsistent
<1> QED
  BY <1>1, <1>2, PTL DEF Spec

----------------------------------------------------------------------------
\* The theorems.

\* _gather, _diagnose and handle keep the types of the store, the frame and
\* the messages under way.
THEOREM TriageTypeCorrect == Spec => []TypeOK
<1>1. Consistent => TypeOK
  BY DEF Consistent
<1> QED
  BY <1>1, ConsistentInvariant, PTL

\* A diagnosis, held against the evidence it was made on.
LEMMA DiagnosisStands ==
    ASSUME Consistent, In("act")
    PROVE  /\ \/ /\ handling.diagnosis.source = "rule"
                 /\ Found = Classify(handling.signals)
              \/ /\ handling.diagnosis.source = "model"
                 /\ Classify(handling.signals) = "unknown"
           /\ handling.gathered => \/ Observed(handling.signals)
                                   \/ Classify(handling.signals) = "blind"
<1>1. handling # Free /\ handling.phase = "act"
  BY InFrame DEF Consistent
<1>2. handling.gathered => Observed(handling.signals)
                           \/ DOMAIN handling.signals \subseteq {"logs"}
  BY <1>1 DEF Consistent, Diagnosed, GatheredSignals
<1> QED
  BY <1>2, BlindWithoutMetrics
  DEF Consistent, Diagnosed, DiagnosisIsRuled, IsAmbiguous

\* Triage.handle delegates nothing on evidence that is not there: not after a
\* _gather that failed, not on the model's word without the metrics, and an
\* OOM kill only as one - whatever a caller sends, a tool answers or the model
\* says.
THEOREM NoBlindDelegation == Spec => []NothingDelegatedBlind
<1>1. Consistent => NothingDelegatedBlind
  <2> SUFFICES ASSUME Consistent, Actionable
               PROVE  /\ handling.gathered \/ handling.diagnosis.source = "model"
                            => Observed(handling.signals)
                      /\ Get(handling.signals, "oom_killed") = TRUE
                            => Found = "memory_exhaustion"
    BY DEF NothingDelegatedBlind
  <2>1. /\ In("act") /\ Found \notin {"healthy", "unknown", "blind"}
        /\ "rule" # "model"
    BY DEF Actionable
  <2>2. handling.diagnosis.source = "model" => Observed(handling.signals)
    BY <2>1, DiagnosisStands, BlindBeforeHealthy
  <2>3. handling.gathered => Observed(handling.signals)
    BY <2>1, <2>2, DiagnosisStands
  <2>4. Get(handling.signals, "oom_killed") = TRUE => Found = "memory_exhaustion"
    BY <2>1, DiagnosisStands, OomFirst
  <2> QED
    BY <2>2, <2>3, <2>4
<1> QED
  BY <1>1, ConsistentInvariant, PTL

\* Triage.handle closes a task on the rules' word that all is well only after
\* every field a working sensor returns was read, and no OOM kill among them.
THEOREM HealthyIsRead == Spec => HealthyWasRead
<1>1. Consistent =>
         [ClosesHealthy => /\ Observed(handling.signals)
                           /\ Get(handling.signals, "oom_killed") # TRUE]_vars
  <2> SUFFICES ASSUME Consistent, ClosesHealthy
               PROVE  /\ Observed(handling.signals)
                      /\ Get(handling.signals, "oom_killed") # TRUE
    OBVIOUS
  <2>1. In("act") /\ handling.diagnosis = [failure_mode |-> "healthy", source |-> "rule"]
    BY DEF ClosesHealthy
  <2>2. Classify(handling.signals) = "healthy"
    BY <2>1, DiagnosisStands DEF Found
  <2>3. Observed(handling.signals)
    BY <2>2, BlindBeforeHealthy
  <2>4. Get(handling.signals, "oom_killed") # TRUE
    BY <2>2, OomFirst
  <2> QED
    BY <2>3, <2>4
<1> QED
  BY <1>1, ConsistentInvariant, PTL DEF HealthyWasRead

\* What Triage.handle passes on of the peer's task is true of it, whenever the
\* answer comes and however often either process restarts.
THEOREM PeerIsSurfaced == Spec => []PeerSurfaced
<1>1. Consistent => PeerSurfaced
  BY DEF Consistent, Answered
<1> QED
  BY <1>1, ConsistentInvariant, PTL

\* send_data can leave a delegation behind that is read later on only for a
\* task triage has reported as FAILED, or forgot.
THEOREM LateDelegationsFailed == Spec => []LateOnlyWhenFailed
<1>1. Consistent => LateOnlyWhenFailed
  BY DEF Consistent, Answered
<1> QED
  BY <1>1, ConsistentInvariant, PTL

----------------------------------------------------------------------------
\* The agent its callers see.

LEMMA LifeStep == Consistent /\ [Next]_vars => [Life!Next]_(Life!lifeVars)
<1> SUFFICES ASSUME Consistent, [Next]_vars
             PROVE  Life!Next \/ UNCHANGED Life!lifeVars
  OBVIOUS
<1> DEFINE life == [t \in TaskId |-> StateOf(t)]
<1>0. TypeOK /\ Handled /\ Diagnosed /\ LateOnlyWhenFailed
      /\ tasks \in [TaskId -> Task \cup {None}] /\ Life!State = Peer!State
  BY DEF Consistent, Answered, TypeOK, Life!State, Peer!State, Life!Terminal,
    Peer!Terminal, Life!Paused, Peer!Paused
<1>1. ASSUME NEW t \in TaskId, NEW state \in Peer!State, NEW remote \in PeerTaskId \cup {None},
             tasks' = [tasks EXCEPT ![t] = [state |-> state, remote |-> remote]]
      PROVE  life' = [life EXCEPT ![t] = state]
  <2>1. /\ tasks'[t] = [state |-> state, remote |-> remote] /\ tasks'[t] # None
        /\ \A u \in TaskId \ {t} : tasks'[u] = tasks[u]
    BY <1>0, <1>1, States
  <2>2. \A u \in TaskId : StateOf(u)' = IF u = t THEN state ELSE StateOf(u)
    BY <2>1 DEF StateOf
  <2> QED
    BY <2>2
<1>2. ASSUME NEW t \in TaskId, Message(t)
      PROVE  Life!Next
  <2>1. PICK state \in Peer!State :
           tasks' = [tasks EXCEPT ![t] = [state |-> state, remote |-> None]]
    BY <1>0, <1>2, MessageStep
  <2>2. known' = known \cup {t} /\ Addressed(t)
    BY <1>0, <1>2, MessageStep
  <2>3. life' = [life EXCEPT ![t] = state]
    BY <1>1, <2>1
  <2>4. \A u \in TaskId : life[u] # "WORKING"
    BY <1>0, <2>2, AddressedIsQuiet, States DEF StateOf
  <2>5. t \notin known \/ life[t] \in Life!Paused
    <3>1. CASE t \notin known
      BY <3>1
    <3>2. CASE t \in known
      <4>1. tasks[t] # None /\ tasks[t].state \notin Terminal
        BY <2>2, <3>2 DEF Addressed, Continues
      <4>2. tasks[t].state \in Peer!State
        BY <1>0, <4>1 DEF Task
      <4>3. life[t] = tasks[t].state
        BY <4>1 DEF StateOf
      <4> QED
        BY <2>4, <4>1, <4>2, <4>3 DEF Peer!State, Terminal, Peer!Paused, Life!Paused
    <3> QED
      BY <3>1, <3>2
  <2>6. Life!Message(t, state)
    BY <2>2, <2>3, <2>4, <2>5 DEF Life!Message, Life!Idle, Life!Becomes
  <2> QED
    BY <1>0, <2>6 DEF Life!Next
<1>3. CASE Conclude \/ Surface \/ GiveUp
  <2> DEFINE t == handling.task
  <2>1. handling # Free /\ t \in TaskId /\ known' = known
    BY <1>0, <1>3, EndsStep DEF Handled
  <2>2. PICK state \in Peer!State \ {"WORKING"}, remote \in PeerTaskId \cup {None} :
           tasks' = [tasks EXCEPT ![t] = [state |-> state, remote |-> remote]]
    BY <1>0, <1>3, EndsStep DEF Handled
  <2>3. life' = [life EXCEPT ![t] = state]
    BY <1>1, <2>1, <2>2
  <2>4. life[t] = "WORKING"
    BY <1>0, <2>1, States DEF Handled, HandledIsWorking, StateOf, NewTask
  <2>5. Life!Return(t, state)
    BY <2>1, <2>2, <2>3, <2>4 DEF Life!Return, Life!Becomes
  <2> QED
    BY <1>0, <2>1, <2>2, <2>5 DEF Life!Next
<1>4. CASE AgentRestarts
  <2>1. life' = [t \in TaskId |-> None] /\ known' = known
    BY <1>4 DEF AgentRestarts, StateOf
  <2> QED
    BY <2>1 DEF Life!Forget, Life!Next
<1>5. CASE UNCHANGED <<tasks, known>>
  BY <1>5 DEF Life!lifeVars, StateOf
<1>6. CASE ReadMetrics \/ ReadLogs \/ Diagnose \/ Delegate
  BY <1>0, <1>5, <1>6, ThinksStep, DelegateStep
<1>7. CASE Peers
  BY <1>0, <1>5, <1>7 DEF Peers, Drop, PeerReads, PeerWorks, PeerAnswers, PeerRestarts
<1>8. CASE UNCHANGED vars
  BY <1>5, <1>8 DEF vars
<1> QED
  BY <1>2, <1>3, <1>4, <1>6, <1>7, <1>8 DEF Next, Handler

\* The triage agent implements TaskLife, the promise it takes its own peer to
\* keep: its callers see one task at a time at work, tasks that are over stay
\* over, an id handed out once.
THEOREM TriageImplementsTaskLife == Spec => TriageLivesByTheBook
<1>1. Init => Life!Init
  BY DEF Init, Life!Init, StateOf
<1>2. Consistent /\ [Next]_vars => [Life!Next]_(Life!lifeVars)
  BY LifeStep
<1> QED
  BY <1>1, <1>2, ConsistentInvariant, PTL DEF Spec, TriageLivesByTheBook, Life!Spec
=============================================================================
