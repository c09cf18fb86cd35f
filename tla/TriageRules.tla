---------------------------- MODULE TriageRules ----------------------------
(***************************************************************************)
(* agents/triage/rules.py: what arithmetic settles about an incident.      *)
(* Signals are what a Python dict is, a function on the fields it has.     *)
(* Percentages are whole numbers; what a rule writes down as evidence is   *)
(* left out.                                                               *)
(***************************************************************************)
EXTENDS Integers, Sequences

CONSTANTS
    None,        \* Python's None
    Unreadable   \* a percentage that is no number: '' or docker's '--'

ASSUME ReadingAssumption ==
    /\ None \notin Int /\ Unreadable \notin Int
    /\ None # TRUE

OomMemoryPercent == 95
CrashLoopRestarts == 5
DiskPressurePercent == 90
LatencyP99Ms == 2000
SensorGuaranteedFields == {"restart_count", "memory_percent"}

\* signals.get(field)
Get(signals, field) == IF field \in DOMAIN signals THEN signals[field] ELSE None

\* _percent: what is missing, blank or no number counts as 0.
Percent(raw) == IF raw \in {None, Unreadable} THEN 0 ELSE raw

\* int(raw or 0), float(raw or 0.0)
Number(raw) == IF raw = None THEN 0 ELSE raw

\* Every field a working get_metrics returns is there.
Observed(signals) == SensorGuaranteedFields \subseteq DOMAIN signals

\* Which rules hold of the signals, whatever comes before them.
Holds(signals) ==
    LET oom == Get(signals, "oom_killed") = TRUE
        mem_pct == Percent(Get(signals, "memory_percent"))
        restarts == Number(Get(signals, "restart_count"))
        disk_pct == Percent(Get(signals, "disk_percent"))
        p99 == Number(Get(signals, "p99_latency_ms"))
        exit_code == Number(Get(signals, "exit_code"))
        config_changed == Get(signals, "config_changed_recently") = TRUE
    IN  [memory_exhaustion   |-> oom \/ mem_pct >= OomMemoryPercent,
         disk_pressure       |-> disk_pct >= DiskPressurePercent,
         crash_loop          |-> restarts >= CrashLoopRestarts /\ exit_code # 0,
         latency_degradation |-> p99 >= LatencyP99Ms /\ restarts = 0,
         config_drift        |-> config_changed
                                     /\ (restarts > 0 \/ p99 >= LatencyP99Ms),
         blind               |-> ~Observed(signals),
         healthy             |-> /\ restarts = 0 /\ p99 < LatencyP99Ms
                                 /\ mem_pct < 80 /\ disk_pct < 80,
         unknown             |-> TRUE]

\* Mutant of Precedence: nominal readings before missing ones.
PrecedenceHealthyFirst ==
    <<"memory_exhaustion", "disk_pressure", "crash_loop", "latency_degradation",
      "config_drift", "healthy", "blind", "unknown">>

\* The order of the rules in the source.
Precedence ==
    <<"memory_exhaustion", "disk_pressure", "crash_loop", "latency_degradation",
      "config_drift", "blind", "healthy", "unknown">>

\* classify: the first rule that holds.
Classify(signals) ==
    Precedence[CHOOSE i \in DOMAIN Precedence :
        /\ Holds(signals)[Precedence[i]]
        /\ \A j \in 1..(i - 1) : ~Holds(signals)[Precedence[j]]]

\* Mutant of IsAmbiguous: the model is asked about a sensor that is down.
IsAmbiguousOrBlind(failure_mode) == failure_mode \in {"unknown", "blind"}

\* Diagnosis.is_ambiguous: the model is asked.
IsAmbiguous(failure_mode) == failure_mode = "unknown"
=============================================================================
