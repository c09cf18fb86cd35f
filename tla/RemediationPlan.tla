-------------------------- MODULE RemediationPlan --------------------------
(***************************************************************************)
(* How agents/remediation/agent.py turns a diagnosis into one tool call:   *)
(* the candidate for the failure mode, the parameters computed in code,    *)
(* and the checks a model's answer must pass.  Pure; the task the plan     *)
(* belongs to is in Remediation, the container it acts on in MemoryLimits. *)
(***************************************************************************)
EXTENDS Integers

CONSTANTS
    None,            \* Python's None
    Service,         \* service names callers use
    Volume,          \* docker volumes
    ManagedVolumes,  \* MANAGED_VOLUMES: a service's volume, or None
    Mb               \* 1_048_576: bytes in a megabyte

ASSUME VolumeAssumption ==
    /\ ManagedVolumes \in [Service -> Volume \cup {None}]
    /\ None \notin Volume

ASSUME MbAssumption == Mb \in Nat \ {0}

FailureMode == {"memory_exhaustion", "crash_loop", "disk_pressure",
                "latency_degradation", "config_drift", "healthy", "unknown",
                "blind"}

AllowedTools == {"restart_service", "scale_memory", "drop_volume"}

CandidateTool == [memory_exhaustion   |-> "scale_memory",
                  crash_loop          |-> "restart_service",
                  latency_degradation |-> "restart_service",
                  config_drift        |-> "restart_service",
                  disk_pressure       |-> "drop_volume"]

MemoryDefaultMb == 512
HeadroomFactor == 2

MemoryMinMb == 64
MemoryMaxMb == 4096

\* max(MEMORY_MIN_MB, min(mb, MEMORY_MAX_MB))
Clamp(mb) ==
    IF mb < MemoryMinMb THEN MemoryMinMb ELSE IF mb > MemoryMaxMb THEN MemoryMaxMb ELSE mb

\* Mutant of TargetMb: the limit asked for is the limit there is.
TargetMbSame(memory_limit_bytes) ==
    Clamp(IF memory_limit_bytes # 0 THEN memory_limit_bytes \div Mb
                                    ELSE MemoryDefaultMb)

\* The limit scale_memory is called with; no limit, or none known, is 0 bytes.
TargetMb(memory_limit_bytes) ==
    Clamp(HeadroomFactor *
          (IF memory_limit_bytes # 0 THEN memory_limit_bytes \div Mb
                                     ELSE MemoryDefaultMb))

\* derive_arguments raises PlanRejected rather than name a volume.
Derivable(tool, service) ==
    tool = "drop_volume" => ManagedVolumes[service] # None

\* The parameters by name, None for the ones a tool is not called with.
DeriveArguments(tool, service, memory_limit_bytes) ==
    [service  |-> service,
     limit_mb |-> IF tool = "scale_memory" THEN TargetMb(memory_limit_bytes)
                                           ELSE None,
     volume   |-> IF tool = "drop_volume" THEN ManagedVolumes[service] ELSE None]

\* What the model answers: a tool, a service, and a rationale that is there
\* or blank.
Answer == [tool: AllowedTools \cup {None}, service: Service \cup {None},
           rationale: BOOLEAN]

\* _validate_plan: everything it raises PlanRejected for.
ValidatePlan(answer, expected_service) ==
    /\ answer.tool \in AllowedTools
    /\ answer.service = expected_service
    /\ answer.rationale

\* Mutant of Plan: the tool is the one the model answered with.
PlanUnpinned(answer, candidate, service, memory_limit_bytes) ==
    [tool |-> answer.tool,
     arguments |-> DeriveArguments(answer.tool, service, memory_limit_bytes),
     dissent |-> answer.tool # candidate]

\* The plan that survives: the candidate is pinned, another opinion noted.
Plan(answer, candidate, service, memory_limit_bytes) ==
    [tool |-> candidate,
     arguments |-> DeriveArguments(candidate, service, memory_limit_bytes),
     dissent |-> answer.tool # candidate]

\* The parameters a handler of mcp_server/ops_tools.py has.
Parameters == [restart_service |-> {"service"},
               scale_memory    |-> {"service", "limit_mb"},
               restore_memory  |-> {"service", "limit_mb"},
               drop_volume     |-> {"volume"}]

\* handler(**arguments) does not raise TypeError.
Accepted(tool, arguments) ==
    {p \in DOMAIN arguments : arguments[p] # None} = Parameters[tool]
=============================================================================
