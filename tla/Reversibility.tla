--------------------------- MODULE Reversibility ---------------------------
(***************************************************************************)
(* policy/reversibility.py and the checks mcp_server/registry.py makes at  *)
(* start-up: what a tool declares about its own risk, what that costs, and *)
(* the ruling of the gate for one call.  Everything here is a pure         *)
(* function of constants and of what the incident has already spent; the   *)
(* state that carries it (one EpisodeBudget per incident) belongs to       *)
(* OpsToolService.                                                         *)
(***************************************************************************)
EXTENDS Integers

CONSTANTS
    Tool,           \* names in the ToolRegistry
    None,           \* Python's None
    Risk,           \* ToolSpec.risk and ToolSpec.read_only of every tool
    AutoCeiling,    \* ReversibilityGate._auto_ceiling
    EpisodeCeiling  \* ReversibilityGate._episode_ceiling

Reversibility == {"reversible", "compensable", "irreversible"}
InfraScope == {"container", "service", "node", "cluster"}
Scope == InfraScope \cup {"data"}
Decision == {"auto_apply", "apply_with_rollback", "require_human"}

RiskDeclaration == [reversibility: Reversibility,
                    scope: Scope,
                    n_targets: Nat,
                    rollback_tool: Tool \cup {None},
                    read_only: BOOLEAN]

ASSUME RiskAssumption == Risk \in [Tool -> RiskDeclaration]

ASSUME NoneAssumption == None \notin Tool

ASSUME CeilingAssumption == AutoCeiling \in Nat /\ EpisodeCeiling \in Nat

\* ToolRisk.__post_init__: an inverse is named exactly by compensable tools.
HonestDeclaration(t) ==
    (Risk[t].rollback_tool # None) <=> (Risk[t].reversibility = "compensable")

\* ToolRegistry.validate for one tool; "the inverse is registered" is the
\* type of rollback_tool, since Tool is the set of registered names.
ValidSpec(t) == Risk[t].read_only => Risk[t].reversibility = "reversible"

\* A registry that breaks these never gets past the server's start.
ASSUME RegistryAssumption ==
    \A t \in Tool : HonestDeclaration(t) /\ ValidSpec(t)

----------------------------------------------------------------------------
InfraWeight == [container |-> 1, service |-> 4, node |-> 16, cluster |-> 64]

AtLeastOne(n) == IF n > 1 THEN n ELSE 1

\* BlastRadius.weight: data is priced like a cluster, and ruled on apart.
Weight(t) ==
    InfraWeight[IF Risk[t].scope = "data" THEN "cluster" ELSE Risk[t].scope]
        * AtLeastOne(Risk[t].n_targets)

\* Mutant of WouldExceed: the cost of the call itself is left out.
WouldExceedSoFar(spent, cost) == spent > EpisodeCeiling

\* EpisodeBudget.would_exceed
WouldExceed(spent, cost) == spent + cost > EpisodeCeiling

\* Mutant of Charged: the call is not charged.
ChargedNothing(spent, cost) == spent

\* EpisodeBudget.charge, the part that is a number.
Charged(spent, cost) == spent + cost

\* The first two rules of the gate: no threshold can buy these.
Categorical(t) ==
    \/ Risk[t].scope = "data" /\ Risk[t].reversibility # "reversible"
    \/ Risk[t].reversibility = "irreversible"

\* Mutant of NeedsHuman: data is priced, and not ruled on apart.
NeedsHumanInfraOnly(t, spent) ==
    \/ Risk[t].reversibility = "irreversible"
    \/ WouldExceed(spent, Weight(t))
    \/ Weight(t) > AutoCeiling

NeedsHuman(t, spent) ==
    \/ Categorical(t)
    \/ WouldExceed(spent, Weight(t))
    \/ Weight(t) > AutoCeiling

\* ReversibilityGate.rule.  Decision.DENY exists and is never returned.
Rule(t, spent) ==
    IF NeedsHuman(t, spent) THEN "require_human"
    ELSE IF Risk[t].reversibility = "compensable" THEN "apply_with_rollback"
    ELSE "auto_apply"
=============================================================================
