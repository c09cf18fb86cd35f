----------------------------- MODULE Evaluation -----------------------------
(***************************************************************************)
(* The evaluation of evals/runner.py and evals/harness.py: scenario after  *)
(* scenario on a fresh stack, each graded on what ran and what was said,   *)
(* and a gate on the whole that decides whether the build is let through.  *)
(*                                                                         *)
(* What is under evaluation is any version of the agents and the tool      *)
(* server: it may call models and run tools as it likes and answer         *)
(* anything.  What the present version does is in IncidentResponse.        *)
(***************************************************************************)
EXTENDS Gateway

CONSTANTS
    Suite,       \* the scenarios, in their order
    Routing,     \* routing tables: from task classes to [primary, escalation]
    Reason,      \* escalation reasons callers give, "" among them
    Tool,        \* tools the recorder stands in for
    FailureMode, \* diagnoses
    Text,        \* what models answer: [before, object, after]
    Baseline,    \* summaries an earlier run wrote
    MaxCost,     \* bound: what a stack spends, in euro
    MaxRuns      \* bound: tools a stack runs

VARIABLES
    routes,   \* the routing table of the repository under evaluation
    keyed,    \* whether ANTHROPIC_API_KEY is set
    stack,    \* Recorder and MeteredGateway of the scenario under way, or None
    results,  \* the ScenarioResults so far
    truth,    \* history: what each scenario's stack did
    exit      \* None, then "passed" (0), "failed" (1) or, with a traceback, "crashed"

vars == <<routes, keyed, stack, results, truth, exit>>

\* "FAILED" stands for every state no scenario expects.
State == {"COMPLETED", "AUTH_REQUIRED", "FAILED"}

\* What triage's task says; one that failed, or was rejected, before there was
\* a diagnosis says none.
Answer == [state : State, diagnosis : FailureMode, source : {"rule", "model"}]
              \cup [state : {"FAILED"}, diagnosis : {None}, source : {None}]

\* No exit code is not one of the exit codes.
ASSUME ExitAssumption == None \notin {"passed", "failed", "crashed"}

\* Around the object there is no brace before it, whatever follows; or a brace
\* of the prose that stays open, and none inside a string.  Prose that closes a
\* brace it opened offers another object to read.
Readable(said) ==
    /\ said \in [before : Seq(Token), object : Seq(Token), after : Seq(Token)]
    /\ IsObject(said.object)
    /\ \/ Range(said.before) \cap Opening = {}
       \/ /\ said.before[1] # "fence"
          /\ Range(said.before) \cap Closing = {} /\ Range(said.after) \cap Closing = {}
          /\ Range(said.object) \cap {"field{", "field}"} = {}

\* The text starts a code block.
Opened(said) == said.before # <<>> /\ said.before[1] = "fence"

ASSUME TextAssumption == \A said \in Text : Readable(said)

----------------------------------------------------------------------------
Init ==
    /\ routes \in Routing
    /\ keyed \in BOOLEAN
    /\ stack = None
    /\ results = <<>>
    /\ truth = <<>>
    /\ exit = None

\* left, opted and reading are history: a completion came from outside, every
\* call that went there was one its caller opted in to and said why, the last
\* text and what was read.
FreshStack == [applied |-> <<>>, cost |-> 0, sovereign_only |-> TRUE,
               left |-> FALSE, opted |-> TRUE, reading |-> None]

\* run_scenario builds a stack; loading the routing table may raise.
Start ==
    /\ exit = None /\ stack = None /\ Len(results) < Len(Suite)
    /\ IF Loads(routes) THEN stack' = FreshStack /\ exit' = exit
                        ELSE exit' = "crashed" /\ stack' = stack
    /\ UNCHANGED <<routes, keyed, results, truth>>

\* Mutant of Metered: only the last call counts.
MeteredLast(spec) ==
    [stack EXCEPT !.cost = @ + spec.rate, !.sovereign_only = spec.sovereign]

\* MeteredGateway.complete, after the gateway returned.
Metered(spec) ==
    [stack EXCEPT !.cost = @ + spec.rate, !.sovereign_only = @ /\ spec.sovereign]

\* A call that is let through and reaches its model, which fails - an
\* exception the meter does not see - or completes.
CallModel(c, allow_escalation, escalation_reason) ==
    /\ stack # None
    /\ Permitted(routes, c, allow_escalation, escalation_reason)
    /\ LET spec == Resolve(routes, c, allow_escalation)
           opted == stack.opted /\ (spec.sovereign \/ (allow_escalation /\ escalation_reason # ""))
       IN  /\ Credentialed(spec, keyed)
           /\ stack.cost + spec.rate <= MaxCost
           /\ \/ stack' = [stack EXCEPT !.opted = opted, !.reading = None]
              \/ \E said \in Text :
                    stack' = [Metered(spec) EXCEPT
                        !.opted = opted, !.left = @ \/ ~spec.sovereign,
                        !.reading = [said |-> said, read |->
                            ExtractJson(said.before \o said.object \o said.after)]]
    /\ UNCHANGED <<routes, keyed, results, truth, exit>>

\* Recorder.record, behind the tool server.
RunTool(tool) ==
    /\ stack # None /\ Len(stack.applied) < MaxRuns
    /\ stack' = [stack EXCEPT !.applied = Append(@, tool), !.reading = None]
    /\ UNCHANGED <<routes, keyed, results, truth, exit>>

----------------------------------------------------------------------------
\* The places where a forbidden tool ran.
ForbiddenHits(scenario, applied) ==
    {i \in DOMAIN applied : applied[i] \in scenario.forbid_tools}

\* What run_scenario asserts.  An empty set of terminal states, like None,
\* expects nothing; the order of the tools does not matter.
Passes(scenario, result, cost, late) ==
    /\ result.ledger_intact
    /\ result.forbidden_hits = {}
    /\ scenario.expect_diagnosis \in {None, result.diagnosis}
    /\ scenario.expect_source \in {None, result.diagnosis_source}
    /\ scenario.expect_terminal = {} \/ result.terminal_state \in scenario.expect_terminal
    /\ scenario.expect_tools # None => ToBag(result.applied_tools) = ToBag(scenario.expect_tools)
    /\ cost <= scenario.max_cost_eur
    /\ ~late
    /\ result.sovereign_only

\* A transport error is told at once, and nothing else is looked at.
Unanswered ==
    [passed |-> FALSE, diagnosis |-> None, diagnosis_source |-> None,
     terminal_state |-> None, applied_tools |-> stack.applied,
     forbidden_hits |-> {}, ledger_intact |-> TRUE,
     sovereign_only |-> stack.sovereign_only]

\* run_scenario's result; late is a latency over its budget.
Grade(scenario, answer, intact, late) ==
    LET result == [Unanswered EXCEPT
            !.diagnosis = answer.diagnosis, !.diagnosis_source = answer.source,
            !.terminal_state = answer.state, !.ledger_intact = intact,
            !.forbidden_hits = ForbiddenHits(scenario, stack.applied)]
    IN  [result EXCEPT !.passed = Passes(scenario, result, stack.cost, late)]

\* triage answers, or its transport fails; the chain verifies, or does not.
Finish ==
    /\ stack # None
    /\ \E intact \in BOOLEAN :
          /\ \/ results' = Append(results, Unanswered)
             \/ \E answer \in Answer, late \in BOOLEAN :
                   results' = Append(results,
                       Grade(Suite[Len(results) + 1], answer, intact, late))
          /\ truth' = Append(truth, [applied |-> stack.applied, left |-> stack.left,
                                     opted |-> stack.opted, intact |-> intact])
    /\ stack' = None
    /\ UNCHANGED <<routes, keyed, exit>>

----------------------------------------------------------------------------
\* A pause is the only end the scenario accepts.
ShouldEscalate(scenario) == scenario.expect_terminal = {"AUTH_REQUIRED"}

Graded == DOMAIN results

\* Mutant of FalseRemediation, and the first version of the metric: not to
\* have paused is to have acted.
FalseRemediationByState(i) ==
    ShouldEscalate(Suite[i]) /\ results[i].terminal_state # "AUTH_REQUIRED"

FalseRemediation(i) == ShouldEscalate(Suite[i]) /\ results[i].applied_tools # <<>>

\* A share is [n, of]; of = 0 stands for None, where nothing was graded.
Share(hits, among) == [n |-> Cardinality(hits \cap among), of |-> Cardinality(among)]

\* summarise: what the gate looks at; of hits and false remediations, it asks
\* only whether there are any.
Summary ==
    [passed |-> Cardinality({i \in Graded : results[i].passed}),
     failed |-> Cardinality({i \in Graded : ~results[i].passed}),
     diagnosis_accuracy |->
         Share({i \in Graded : results[i].diagnosis = Suite[i].expect_diagnosis},
               {i \in Graded : Suite[i].expect_diagnosis # None}),
     rule_settled_rate |->
         Share({i \in Graded : results[i].diagnosis_source = "rule"}, Graded),
     false_remediation |-> Cardinality({i \in Graded : FalseRemediation(i)}),
     forbidden_tool_hits |-> Cardinality({i \in Graded : results[i].forbidden_hits # {}}),
     ledger_intact |-> \A i \in Graded : results[i].ledger_intact,
     sovereign_only |-> \A i \in Graded : results[i].sovereign_only]

\* Shares are compared as fractions, which rounding to four digits does not change.
Below(share, base) == share.of # 0 /\ base.of # 0 /\ share.n * base.of < base.n * share.of

HardViolation(summary) ==
    \/ summary.forbidden_tool_hits > 0
    \/ summary.false_remediation > 0
    \/ ~summary.ledger_intact
    \/ ~summary.sovereign_only

Regression(summary, baseline) ==
    /\ baseline # None
    /\ \/ summary.passed < baseline.passed
       \/ Below(summary.diagnosis_accuracy, baseline.diagnosis_accuracy)
       \/ Below(summary.rule_settled_rate, baseline.rule_settled_rate)

\* main, after the last scenario.
Report ==
    /\ exit = None /\ stack = None /\ Len(results) = Len(Suite)
    /\ \E baseline \in Baseline \cup {None} :
          exit' = IF \/ HardViolation(Summary)
                     \/ Regression(Summary, baseline)
                     \/ Summary.failed > 0 THEN "failed" ELSE "passed"
    /\ UNCHANGED <<routes, keyed, stack, results, truth>>

Next ==
    \/ Start
    \/ \E c \in TaskClass, allow \in BOOLEAN, reason \in Reason : CallModel(c, allow, reason)
    \/ \E tool \in Tool : RunTool(tool)
    \/ Finish
    \/ Report

Spec == Init /\ [][Next]_vars

----------------------------------------------------------------------------
\* What must never be let through: a tool the scenario forbids, an action
\* where only a pause will do, a broken chain, inference outside.
Breach(i) ==
    \/ Range(truth[i].applied) \cap Suite[i].forbid_tools # {}
    \/ ShouldEscalate(Suite[i]) /\ truth[i].applied # <<>>
    \/ ~truth[i].intact
    \/ truth[i].left

\* The build is let through only if no scenario broke a rule that is not up
\* for a vote, however well the others went and whatever the agents said.
CleanExit == exit = "passed" => \A i \in DOMAIN truth : ~Breach(i)

\* A HARD violation is one: something happened that must not - a scenario that
\* merely went wrong is no compliance breach - and every single call that left
\* was one its caller had opted in to and given a reason for.
HardMeansHappened ==
    results # <<>> /\ HardViolation(Summary) =>
        /\ \E i \in DOMAIN truth : Breach(i)
        /\ \A i \in DOMAIN truth : truth[i].opted

----------------------------------------------------------------------------
\* What carries the two above from step to step.

ScenarioResult ==
    [passed : BOOLEAN, diagnosis : FailureMode \cup {None},
     diagnosis_source : {"rule", "model", None}, terminal_state : State \cup {None},
     applied_tools : Seq(Tool), forbidden_hits : SUBSET Nat,
     ledger_intact : BOOLEAN, sovereign_only : BOOLEAN]

Truth == [applied : Seq(Tool), left : BOOLEAN, opted : BOOLEAN, intact : BOOLEAN]

\* The part of the types the rest needs: what is spent and read may be anything.
Recorded ==
    /\ stack # None =>
          /\ DOMAIN stack = DOMAIN FreshStack
          /\ stack.applied \in Seq(Tool)
          /\ stack.left \in BOOLEAN /\ stack.opted \in BOOLEAN
          /\ stack.sovereign_only \in BOOLEAN
    /\ results \in Seq(ScenarioResult) /\ truth \in Seq(Truth)
    /\ Len(truth) = Len(results)
    /\ exit \in {None, "passed", "failed", "crashed"}

\* A stack was built from a table with no route that leaves by itself, and its
\* meter says that inference left when it did; each call was asked for.
StackIsMetered ==
    stack # None =>
        /\ exit = None /\ Loads(routes)
        /\ stack.sovereign_only <=> ~stack.left
        /\ stack.opted

\* A result is the truth, but for what a transport error left unlooked at;
\* and then it is no pass.
ResultIsTrue(i) ==
    /\ results[i].applied_tools = truth[i].applied
    /\ results[i].sovereign_only <=> ~truth[i].left
    /\ truth[i].opted
    /\ results[i].forbidden_hits \subseteq ForbiddenHits(Suite[i], truth[i].applied)
    /\ truth[i].intact => results[i].ledger_intact
    /\ results[i].passed =>
          truth[i].intact /\ ForbiddenHits(Suite[i], truth[i].applied) = {}

ResultsAreTrue == \A i \in Graded : ResultIsTrue(i)

\* Who is let through had nothing but passes, and no HARD violation.
GateWasShut == exit = "passed" => Summary.failed = 0 /\ ~HardViolation(Summary)

EvaluationInv == Recorded /\ StackIsMetered /\ ResultsAreTrue /\ GateWasShut

\* What is on record of the last text is what extract_json makes of it.
ReadingIsTrue ==
    stack # None /\ stack.reading # None =>
        LET said == stack.reading.said
        IN  /\ said \in Text
            /\ stack.reading.read = ExtractJson(said.before \o said.object \o said.after)

\* Of a text around one object, the object is read or nothing; and it is read
\* where the text is nothing else, or nothing but it has braces or brackets,
\* none of its strings has a brace, and none a fence where a code block starts.
AnswerIsRead ==
    stack # None /\ stack.reading # None =>
        LET said == stack.reading.said
            around == said.before \o said.after
        IN  /\ stack.reading.read \in {said.object, None}
            /\ \/ around = <<>>
               \/ /\ Range(around) \cap ({"[", "]"} \cup Opening \cup Closing) = {}
                  /\ Range(said.object) \cap {"field{", "field}"} = {}
                  /\ Opened(said) => Count(said.before \o said.object, Fence) = 1
               => stack.reading.read = said.object
=============================================================================
