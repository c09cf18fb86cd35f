-------------------------- MODULE EvaluationProofs --------------------------
(***************************************************************************)
(* Proofs about Evaluation: for any suite, any routing tables, and any     *)
(* agents behind them, a build is let through only where no scenario broke *)
(* a rule that is not up for a vote, and it is refused for a HARD          *)
(* violation only where there was one.                                     *)
(***************************************************************************)
EXTENDS Evaluation, SequenceTheorems, FiniteSetTheorems, WellFoundedInduction, TLAPS

\* Graded scenarios are counted, so there are as many as a number says.
LEMMA Counted ==
    ASSUME NEW S, NEW n \in Nat, S \subseteq 1..n
    PROVE  /\ Cardinality(S) \in Nat
           /\ Cardinality(S) = 0 <=> S = {}
           /\ Cardinality(S) > 0 <=> S # {}
<1>0. IsFiniteSet(1..n)
  BY FS_Interval
<1>1. IsFiniteSet(S)
  BY <1>0, FS_Subset
<1>2. Cardinality(S) \in Nat
  BY <1>1, FS_CardinalityType
<1>3. Cardinality(S) = 0 <=> S = {}
  BY <1>1, FS_EmptySet
<1>4. \A k \in Nat : k > 0 <=> k # 0
  OBVIOUS
<1> QED
  BY <1>2, <1>3, <1>4

\* What the summary counts is there, and what it does not count is not.
LEMMA SummaryCounts ==
    ASSUME Recorded
    PROVE  /\ Summary.failed = 0 <=> \A i \in Graded : results[i].passed
           /\ Summary.failed > 0 <=> ~(Summary.failed = 0)
           /\ HardViolation(Summary) <=>
                 \E i \in Graded : \/ results[i].forbidden_hits # {}
                                   \/ FalseRemediation(i)
                                   \/ ~results[i].ledger_intact
                                   \/ ~results[i].sovereign_only
<1> DEFINE Failed == {i \in Graded : ~results[i].passed}
           Hit == {i \in Graded : results[i].forbidden_hits # {}}
           Acted == {i \in Graded : FalseRemediation(i)}
<1>1. Len(results) \in Nat /\ Graded = 1..Len(results)
  BY DEF Recorded, Graded
<1>2. /\ Cardinality(Failed) \in Nat
      /\ Cardinality(Failed) = 0 <=> Failed = {}
      /\ Cardinality(Failed) > 0 <=> Failed # {}
  <2>1. Failed \subseteq 1..Len(results)
    BY <1>1
  <2> HIDE DEF Failed
  <2> QED
    BY <1>1, <2>1, Counted
<1>3. Cardinality(Hit) > 0 <=> Hit # {}
  <2>1. Hit \subseteq 1..Len(results)
    BY <1>1
  <2> HIDE DEF Hit
  <2> QED
    BY <1>1, <2>1, Counted
<1>4. Cardinality(Acted) > 0 <=> Acted # {}
  <2>1. Acted \subseteq 1..Len(results)
    BY <1>1
  <2> HIDE DEF Acted
  <2> QED
    BY <1>1, <2>1, Counted
<1>5. /\ Summary.failed = Cardinality(Failed)
      /\ Summary.forbidden_tool_hits = Cardinality(Hit)
      /\ Summary.false_remediation = Cardinality(Acted)
      /\ Summary.ledger_intact = \A i \in Graded : results[i].ledger_intact
      /\ Summary.sovereign_only = \A i \in Graded : results[i].sovereign_only
  BY DEF Summary
<1>6. /\ Failed = {} <=> \A i \in Graded : results[i].passed
      /\ Hit # {} <=> \E i \in Graded : results[i].forbidden_hits # {}
      /\ Acted # {} <=> \E i \in Graded : FalseRemediation(i)
  OBVIOUS
<1>7. HardViolation(Summary) <=>
         \/ Hit # {} \/ Acted # {}
         \/ \E i \in Graded : ~results[i].ledger_intact
         \/ \E i \in Graded : ~results[i].sovereign_only
  <2> HIDE DEF Failed, Hit, Acted
  <2> QED
    BY <1>3, <1>4, <1>5 DEF HardViolation
<1> HIDE DEF Failed, Hit, Acted
<1>8. Summary.failed = 0 <=> \A i \in Graded : results[i].passed
  BY <1>2, <1>5, <1>6
<1>9. Summary.failed > 0 <=> ~(Summary.failed = 0)
  BY <1>2, <1>5
<1> QED
  BY <1>6, <1>7, <1>8, <1>9

\* routing.yaml cannot send a call outside by itself: who leaves opted in,
\* gave a reason, and went where the route says.
LEMMA LeavingIsAskedFor ==
    ASSUME NEW table, NEW c, NEW allow \in BOOLEAN, NEW reason,
           Loads(table), Permitted(table, c, allow, reason),
           ~Resolve(table, c, allow).sovereign
    PROVE  allow /\ reason # "" /\ table[c].escalation # None
BY DEF Loads, Permitted, Resolve

----------------------------------------------------------------------------
\* What a step keeps.

LEMMA EvaluationStarts == Init => EvaluationInv
<1> SUFFICES ASSUME Init PROVE EvaluationInv
  OBVIOUS
<1>1. stack = None /\ results = <<>> /\ truth = <<>> /\ exit = None
  BY DEF Init
<1>2. Recorded
  BY <1>1 DEF Recorded
<1>3. StackIsMetered
  BY <1>1 DEF StackIsMetered
<1>4. ResultsAreTrue
  BY <1>1 DEF ResultsAreTrue, Graded
<1>5. GateWasShut
  BY <1>1, ExitAssumption DEF GateWasShut
<1> QED
  BY <1>2, <1>3, <1>4, <1>5 DEF EvaluationInv

\* The next scenario's stack is fresh, and its table was loaded.
LEMMA StartKeeps == EvaluationInv /\ Start => EvaluationInv'
<1> SUFFICES ASSUME EvaluationInv, Start PROVE EvaluationInv'
  OBVIOUS
<1>1. results' = results /\ truth' = truth /\ routes' = routes
  BY DEF Start
<1>2. exit' # "passed" /\ exit' \in {None, "crashed"}
  BY ExitAssumption DEF Start
<1>3. stack' # None => stack' = FreshStack /\ Loads(routes) /\ exit' = None
  BY DEF Start
<1>4. Recorded'
  <2>1. stack' # None =>
           /\ DOMAIN stack' = DOMAIN FreshStack /\ stack'.applied \in Seq(Tool)
           /\ stack'.left \in BOOLEAN /\ stack'.opted \in BOOLEAN
           /\ stack'.sovereign_only \in BOOLEAN
    <3> SUFFICES ASSUME stack' # None
                 PROVE  /\ DOMAIN stack' = DOMAIN FreshStack /\ stack'.applied \in Seq(Tool)
                        /\ stack'.left \in BOOLEAN /\ stack'.opted \in BOOLEAN
                        /\ stack'.sovereign_only \in BOOLEAN
      OBVIOUS
    <3>1. /\ stack'.applied = <<>> /\ stack'.left = FALSE /\ stack'.opted = TRUE
          /\ stack'.sovereign_only = TRUE
      BY <1>3 DEF FreshStack
    <3>2. stack'.applied \in Seq(Tool)
      BY <3>1
    <3>3. DOMAIN stack' = DOMAIN FreshStack
      BY <1>3
    <3> QED
      BY <3>1, <3>2, <3>3, Zenon
  <2>2. (DOMAIN FreshStack)' = DOMAIN FreshStack
    BY DEF FreshStack
  <2> QED
    BY <1>1, <1>2, <2>1, <2>2 DEF EvaluationInv, Recorded
<1>5. StackIsMetered'
  BY <1>1, <1>3 DEF StackIsMetered, FreshStack
<1>6. ResultsAreTrue'
  BY <1>1 DEF EvaluationInv, ResultsAreTrue, ResultIsTrue, Graded
<1>7. GateWasShut'
  BY <1>2 DEF GateWasShut
<1> QED
  BY <1>4, <1>5, <1>6, <1>7 DEF EvaluationInv

\* While a stack is up nothing was decided, and a step of it decides nothing.
LEMMA StackKeeps ==
    ASSUME EvaluationInv, stack # None, UNCHANGED <<routes, results, truth, exit>>
    PROVE  ResultsAreTrue' /\ GateWasShut'
<1>1. exit' # "passed"
  BY ExitAssumption DEF EvaluationInv, StackIsMetered
<1> QED
  BY <1>1 DEF EvaluationInv, ResultsAreTrue, ResultIsTrue, Graded, GateWasShut

\* However a model is called, and whether it answers, the meter is right.
LEMMA CallKeeps ==
    ASSUME EvaluationInv, NEW c \in TaskClass, NEW allow \in BOOLEAN, NEW reason \in Reason,
           CallModel(c, allow, reason)
    PROVE  EvaluationInv'
<1> DEFINE spec == Resolve(routes, c, allow)
           opted == stack.opted /\ (spec.sovereign \/ (allow /\ reason # ""))
<1>1. /\ stack # None /\ Permitted(routes, c, allow, reason)
      /\ UNCHANGED <<routes, results, truth, exit>>
  BY DEF CallModel
<1>2. /\ Loads(routes) /\ exit = None
      /\ DOMAIN stack = DOMAIN FreshStack /\ stack.applied \in Seq(Tool)
      /\ stack.left \in BOOLEAN /\ stack.opted \in BOOLEAN /\ stack.sovereign_only \in BOOLEAN
      /\ (stack.sovereign_only <=> ~stack.left) /\ stack.opted
  BY <1>1 DEF EvaluationInv, Recorded, StackIsMetered
<1>3. ~spec.sovereign => allow /\ reason # ""
  BY <1>1, <1>2, LeavingIsAskedFor
<1>4. \/ stack' = [stack EXCEPT !.opted = opted, !.reading = None]
      \/ \E reading : stack' = [Metered(spec) EXCEPT
            !.opted = opted, !.left = @ \/ ~spec.sovereign, !.reading = reading]
  BY DEF CallModel
<1>5. /\ DOMAIN stack' = DOMAIN FreshStack /\ stack'.applied = stack.applied
      /\ stack'.opted = opted
      /\ \/ stack'.left = stack.left /\ stack'.sovereign_only = stack.sovereign_only
         \/ /\ stack'.left = (stack.left \/ ~spec.sovereign)
            /\ stack'.sovereign_only = (stack.sovereign_only /\ spec.sovereign)
  <2>1. CASE stack' = [stack EXCEPT !.opted = opted, !.reading = None]
    BY <2>1, <1>2 DEF FreshStack
  <2>2. ASSUME NEW reading, stack' = [Metered(spec) EXCEPT
                    !.opted = opted, !.left = @ \/ ~spec.sovereign, !.reading = reading]
        PROVE  <1>5
    BY <2>2, <1>2 DEF FreshStack, Metered
  <2> QED
    BY <1>4, <2>1, <2>2
<1>6. /\ stack'.opted \in BOOLEAN /\ stack'.left \in BOOLEAN /\ stack'.sovereign_only \in BOOLEAN
      /\ stack'.sovereign_only <=> ~stack'.left
      /\ stack'.opted
  <2> HIDE DEF spec
  <2> QED
    BY <1>2, <1>3, <1>5, Zenon
<1>7. Recorded'
  BY <1>1, <1>2, <1>5, <1>6 DEF EvaluationInv, Recorded, FreshStack
<1>8. StackIsMetered'
  BY <1>1, <1>2, <1>6 DEF StackIsMetered
<1> QED
  BY <1>1, <1>7, <1>8, StackKeeps DEF EvaluationInv

LEMMA RunToolKeeps ==
    ASSUME EvaluationInv, NEW tool \in Tool, RunTool(tool)
    PROVE  EvaluationInv'
<1>1. /\ stack # None /\ UNCHANGED <<routes, results, truth, exit>>
      /\ stack' = [stack EXCEPT !.applied = Append(@, tool), !.reading = None]
  BY DEF RunTool
<1>2. /\ DOMAIN stack = DOMAIN FreshStack /\ stack.applied \in Seq(Tool)
      /\ stack.left \in BOOLEAN /\ stack.opted \in BOOLEAN /\ stack.sovereign_only \in BOOLEAN
  BY <1>1 DEF EvaluationInv, Recorded
<1>3. /\ DOMAIN stack' = DOMAIN FreshStack /\ stack'.applied = Append(stack.applied, tool)
      /\ stack'.left = stack.left /\ stack'.opted = stack.opted
      /\ stack'.sovereign_only = stack.sovereign_only
  BY <1>1, <1>2 DEF FreshStack
<1>4. Recorded'
  BY <1>1, <1>2, <1>3 DEF EvaluationInv, Recorded, FreshStack
<1>5. StackIsMetered'
  BY <1>1, <1>3 DEF EvaluationInv, StackIsMetered
<1> QED
  BY <1>1, <1>4, <1>5, StackKeeps DEF EvaluationInv

----------------------------------------------------------------------------
\* What a scenario leaves behind.

\* What is told of a stack is what it did, but for what was not looked at.
ToldOf(result, scenario, intact) ==
    /\ result \in ScenarioResult
    /\ result.applied_tools = stack.applied
    /\ result.sovereign_only <=> ~stack.left
    /\ result.forbidden_hits \subseteq ForbiddenHits(scenario, stack.applied)
    /\ intact => result.ledger_intact
    /\ result.passed => intact /\ ForbiddenHits(scenario, stack.applied) = {}

\* A stack as the meter and the recorder leave it.
LEMMA StackAtTheEnd ==
    ASSUME Recorded, StackIsMetered, stack # None
    PROVE  /\ stack.applied \in Seq(Tool) /\ stack.sovereign_only \in BOOLEAN
           /\ stack.sovereign_only <=> ~stack.left
           /\ Unanswered \in ScenarioResult
<1>1. /\ stack.applied \in Seq(Tool) /\ stack.sovereign_only \in BOOLEAN
      /\ stack.sovereign_only <=> ~stack.left
  BY DEF Recorded, StackIsMetered
<1>2. Unanswered \in ScenarioResult
  BY <1>1 DEF Unanswered, ScenarioResult
<1> QED
  BY <1>1, <1>2

\* A transport error looks at no hit and no chain, and is no pass.
LEMMA UnansweredIsTrue ==
    ASSUME Recorded, StackIsMetered, stack # None, NEW scenario, NEW intact \in BOOLEAN
    PROVE  ToldOf(Unanswered, scenario, intact)
<1>1. /\ Unanswered.applied_tools = stack.applied /\ Unanswered.forbidden_hits = {}
      /\ Unanswered.sovereign_only = stack.sovereign_only
      /\ Unanswered.ledger_intact = TRUE /\ Unanswered.passed = FALSE
  BY DEF Unanswered
<1> QED
  BY <1>1, StackAtTheEnd DEF ToldOf

\* What is graded to the end says what ran and whether the chain verified.
LEMMA GradeIsTrue ==
    ASSUME Recorded, StackIsMetered, stack # None,
           NEW scenario, NEW intact \in BOOLEAN, NEW late \in BOOLEAN,
           NEW answer \in Answer
    PROVE  ToldOf(Grade(scenario, answer, intact, late), scenario, intact)
<1> DEFINE Hits == ForbiddenHits(scenario, stack.applied)
           Answered == [Unanswered EXCEPT
                !.diagnosis = answer.diagnosis, !.diagnosis_source = answer.source,
                !.terminal_state = answer.state, !.ledger_intact = intact,
                !.forbidden_hits = Hits]
           result == Grade(scenario, answer, intact, late)
<1>1. Hits \in SUBSET Nat
  BY StackAtTheEnd DEF ForbiddenHits
<1> HIDE DEF Hits
<1>1a. /\ answer.diagnosis \in FailureMode \cup {None}
       /\ answer.source \in {"rule", "model", None} /\ answer.state \in State \cup {None}
  BY DEF Answer, State
<1>2. Answered \in ScenarioResult
  BY <1>1, <1>1a, StackAtTheEnd DEF ScenarioResult
<1>3. /\ Answered.applied_tools = stack.applied /\ Answered.forbidden_hits = Hits
      /\ Answered.sovereign_only = stack.sovereign_only
      /\ Answered.ledger_intact = intact
  BY DEF Unanswered
<1> HIDE DEF Answered
<1>4. result = [Answered EXCEPT !.passed = Passes(scenario, Answered, stack.cost, late)]
  BY DEF Grade, Answered, Hits
<1>5. Passes(scenario, Answered, stack.cost, late) \in BOOLEAN
  BY DEF Passes
<1>6. Passes(scenario, Answered, stack.cost, late) => intact /\ Hits = {}
  BY <1>3 DEF Passes
<1> HIDE DEF result
<1>7. /\ result \in ScenarioResult
      /\ result.applied_tools = stack.applied /\ result.forbidden_hits = Hits
      /\ result.sovereign_only = stack.sovereign_only
      /\ result.ledger_intact = intact
      /\ result.passed = Passes(scenario, Answered, stack.cost, late)
  BY <1>2, <1>3, <1>4, <1>5 DEF ScenarioResult
<1>8. ToldOf(result, scenario, intact)
  BY <1>6, <1>7, StackAtTheEnd DEF ToldOf, Hits
<1> QED
  BY <1>8 DEF result

\* One more scenario is told as it was.
LEMMA FinishKeeps == EvaluationInv /\ Finish => EvaluationInv'
<1> SUFFICES ASSUME EvaluationInv, Finish PROVE EvaluationInv'
  OBVIOUS
<1>0. PICK last : last = Len(results) + 1
  OBVIOUS
<1> DEFINE scenario == Suite[last]
<1>1. /\ Recorded /\ StackIsMetered /\ ResultsAreTrue /\ stack # None
      /\ exit' = exit /\ stack' = None /\ exit = None
      /\ results \in Seq(ScenarioResult) /\ truth \in Seq(Truth) /\ Len(truth) = Len(results)
      /\ stack.applied \in Seq(Tool) /\ stack.left \in BOOLEAN /\ stack.opted \in BOOLEAN
      /\ stack.opted
  BY DEF EvaluationInv, Recorded, StackIsMetered, Finish
<1>2. PICK intact \in BOOLEAN :
         /\ \/ results' = Append(results, Unanswered)
            \/ \E answer \in Answer, late \in BOOLEAN :
                  results' = Append(results, Grade(scenario, answer, intact, late))
         /\ truth' = Append(truth, [applied |-> stack.applied, left |-> stack.left,
                                    opted |-> stack.opted, intact |-> intact])
  BY <1>0 DEF Finish
<1>3. \E result : results' = Append(results, result) /\ ToldOf(result, scenario, intact)
  BY <1>1, <1>2, UnansweredIsTrue, GradeIsTrue
<1>4. PICK result : results' = Append(results, result) /\ ToldOf(result, scenario, intact)
  BY <1>3
<1>5. PICK fact \in Truth : /\ truth' = Append(truth, fact)
                            /\ fact.applied = stack.applied /\ fact.left = stack.left
                            /\ fact.opted = stack.opted /\ fact.intact = intact
  <2> DEFINE done == [applied |-> stack.applied, left |-> stack.left,
                      opted |-> stack.opted, intact |-> intact]
  <2>1. done \in Truth
    BY <1>1 DEF Truth
  <2>2. /\ done.applied = stack.applied /\ done.left = stack.left
        /\ done.opted = stack.opted /\ done.intact = intact
    OBVIOUS
  <2>3. truth' = Append(truth, done)
    BY <1>2
  <2> HIDE DEF done
  <2> QED
    BY <2>1, <2>2, <2>3
<1>6. result \in ScenarioResult
  BY <1>4 DEF ToldOf
<1>7. /\ results' \in Seq(ScenarioResult) /\ truth' \in Seq(Truth)
      /\ Len(results') = last /\ Len(truth') = last
      /\ results'[last] = result /\ truth'[last] = fact
      /\ \A i \in 1..Len(results) : results'[i] = results[i] /\ truth'[i] = truth[i]
      /\ Graded = 1..Len(results) /\ Graded' = 1..last
  BY <1>0, <1>1, <1>4, <1>5, <1>6 DEF Graded
<1>8. Recorded'
  BY <1>1, <1>7 DEF Recorded
<1>9. ResultsAreTrue'
  <2>1. ResultIsTrue(last)'
    BY <1>1, <1>4, <1>5, <1>7 DEF ResultIsTrue, ToldOf
  <2>2. ASSUME NEW i \in 1..Len(results) PROVE ResultIsTrue(i)'
    BY <1>1, <1>7 DEF ResultsAreTrue, ResultIsTrue
  <2>3. \A i \in 1..last : i = last \/ i \in 1..Len(results)
    BY <1>0, <1>1
  <2> QED
    BY <1>7, <2>1, <2>2, <2>3 DEF ResultsAreTrue
<1>10. StackIsMetered' /\ GateWasShut'
  BY <1>1, ExitAssumption DEF StackIsMetered, GateWasShut
<1> QED
  BY <1>8, <1>9, <1>10 DEF EvaluationInv

\* The gate looks at the summary, and what it lets through stays let through.
LEMMA ReportKeeps == EvaluationInv /\ Report => EvaluationInv'
<1> SUFFICES ASSUME EvaluationInv, Report PROVE EvaluationInv'
  OBVIOUS
<1>1. /\ stack = None /\ UNCHANGED <<routes, stack, results, truth>>
      /\ exit' \in {"failed", "passed"}
      /\ exit' = "passed" => ~HardViolation(Summary) /\ ~(Summary.failed > 0)
  BY DEF Report
<1>2. Recorded'
  BY <1>1 DEF EvaluationInv, Recorded
<1>3. StackIsMetered'
  BY <1>1 DEF StackIsMetered
<1>4. ResultsAreTrue'
  BY <1>1 DEF EvaluationInv, ResultsAreTrue, ResultIsTrue, Graded
<1>5. Summary' = Summary /\ (HardViolation(Summary))' = HardViolation(Summary)
  BY <1>1 DEF Summary, HardViolation, FalseRemediation, Graded
<1>6. GateWasShut'
  BY <1>1, <1>5, SummaryCounts DEF EvaluationInv, GateWasShut
<1> QED
  BY <1>2, <1>3, <1>4, <1>6 DEF EvaluationInv

\* EvaluationInv is inductive: it holds of every evaluation.
THEOREM EvaluationIsTrue == Spec => []EvaluationInv
<1>1. EvaluationInv /\ [Next]_vars => EvaluationInv'
  <2> SUFFICES ASSUME EvaluationInv, [Next]_vars PROVE EvaluationInv'
    OBVIOUS
  <2>1. CASE Start
    BY <2>1, StartKeeps
  <2>2. ASSUME NEW c \in TaskClass, NEW allow \in BOOLEAN, NEW reason \in Reason,
               CallModel(c, allow, reason)
        PROVE  EvaluationInv'
    BY <2>2, CallKeeps
  <2>3. ASSUME NEW tool \in Tool, RunTool(tool) PROVE EvaluationInv'
    BY <2>3, RunToolKeeps
  <2>4. CASE Finish
    BY <2>4, FinishKeeps
  <2>5. CASE Report
    BY <2>5, ReportKeeps
  <2>6. CASE UNCHANGED vars
    BY <2>6 DEF vars, EvaluationInv, Recorded, StackIsMetered, ResultsAreTrue, ResultIsTrue,
                GateWasShut, Summary, HardViolation, FalseRemediation, Graded
  <2> QED
    BY <2>1, <2>2, <2>3, <2>4, <2>5, <2>6 DEF Next
<1> QED
  BY <1>1, EvaluationStarts, PTL DEF Spec

----------------------------------------------------------------------------
\* What a build that is let through, and one that is refused, can rely on.

\* For any suite, whatever the agents under evaluation do and answer, and
\* whatever fails on the way: exit code 0 means that no scenario ran a tool it
\* forbids, acted where only a pause will do, broke its chain, or let an answer
\* come from outside.  evals/runner.py, gate and main.
THEOREM NoBreachIsLetThrough == Spec => []CleanExit
<1>1. EvaluationInv => CleanExit
  <2> SUFFICES ASSUME EvaluationInv, exit = "passed", NEW i \in DOMAIN truth
               PROVE  ~Breach(i)
    BY DEF CleanExit
  <2>1. i \in Graded
    BY DEF EvaluationInv, Recorded, Graded
  <2>2. /\ results[i].passed /\ results[i].sovereign_only /\ ~FalseRemediation(i)
    BY <2>1, SummaryCounts DEF EvaluationInv, GateWasShut
  <2>3. ResultIsTrue(i)
    BY <2>1 DEF EvaluationInv, ResultsAreTrue
  <2>4. truth[i].intact /\ ~truth[i].left /\ ForbiddenHits(Suite[i], truth[i].applied) = {}
    BY <2>2, <2>3 DEF ResultIsTrue
  <2>5. Range(truth[i].applied) \cap Suite[i].forbid_tools = {}
    BY <2>4 DEF ForbiddenHits, Range
  <2>6. ~(ShouldEscalate(Suite[i]) /\ truth[i].applied # <<>>)
    BY <2>2, <2>3 DEF ResultIsTrue, FalseRemediation
  <2> QED
    BY <2>4, <2>5, <2>6 DEF Breach
<1> QED
  BY <1>1, EvaluationIsTrue, PTL

\* And a build is refused for a HARD violation only where one of the scenarios
\* broke such a rule - an agent that failed without acting has not - and not
\* one call left for a model outside that its caller had not opted in to and
\* given a reason for.
\* evals/runner.py, summarise and gate; gateway/base.py, RoutingPolicy.resolve.
THEOREM HardViolationsHappened == Spec => []HardMeansHappened
<1>1. EvaluationInv => HardMeansHappened
  <2>0. ASSUME EvaluationInv, NEW i \in DOMAIN truth PROVE truth[i].opted
    BY <2>0 DEF EvaluationInv, ResultsAreTrue, ResultIsTrue, Recorded, Graded
  <2> SUFFICES ASSUME EvaluationInv, HardViolation(Summary)
               PROVE  \E i \in DOMAIN truth : Breach(i)
    BY <2>0 DEF HardMeansHappened
  <2>1. PICK i \in Graded : \/ results[i].forbidden_hits # {}
                            \/ FalseRemediation(i)
                            \/ ~results[i].ledger_intact
                            \/ ~results[i].sovereign_only
    BY SummaryCounts DEF EvaluationInv
  <2>2. ResultIsTrue(i) /\ i \in DOMAIN truth
    BY <2>1 DEF EvaluationInv, ResultsAreTrue, Recorded, Graded
  <2>3. CASE results[i].forbidden_hits # {}
    <3>1. ForbiddenHits(Suite[i], truth[i].applied) # {}
      BY <2>2, <2>3 DEF ResultIsTrue
    <3>2. Range(truth[i].applied) \cap Suite[i].forbid_tools # {}
      BY <3>1 DEF ForbiddenHits, Range
    <3> QED
      BY <2>2, <3>2 DEF Breach, ResultIsTrue
  <2>4. CASE FalseRemediation(i)
    BY <2>2, <2>4 DEF Breach, ResultIsTrue, FalseRemediation
  <2>5. CASE ~results[i].ledger_intact \/ ~results[i].sovereign_only
    BY <2>2, <2>5 DEF Breach, ResultIsTrue
  <2> QED
    BY <2>1, <2>3, <2>4, <2>5
<1> QED
  BY <1>1, EvaluationIsTrue, PTL

----------------------------------------------------------------------------
\* What is read out of an answer: places of tokens, and how many there are.

\* A set of positions has a first one.
LEMMA FirstPlace ==
    ASSUME NEW P \in SUBSET Nat, P # {}
    PROVE  /\ Min(P) \in P
           /\ \A k \in P : Min(P) <= k
<1>1. PICK n \in P : n \in Nat
  OBVIOUS
<1> DEFINE S == 0..n
           R == StrictSubsetOrdering(S)
           T == {0..j : j \in P \cap S}
<1>2. IsFiniteSet(S) /\ T \subseteq SUBSET S /\ 0..n \in T
  <2>1. IsFiniteSet(S)
    BY <1>1, FS_Interval
  <2>2. \A j \in S : 0..j \in SUBSET S
    BY <1>1
  <2> QED
    BY <1>1, <2>1, <2>2
<1>3. \A j, k \in S : j < k => <<0..j, 0..k>> \in R
  BY <1>1 DEF StrictSubsetOrdering
<1>4. IsWellFoundedOn(R, SUBSET S)
  BY <1>2, FS_StrictSubsetOrderingWellFounded, FS_FiniteSubsetsOfFinite
<1>5. \E s \in T : \A u \in T : ~(<<u, s>> \in R)
  <2> HIDE DEF R, T, S
  <2> QED
    BY <1>2, <1>4, WFMin
<1>6. PICK m \in P \cap S : \A u \in T : ~(<<u, 0..m>> \in R)
  BY <1>5
<1> HIDE DEF R
<1>7. \A k \in P : m <= k
  <2> SUFFICES ASSUME NEW k \in P, k < m PROVE FALSE
    BY <1>6
  <2>1. k \in S /\ 0..k \in T
    BY <1>1, <1>6
  <2> QED
    BY <1>3, <1>6, <2>1
<1> QED
  BY <1>6, <1>7 DEF Min

\* It is the only one that no other precedes.
LEMMA FirstIs ==
    ASSUME NEW P \in SUBSET Nat, NEW m \in P, \A k \in P : m <= k
    PROVE  Min(P) = m
<1>1. Min(P) \in P /\ Min(P) <= m
  BY FirstPlace
<1>2. m \in Nat /\ Min(P) \in Nat /\ m <= Min(P)
  BY <1>1
<1> QED
  BY <1>1, <1>2

\* The places of a part of a text that hold one of these tokens.
Places(text, a, c, tokens) == {k \in a..c : text[k] \in tokens}

\* Places are numbers, and can be counted.
LEMMA PlacesAreFinite ==
    ASSUME NEW text, NEW a \in Nat, NEW c \in Nat, NEW tokens
    PROVE  /\ Places(text, a, c, tokens) \in SUBSET Nat
           /\ IsFiniteSet(Places(text, a, c, tokens))
           /\ Cardinality(Places(text, a, c, tokens)) \in Nat
<1>1. IsFiniteSet(a..c)
  BY FS_Interval
<1>2. Places(text, a, c, tokens) \in SUBSET (a..c)
  BY DEF Places
<1>3. IsFiniteSet(Places(text, a, c, tokens))
  BY <1>1, <1>2, FS_Subset
<1>4. Places(text, a, c, tokens) \in SUBSET Nat
  BY DEF Places
<1> QED
  BY <1>3, <1>4, FS_CardinalityType

\* Counting in a part of a text is counting its places.
LEMMA CountsPlaces ==
    ASSUME NEW S, NEW text \in Seq(S), NEW a \in Nat \ {0}, NEW c \in Nat,
           c <= Len(text), a <= c + 1, NEW tokens
    PROVE  /\ Count(SubSeq(text, a, c), tokens) = Cardinality(Places(text, a, c, tokens))
           /\ Count(SubSeq(text, a, c), tokens) \in Nat
<1> DEFINE part == SubSeq(text, a, c)
           from == {i \in DOMAIN part : part[i] \in tokens}
           to == Places(text, a, c, tokens)
           f == [i \in to |-> i - a + 1]
<1>1. /\ DOMAIN part = 1..(c - a + 1)
      /\ \A i \in 1..(c - a + 1) : part[i] = text[a + i - 1]
  OBVIOUS
<1>2. f \in Bijection(to, from)
  <2> HIDE DEF part
  <2>1. \A i \in to : i \in a..c /\ text[i] \in tokens /\ f[i] = i - a + 1
    BY DEF Places
  <2>2. \A i \in to : f[i] \in from
    <3> SUFFICES ASSUME NEW i \in to PROVE f[i] \in from
      OBVIOUS
    <3>0. i \in a..c /\ text[i] \in tokens /\ f[i] = i - a + 1
      BY <2>1
    <3>1. i - a + 1 \in 1..(c - a + 1) /\ a + (i - a + 1) - 1 = i
      BY <3>0
    <3> HIDE DEF f, to
    <3> QED
      BY <1>1, <3>0, <3>1
  <2>3. \A i, j \in to : f[i] = f[j] => i = j
    BY <2>1
  <2>4. \A k \in from : \E i \in to : f[i] = k
    <3> SUFFICES ASSUME NEW k \in from PROVE \E i \in to : f[i] = k
      OBVIOUS
    <3>1. /\ k \in 1..(c - a + 1) /\ part[k] \in tokens
          /\ a + k - 1 \in a..c /\ (a + k - 1) - a + 1 = k
      BY <1>1
    <3>2. a + k - 1 \in to
      BY <1>1, <3>1 DEF Places
    <3> QED
      BY <3>1, <3>2
  <2>5. f \in [to -> from]
    <3>1. \A i \in to : i - a + 1 \in from
      BY <2>1, <2>2
    <3> HIDE DEF from, to
    <3> QED
      BY <3>1
  <2> HIDE DEF from, to, f
  <2> QED
    BY <2>3, <2>4, <2>5 DEF Bijection, Injection, Surjection, IsInjective
<1>3. IsFiniteSet(to) /\ Cardinality(to) \in Nat
  BY PlacesAreFinite
<1>4. Cardinality(from) = Cardinality(to)
  <2>1. ExistsBijection(to, from)
    BY <1>2 DEF ExistsBijection
  <2> HIDE DEF from, to
  <2> QED
    BY <1>3, <2>1, FS_Bijection
<1> QED
  BY <1>3, <1>4 DEF Count

\* A part of a text is cut in two without loss.
LEMMA PlacesAdd ==
    ASSUME NEW text, NEW a \in Nat, NEW b \in Nat, NEW c \in Nat, a <= b + 1, b <= c,
           NEW tokens
    PROVE  Cardinality(Places(text, a, c, tokens)) =
              Cardinality(Places(text, a, b, tokens))
                  + Cardinality(Places(text, b + 1, c, tokens))
<1> DEFINE left == Places(text, a, b, tokens)
           right == Places(text, b + 1, c, tokens)
<1>1. Places(text, a, c, tokens) = left \cup right
  BY DEF Places
<1>2. left \cap right = {}
  BY DEF Places
<1>3. /\ IsFiniteSet(left) /\ IsFiniteSet(right)
      /\ Cardinality(left) \in Nat /\ Cardinality(right) \in Nat
  <2>1. b + 1 \in Nat
    OBVIOUS
  <2> QED
    BY <2>1, PlacesAreFinite
<1> HIDE DEF left, right
<1>4. Cardinality(left \cup right) =
         Cardinality(left) + Cardinality(right) - Cardinality(left \cap right)
  BY <1>3, FS_Union
<1>5. Cardinality(left \cap right) = 0
  BY <1>2, FS_EmptySet
<1> QED
  BY <1>1, <1>3, <1>4, <1>5 DEF left, right

\* One place counts for one at most.
LEMMA OnePlace ==
    ASSUME NEW text, NEW a \in Nat, NEW tokens
    PROVE  Cardinality(Places(text, a, a, tokens)) = IF text[a] \in tokens THEN 1 ELSE 0
<1>1. Places(text, a, a, tokens) = IF text[a] \in tokens THEN {a} ELSE {}
  BY DEF Places
<1> QED
  BY <1>1, FS_Singleton, FS_EmptySet

\* The braces of an object balance where it ends and nowhere before.
LEMMA ObjectCounts ==
    ASSUME NEW S, NEW x \in Seq(S), IsObject(x)
    PROVE  /\ Len(x) >= 2 /\ x[1] = "{"
           /\ \A i \in 1..Len(x) : x[i] \in {"{", "}"} \cup Fields
           /\ \A i \in 1..Len(x) :
                 Count(SubSeq(x, 1, i), {"{"}) = Count(SubSeq(x, 1, i), {"}"})
                     <=> i = Len(x)
<1>1. \A i \in 1..Len(x) : /\ Count(SubSeq(x, 1, i), {"{"}) \in Nat
                           /\ Count(SubSeq(x, 1, i), {"}"}) \in Nat
  <2> SUFFICES ASSUME NEW i \in 1..Len(x)
               PROVE  /\ Count(SubSeq(x, 1, i), {"{"}) \in Nat
                      /\ Count(SubSeq(x, 1, i), {"}"}) \in Nat
    OBVIOUS
  <2>1. 1 \in Nat \ {0} /\ i \in Nat /\ i <= Len(x) /\ 1 <= i + 1
    OBVIOUS
  <2> QED
    BY <2>1, CountsPlaces
<1>2. DOMAIN x = 1..Len(x)
  OBVIOUS
<1>3. \A i \in 1..Len(x) : Count(SubSeq(x, 1, i), {"{"}) - Count(SubSeq(x, 1, i), {"}"}) = 0
                               <=> i = Len(x)
  BY <1>2 DEF IsObject
<1>4. \A i \in 1..Len(x) : x[i] \in {"{", "}"} \cup Fields
  BY <1>2 DEF IsObject, Range
<1>5. \A p, q \in Nat : p - q = 0 <=> p = q
  OBVIOUS
<1> QED
  BY <1>1, <1>3, <1>4, <1>5 DEF IsObject

\* Of two objects a text begins with, neither goes on after the other ended.
LEMMA OneObject ==
    ASSUME NEW S, NEW w \in Seq(S), NEW m \in 1..Len(w), NEW n \in 1..Len(w),
           IsObject(SubSeq(w, 1, m)), IsObject(SubSeq(w, 1, n))
    PROVE  m = n
<1>1. \A j, k \in 1..Len(w) :
         IsObject(SubSeq(w, 1, j)) /\ IsObject(SubSeq(w, 1, k)) => ~(j < k)
  <2> SUFFICES ASSUME NEW j \in 1..Len(w), NEW k \in 1..Len(w), j < k,
                      IsObject(SubSeq(w, 1, j)), IsObject(SubSeq(w, 1, k))
               PROVE  FALSE
    OBVIOUS
  <2> DEFINE x == SubSeq(w, 1, j)
             y == SubSeq(w, 1, k)
  <2>1. /\ x \in Seq(S) /\ Len(x) = j /\ y \in Seq(S) /\ Len(y) = k
        /\ SubSeq(x, 1, j) = x /\ SubSeq(y, 1, j) = x
        /\ IsObject(x) /\ IsObject(y)
    OBVIOUS
  <2> HIDE DEF x, y
  <2>2. Count(x, {"{"}) = Count(x, {"}"})
    <3>1. \A i \in 1..Len(x) :
             Count(SubSeq(x, 1, i), {"{"}) = Count(SubSeq(x, 1, i), {"}"}) <=> i = Len(x)
      BY <2>1, ObjectCounts
    <3>2. Count(SubSeq(x, 1, j), {"{"}) = Count(SubSeq(x, 1, j), {"}"})
      <4>1. j \in 1..Len(x) /\ j = Len(x)
        BY <2>1
      <4> QED
        BY <3>1, <4>1
    <3> QED
      BY <2>1, <3>2
  <2>3. j \in 1..Len(y) /\ j # Len(y)
    BY <2>1
  <2> QED
    BY <2>1, <2>2, <2>3, ObjectCounts
<1> QED
  BY <1>1

\* A part of a text, place by place.
LEMMA PartOf ==
    ASSUME NEW S, NEW w \in Seq(S), NEW p \in Nat, NEW j \in Nat, p + j <= Len(w)
    PROVE  /\ SubSeq(w, p + 1, p + j) \in Seq(S)
           /\ Len(SubSeq(w, p + 1, p + j)) = j
           /\ \A k \in 1..j : SubSeq(w, p + 1, p + j)[k] = w[p + k]
OBVIOUS

\* A text around an object, place by place.
LEMMA AroundObject ==
    ASSUME NEW S, NEW before \in Seq(S), NEW object \in Seq(S), NEW after \in Seq(S),
           NEW text, text = before \o object \o after
    PROVE  /\ text \in Seq(S)
           /\ Len(text) = Len(before) + Len(object) + Len(after)
           /\ \A i \in 1..Len(before) : text[i] = before[i]
           /\ \A i \in 1..Len(object) : text[Len(before) + i] = object[i]
           /\ \A i \in 1..Len(after) : text[Len(before) + Len(object) + i] = after[i]
           /\ \A i \in 1..Len(object) :
                 SubSeq(text, Len(before) + 1, Len(before) + i) = SubSeq(object, 1, i)
<1> DEFINE first == before \o object
<1>1. /\ first \in Seq(S) /\ Len(first) = Len(before) + Len(object)
      /\ \A i \in 1..Len(before) : first[i] = before[i]
      /\ \A i \in 1..Len(object) : first[Len(before) + i] = object[i]
  OBVIOUS
<1>2. text = first \o after
  OBVIOUS
<1> HIDE DEF first
<1>3. /\ text \in Seq(S) /\ Len(text) = Len(first) + Len(after)
      /\ \A i \in 1..Len(first) : text[i] = first[i]
      /\ \A i \in 1..Len(after) : text[Len(first) + i] = after[i]
  <2>1. /\ text \in Seq(S) /\ Len(text) = Len(first) + Len(after)
        /\ \A i \in 1..(Len(first) + Len(after)) :
              text[i] = IF i <= Len(first) THEN first[i] ELSE after[i - Len(first)]
    <3>1. /\ first \o after \in Seq(S) /\ Len(first \o after) = Len(first) + Len(after)
          /\ \A i \in 1..(Len(first) + Len(after)) :
                (first \o after)[i] = IF i <= Len(first) THEN first[i]
                                      ELSE after[i - Len(first)]
      <4>1. first \in Seq(S) /\ after \in Seq(S)
        BY <1>1
      <4> QED
        BY <4>1, ConcatProperties, Zenon
    <3> QED
      BY <1>2, <3>1
  <2>2. \A i \in 1..Len(after) : /\ Len(first) + i \in 1..(Len(first) + Len(after))
                                 /\ ~(Len(first) + i <= Len(first))
                                 /\ (Len(first) + i) - Len(first) = i
    BY <1>1
  <2>3. \A i \in 1..Len(first) : i \in 1..(Len(first) + Len(after)) /\ i <= Len(first)
    BY <1>1
  <2> QED
    BY <2>1, <2>2, <2>3
<1>4. /\ \A i \in 1..Len(before) : text[i] = before[i]
      /\ \A i \in 1..Len(object) : text[Len(before) + i] = object[i]
  BY <1>1, <1>3
<1>5. ASSUME NEW i \in 1..Len(object)
      PROVE  SubSeq(text, Len(before) + 1, Len(before) + i) = SubSeq(object, 1, i)
  <2> DEFINE s == SubSeq(text, Len(before) + 1, Len(before) + i)
             t == SubSeq(object, 1, i)
  <2>0. /\ text \in Seq(S) /\ Len(before) \in Nat /\ i \in Nat
        /\ Len(before) + i <= Len(text)
    <3>1. Len(before) \in Nat /\ Len(object) \in Nat /\ Len(after) \in Nat
      OBVIOUS
    <3>2. text \in Seq(S) /\ Len(text) = Len(before) + Len(object) + Len(after)
      BY <1>1, <1>3
    <3>3. \A p, q, r \in Nat : \A j \in 1..q : j \in Nat /\ p + j <= p + q + r
      OBVIOUS
    <3> QED
      BY <3>1, <3>2, <3>3
  <2>1. s \in Seq(S) /\ Len(s) = i /\ \A k \in 1..i : s[k] = text[Len(before) + k]
    <3> DEFINE p == Len(before)
    <3>1. text \in Seq(S) /\ p \in Nat /\ i \in Nat /\ p + i <= Len(text)
      BY <2>0
    <3> HIDE DEF p
    <3>2. /\ SubSeq(text, p + 1, p + i) \in Seq(S)
          /\ Len(SubSeq(text, p + 1, p + i)) = i
          /\ \A k \in 1..i : SubSeq(text, p + 1, p + i)[k] = text[p + k]
      BY <3>1, PartOf
    <3> QED
      BY <3>2 DEF p
  <2>2. t \in Seq(S) /\ Len(t) = i /\ \A k \in 1..i : t[k] = object[k]
    OBVIOUS
  <2> HIDE DEF s, t
  <2>3. \A k \in 1..i : k \in 1..Len(object)
    OBVIOUS
  <2>4. \A k \in 1..i : s[k] = t[k]
    BY <1>4, <2>1, <2>2, <2>3
  <2> QED
    BY <2>1, <2>2, <2>4, SeqEqual DEF s, t
<1> QED
  BY <1>1, <1>3, <1>4, <1>5

\* No brace is inside a string.
Flat(object) == \A i \in 1..Len(object) : object[i] \notin {"field{", "field}"}

\* Of an object without such strings, extract_json counts the braces right.
LEMMA FlatCounts ==
    ASSUME NEW S, NEW object \in Seq(S), Flat(object), NEW i \in 1..Len(object)
    PROVE  /\ Count(SubSeq(object, 1, i), Opening) = Count(SubSeq(object, 1, i), {"{"})
           /\ Count(SubSeq(object, 1, i), Closing) = Count(SubSeq(object, 1, i), {"}"})
<1> DEFINE part == SubSeq(object, 1, i)
<1>1. DOMAIN part = 1..i /\ \A k \in 1..i : part[k] = object[k] /\ k \in 1..Len(object)
  OBVIOUS
<1> HIDE DEF part
<1>2. {k \in DOMAIN part : part[k] \in Opening} = {k \in DOMAIN part : part[k] \in {"{"}}
  BY <1>1 DEF Flat, Opening
<1>3. {k \in DOMAIN part : part[k] \in Closing} = {k \in DOMAIN part : part[k] \in {"}"}}
  BY <1>1 DEF Flat, Closing
<1>4. /\ Count(part, Opening) = Count(part, {"{"})
      /\ Count(part, Closing) = Count(part, {"}"})
  BY <1>2, <1>3 DEF Count
<1> QED
  BY <1>4 DEF part

\* The object stands in the text after b tokens.
Stands(object, text, b) ==
    /\ b + Len(object) <= Len(text)
    /\ \A i \in 1..Len(object) :
          /\ text[b + i] = object[i]
          /\ SubSeq(text, b + 1, b + i) = SubSeq(object, 1, i)

\* Where the object stands, no other object begins.
LEMMA OnlyObject ==
    ASSUME NEW S, NEW object \in Seq(S), IsObject(object), NEW text \in Seq(S),
           NEW b \in Nat, Stands(object, text, b), NEW e \in (b + 1)..Len(text),
           IsObject(SubSeq(text, b + 1, e))
    PROVE  e = b + Len(object) /\ SubSeq(text, b + 1, e) = object
<1> DEFINE n == Len(object)
           start == b + 1
           w == SubSeq(text, start, Len(text))
           m == e - start + 1
<1>1. n \in Nat /\ n >= 2 /\ Len(text) \in Nat /\ b + n <= Len(text)
  <2>1. Len(object) >= 2
    BY ObjectCounts
  <2> QED
    BY <2>1 DEF Stands
<1>2. SubSeq(text, start, b + n) = object
  <2>1. n \in 1..n /\ SubSeq(object, 1, n) = object
    BY <1>1
  <2> QED
    BY <2>1 DEF Stands
<1>3. w \in Seq(S) /\ Len(w) = Len(text) - b
  BY <1>1
<1>4. \A k \in start..Len(text) : SubSeq(w, 1, k - start + 1) = SubSeq(text, start, k)
  BY <1>1
<1> HIDE DEF n
<1>5. m \in 1..Len(w) /\ n \in 1..Len(w)
  BY <1>1, <1>3
<1>6. b + n \in start..Len(text) /\ (b + n) - start + 1 = n
  BY <1>1
<1> HIDE DEF w
<1>7. SubSeq(w, 1, m) = SubSeq(text, start, e)
  BY <1>4
<1>8. SubSeq(w, 1, n) = object
  <2>1. SubSeq(w, 1, (b + n) - start + 1) = SubSeq(text, start, b + n)
    BY <1>4, <1>6
  <2> QED
    BY <1>2, <1>6, <2>1
<1>9. m = n => e = b + n
  BY <1>1
<1> HIDE DEF m, start
<1>10. IsObject(SubSeq(w, 1, m)) /\ IsObject(SubSeq(w, 1, n))
  BY <1>7, <1>8 DEF start
<1>11. m = n
  BY <1>3, <1>5, <1>10, OneObject
<1> QED
  BY <1>7, <1>8, <1>9, <1>11 DEF n, start

\* From the first opening brace of a text, which is the object's, what is
\* salvaged is the object or nothing, whatever follows it; and it is the object
\* if its strings hold no braces.
LEMMA SalvagedIsObject ==
    ASSUME NEW S, NEW object \in Seq(S), IsObject(object), NEW text \in Seq(S),
           NEW b \in Nat, Stands(object, text, b), \A i \in 1..b : text[i] \notin Opening
    PROVE  /\ Salvaged(text) \in {object, None}
           /\ Flat(object) => Salvaged(text) = object
<1> DEFINE n == Len(object)
           start == b + 1
           opens == {i \in DOMAIN text : text[i] \in Opening}
           ends == Balanced(text, start)
<1>1. n \in Nat /\ n >= 2 /\ Len(text) \in Nat /\ b + n <= Len(text)
  <2>1. Len(object) >= 2
    BY ObjectCounts
  <2> QED
    BY <2>1 DEF Stands
<1>2. object[1] = "{"
  BY ObjectCounts
<1>3. \A i \in 1..n : text[b + i] = object[i]
  BY DEF Stands
<1>4. \A i \in 1..n : SubSeq(text, start, b + i) = SubSeq(object, 1, i)
  BY DEF Stands
<1>5. SubSeq(object, 1, n) = object
  OBVIOUS
<1>6. \A i \in 1..n :
         Count(SubSeq(object, 1, i), {"{"}) = Count(SubSeq(object, 1, i), {"}"}) <=> i = n
  BY ObjectCounts, Zenon
<1>7. DOMAIN text = 1..Len(text)
  OBVIOUS
<1>8. SubSeq(text, start, b + n) = object
  <2>1. n \in 1..n
    BY <1>1
  <2> QED
    BY <1>4, <1>5, <2>1
<1> HIDE DEF n
<1>9. Min(opens) = start /\ opens # {}
  <2>1. start \in opens
    <3>1. 1 \in 1..n /\ start \in 1..Len(text)
      BY <1>1
    <3>2. text[start] = "{"
      BY <1>2, <1>3, <3>1
    <3> QED
      BY <1>7, <3>1, <3>2 DEF Opening
  <2>2. opens \in SUBSET Nat
    BY <1>1, <1>7
  <2>3. \A i \in opens : start <= i
    <3> SUFFICES ASSUME NEW i \in opens PROVE start <= i
      OBVIOUS
    <3>1. i \in 1..Len(text) /\ i \in Nat /\ text[i] \in Opening
      BY <1>7, <2>2
    <3>2. i \notin 1..b
      BY <3>1
    <3> QED
      BY <3>1, <3>2
  <2> HIDE DEF opens, start
  <2> QED
    BY <2>1, <2>2, <2>3, FirstIs
<1>10. ends \in SUBSET (start..Len(text)) /\ ends \in SUBSET Nat
  <2>1. \A i \in start..Len(text) : i \in Nat
    BY <1>1
  <2> QED
    BY <2>1 DEF Balanced
<1>11. ASSUME NEW e \in start..Len(text), IsObject(SubSeq(text, start, e))
       PROVE  SubSeq(text, start, e) = object
  BY <1>11, OnlyObject
<1>12. Salvaged(text) = IF ends # {} /\ IsObject(SubSeq(text, start, Min(ends)))
                        THEN SubSeq(text, start, Min(ends)) ELSE None
  <2>1. Salvaged(text) =
           IF opens # {} /\ Balanced(text, Min(opens)) # {}
              /\ IsObject(SubSeq(text, Min(opens), Min(Balanced(text, Min(opens)))))
           THEN SubSeq(text, Min(opens), Min(Balanced(text, Min(opens)))) ELSE None
    BY DEF Salvaged
  <2> HIDE DEF opens, start
  <2> QED
    BY <1>9, <2>1
<1> HIDE DEF ends
<1>13. Salvaged(text) \in {object, None}
  <2>1. ends # {} => Min(ends) \in start..Len(text)
    BY <1>10, FirstPlace
  <2> QED
    BY <1>11, <1>12, <2>1
<1>14. ASSUME Flat(object) PROVE Salvaged(text) = object
  <2>1. ASSUME NEW i \in 1..n PROVE b + i \in ends <=> i = n
    <3>1. b + i \in start..Len(text)
      BY <1>1
    <3>2. b + i \in ends <=>
             Count(SubSeq(object, 1, i), Opening) = Count(SubSeq(object, 1, i), Closing)
      <4>1. b + i \in ends <=> Count(SubSeq(text, start, b + i), Opening) =
                               Count(SubSeq(text, start, b + i), Closing)
        BY <3>1 DEF Balanced, ends
      <4> QED
        BY <1>4, <4>1
    <3>3. /\ Count(SubSeq(object, 1, i), Opening) = Count(SubSeq(object, 1, i), {"{"})
          /\ Count(SubSeq(object, 1, i), Closing) = Count(SubSeq(object, 1, i), {"}"})
      BY <1>14, FlatCounts DEF n
    <3> QED
      BY <1>6, <3>2, <3>3
  <2>2. b + n \in ends
    <3>1. n \in 1..n
      BY <1>1
    <3> QED
      BY <2>1, <3>1
  <2>3. \A e \in ends : b + n <= e
    <3> SUFFICES ASSUME NEW e \in ends PROVE b + n <= e
      OBVIOUS
    <3>1. e \in Nat /\ start <= e
      BY <1>1, <1>10
    <3>2. CASE e < b + n
      <4>1. e - b \in 1..n /\ b + (e - b) = e /\ e - b # n
        BY <1>1, <3>1, <3>2
      <4> QED
        BY <2>1, <4>1
    <3> QED
      BY <1>1, <3>1, <3>2
  <2>4. Min(ends) = b + n
    BY <1>10, <2>2, <2>3, FirstIs
  <2> QED
    BY <1>8, <1>12, <2>2, <2>4
<1> QED
  BY <1>13, <1>14

\* No part of an object from its beginning closes more than it opens.
LEMMA NeverBelow ==
    ASSUME NEW S, NEW object \in Seq(S), IsObject(object), NEW i \in 1..Len(object)
    PROVE  Count(SubSeq(object, 1, i), {"}"}) <= Count(SubSeq(object, 1, i), {"{"})
<1> DEFINE n == Len(object)
           opened(j) == Cardinality(Places(object, 1, j, {"{"}))
           closed(j) == Cardinality(Places(object, 1, j, {"}"}))
           Early == {j \in 1..n : ~(closed(j) <= opened(j))}
<1>1. n \in Nat /\ n >= 2
  <2>1. Len(object) >= 2
    BY ObjectCounts
  <2> QED
    BY <2>1
<1>2. \A j \in 1..n : /\ Count(SubSeq(object, 1, j), {"{"}) = opened(j)
                      /\ Count(SubSeq(object, 1, j), {"}"}) = closed(j)
                      /\ opened(j) \in Nat /\ closed(j) \in Nat
  <2> SUFFICES ASSUME NEW j \in 1..n
               PROVE  /\ Count(SubSeq(object, 1, j), {"{"}) = opened(j)
                      /\ Count(SubSeq(object, 1, j), {"}"}) = closed(j)
                      /\ opened(j) \in Nat /\ closed(j) \in Nat
    OBVIOUS
  <2>1. 1 \in Nat \ {0} /\ 1 \in Nat /\ j \in Nat /\ j <= Len(object) /\ 1 <= j + 1
    BY <1>1
  <2> QED
    BY <2>1, CountsPlaces, PlacesAreFinite
<1>3. \A j \in 1..n : Count(SubSeq(object, 1, j), {"{"}) = Count(SubSeq(object, 1, j), {"}"})
                          <=> j = n
  BY ObjectCounts, Zenon
<1>4. \A j \in 1..n : opened(j) = closed(j) <=> j = n
  <2> HIDE DEF opened, closed, n
  <2> QED
    BY <1>2, <1>3
<1>5. opened(1) = 1 /\ closed(1) = 0
  <2>1. object[1] = "{"
    BY ObjectCounts
  <2>2. object[1] \in {"{"} /\ object[1] \notin {"}"}
    BY <2>1
  <2> QED
    BY <2>2, OnePlace
<1>6. \A j \in 1..n : j + 1 \in 1..n =>
         opened(j) <= opened(j + 1) /\ closed(j + 1) <= closed(j) + 1
  <2> SUFFICES ASSUME NEW j \in 1..n, j + 1 \in 1..n
               PROVE  opened(j) <= opened(j + 1) /\ closed(j + 1) <= closed(j) + 1
    OBVIOUS
  <2>1. /\ 1 \in Nat /\ j \in Nat /\ j + 1 \in Nat /\ 1 <= j + 1 /\ j <= j + 1
    BY <1>1
  <2>2. /\ opened(j + 1) = opened(j) + Cardinality(Places(object, j + 1, j + 1, {"{"}))
        /\ closed(j + 1) = closed(j) + Cardinality(Places(object, j + 1, j + 1, {"}"}))
    <3>1. \A T : Cardinality(Places(object, 1, j + 1, T)) =
                    Cardinality(Places(object, 1, j, T))
                        + Cardinality(Places(object, j + 1, j + 1, T))
      BY <2>1, PlacesAdd
    <3> QED
      BY <3>1
  <2>3. /\ Cardinality(Places(object, j + 1, j + 1, {"{"})) \in 0..1
        /\ Cardinality(Places(object, j + 1, j + 1, {"}"})) \in 0..1
    <3>1. \A T : Cardinality(Places(object, j + 1, j + 1, T)) =
                    IF object[j + 1] \in T THEN 1 ELSE 0
      BY <2>1, OnePlace
    <3>2. \A T : Cardinality(Places(object, j + 1, j + 1, T)) \in 0..1
      BY <3>1
    <3> QED
      BY <3>2
  <2>4. \A k \in 1..n : opened(k) \in Nat /\ closed(k) \in Nat
    BY <1>2
  <2> DEFINE more == Cardinality(Places(object, j + 1, j + 1, {"{"}))
             fewer == Cardinality(Places(object, j + 1, j + 1, {"}"}))
  <2> HIDE DEF opened, closed, n, more, fewer
  <2>5. /\ opened(j) \in Nat /\ closed(j) \in Nat
        /\ opened(j + 1) \in Nat /\ closed(j + 1) \in Nat
    BY <2>4
  <2>6. more \in 0..1 /\ fewer \in 0..1
    BY <2>3 DEF more, fewer
  <2>7. opened(j + 1) = opened(j) + more /\ closed(j + 1) = closed(j) + fewer
    BY <2>2 DEF more, fewer
  <2> QED
    BY <2>5, <2>6, <2>7
<1> HIDE DEF n, opened, closed
<1>7. ASSUME Early # {} PROVE FALSE
  <2>1. Early \in SUBSET Nat
    BY <1>1
  <2>2. PICK m \in Early : \A j \in Early : m <= j
    <3> HIDE DEF Early
    <3> QED
      BY <1>7, <2>1, FirstPlace
  <2>3. m \in 1..n /\ ~(closed(m) <= opened(m)) /\ m # 1
    BY <1>5, <2>2
  <2>4. PICK j \in 1..n : m = j + 1
    <3>1. m - 1 \in 1..n /\ m = (m - 1) + 1
      BY <1>1, <2>3
    <3> QED
      BY <3>1
  <2>5. closed(j) <= opened(j)
    <3>1. j < m
      BY <1>1, <2>4
    <3>2. j \notin Early
      BY <1>1, <2>2, <2>4, <3>1
    <3> QED
      BY <3>2
  <2>6. /\ opened(j) <= opened(m) /\ closed(m) <= closed(j) + 1
        /\ opened(j) \in Nat /\ closed(j) \in Nat /\ opened(m) \in Nat /\ closed(m) \in Nat
    BY <1>2, <1>6, <2>3, <2>4
  <2>7. opened(j) = closed(j)
    BY <2>3, <2>5, <2>6
  <2>8. j = n
    BY <1>4, <2>7
  <2> QED
    BY <1>1, <2>3, <2>4, <2>8
<1>8. closed(i) <= opened(i)
  BY <1>7 DEF n
<1> QED
  BY <1>2, <1>8 DEF n

\* A brace that is opened before the object and never closed stays open.
LEMMA StaysOpen ==
    ASSUME NEW S, NEW object \in Seq(S), IsObject(object), NEW text \in Seq(S),
           NEW b \in Nat, Stands(object, text, b), NEW s \in 1..b, NEW O, NEW C,
           text[s] \in O, \A i \in 1..b : text[i] \notin C,
           \A i \in (b + Len(object) + 1)..Len(text) : text[i] \notin C,
           \A i \in 1..Len(object) :
              Count(SubSeq(object, 1, i), C) <= Count(SubSeq(object, 1, i), O),
           NEW i \in s..Len(text)
    PROVE  Count(SubSeq(text, s, i), C) < Count(SubSeq(text, s, i), O)
<1> DEFINE n == Len(object)
           placed(a, c, T) == Cardinality(Places(text, a, c, T))
<1>1. n \in Nat /\ n >= 2 /\ Len(text) \in Nat /\ b + n <= Len(text)
  <2>1. Len(object) >= 2
    BY ObjectCounts
  <2> QED
    BY <2>1 DEF Stands
<1>2. \A a, c \in Nat : \A T : placed(a, c, T) \in Nat
  BY PlacesAreFinite
<1>3. \A a, c \in Nat : (\A k \in a..c : text[k] \notin C) => placed(a, c, C) = 0
  <2> SUFFICES ASSUME NEW a \in Nat, NEW c \in Nat, \A k \in a..c : text[k] \notin C
               PROVE  placed(a, c, C) = 0
    OBVIOUS
  <2>1. Places(text, a, c, C) = {}
    BY DEF Places
  <2> QED
    BY <2>1, FS_EmptySet
<1>4. \A c \in Nat : s <= c => placed(s, c, O) > 0
  <2> SUFFICES ASSUME NEW c \in Nat, s <= c PROVE placed(s, c, O) > 0
    OBVIOUS
  <2>1. s \in Places(text, s, c, O) /\ s \in Nat
    BY DEF Places
  <2>2. IsFiniteSet(Places(text, s, c, O)) /\ placed(s, c, O) \in Nat
    BY <2>1, PlacesAreFinite
  <2>3. placed(s, c, O) # 0
    BY <2>1, <2>2, FS_EmptySet
  <2> QED
    BY <2>2, <2>3
<1>5. \A T : \A a, m, c \in Nat : a <= m + 1 /\ m <= c =>
         placed(a, c, T) = placed(a, m, T) + placed(m + 1, c, T)
  BY PlacesAdd
<1>6. ASSUME NEW j \in 1..n
      PROVE  placed(b + 1, b + j, C) <= placed(b + 1, b + j, O)
  <2>1. /\ b + 1 \in Nat \ {0} /\ b + j \in Nat /\ b + j <= Len(text)
        /\ b + 1 <= (b + j) + 1
    BY <1>1
  <2>2. /\ Count(SubSeq(text, b + 1, b + j), C) = placed(b + 1, b + j, C)
        /\ Count(SubSeq(text, b + 1, b + j), O) = placed(b + 1, b + j, O)
    BY <2>1, CountsPlaces
  <2>3. SubSeq(text, b + 1, b + j) = SubSeq(object, 1, j)
    BY DEF Stands
  <2>4. Count(SubSeq(object, 1, j), C) <= Count(SubSeq(object, 1, j), O)
    OBVIOUS
  <2> QED
    BY <2>2, <2>3, <2>4
<1>7. /\ Count(SubSeq(text, s, i), C) = placed(s, i, C)
      /\ Count(SubSeq(text, s, i), O) = placed(s, i, O)
  <2>1. s \in Nat \ {0} /\ i \in Nat /\ i <= Len(text) /\ s <= i + 1
    BY <1>1
  <2> QED
    BY <2>1, CountsPlaces
<1> HIDE DEF placed, n
<1>8. s \in Nat /\ i \in Nat /\ s <= b /\ s <= i /\ i <= Len(text)
  BY <1>1
<1>9. \A k \in Nat : s <= k /\ k <= b => placed(s, k, C) = 0 /\ placed(s, k, O) > 0
  BY <1>3, <1>4, <1>8
<1>10. \A k \in Nat : b < k /\ k <= b + n => placed(s, k, C) < placed(s, k, O)
  <2> SUFFICES ASSUME NEW k \in Nat, b < k, k <= b + n
               PROVE  placed(s, k, C) < placed(s, k, O)
    OBVIOUS
  <2>1. /\ placed(s, k, C) = placed(s, b, C) + placed(b + 1, k, C)
        /\ placed(s, k, O) = placed(s, b, O) + placed(b + 1, k, O)
    <3>1. s <= b + 1 /\ b <= k
      BY <1>8
    <3> QED
      BY <1>5, <1>8, <3>1
  <2>2. placed(b + 1, k, C) <= placed(b + 1, k, O)
    <3>1. k - b \in 1..n /\ b + (k - b) = k
      BY <1>1
    <3> QED
      BY <1>6, <3>1
  <2>3. placed(s, b, C) = 0 /\ placed(s, b, O) > 0
    BY <1>8, <1>9
  <2>4. /\ placed(s, b, C) \in Nat /\ placed(s, b, O) \in Nat
        /\ placed(b + 1, k, C) \in Nat /\ placed(b + 1, k, O) \in Nat
    BY <1>2, <1>8
  <2> QED
    BY <2>1, <2>2, <2>3, <2>4
<1>11. ASSUME b + n < i PROVE placed(s, i, C) < placed(s, i, O)
  <2>1. b + n \in Nat /\ (b + n) + 1 \in Nat /\ s <= (b + n) + 1 /\ b + n <= i
    BY <1>1, <1>8, <1>11
  <2>2. /\ placed(s, i, C) = placed(s, b + n, C) + placed((b + n) + 1, i, C)
        /\ placed(s, i, O) = placed(s, b + n, O) + placed((b + n) + 1, i, O)
    BY <1>5, <1>8, <2>1
  <2>3. placed((b + n) + 1, i, C) = 0
    <3>1. \A k \in ((b + n) + 1)..i : k \in (b + Len(object) + 1)..Len(text)
      BY <1>1, <1>8 DEF n
    <3> QED
      BY <1>3, <1>8, <2>1, <3>1
  <2>4. placed(s, b + n, C) < placed(s, b + n, O)
    BY <1>1, <1>10, <2>1
  <2>5. /\ placed(s, b + n, C) \in Nat /\ placed(s, b + n, O) \in Nat
        /\ placed((b + n) + 1, i, O) \in Nat
    BY <1>2, <1>8, <2>1
  <2> QED
    BY <2>2, <2>3, <2>4, <2>5
<1>12. i <= b \/ (b < i /\ i <= b + n) \/ b + n < i
  BY <1>1, <1>8
<1> QED
  BY <1>7, <1>8, <1>9, <1>10, <1>11, <1>12

\* In the text around it, an object stands after what is before it.
LEMMA ObjectStands ==
    ASSUME NEW S, NEW before \in Seq(S), NEW object \in Seq(S), NEW after \in Seq(S),
           NEW text, text = before \o object \o after
    PROVE  Stands(object, text, Len(before))
<1>1. /\ text \in Seq(S)
      /\ Len(text) = Len(before) + Len(object) + Len(after)
      /\ \A i \in 1..Len(object) : text[Len(before) + i] = object[i]
      /\ \A i \in 1..Len(object) :
            SubSeq(text, Len(before) + 1, Len(before) + i) = SubSeq(object, 1, i)
  BY AroundObject
<1>2. Len(before) \in Nat /\ Len(object) \in Nat /\ Len(after) \in Nat
  OBVIOUS
<1>3. Len(before) + Len(object) <= Len(text)
  <2>1. \A p, q, r \in Nat : p + q <= p + q + r
    OBVIOUS
  <2> QED
    BY <1>1, <1>2, <2>1
<1> QED
  BY <1>1, <1>3 DEF Stands

\* A part of a part of a text is a part of it.
LEMMA PartInPart ==
    ASSUME NEW S, NEW text \in Seq(S), NEW p \in Nat, NEW c \in Nat, p <= c, c <= Len(text),
           NEW i \in 1..(c - p), NEW j \in i..(c - p)
    PROVE  SubSeq(SubSeq(text, p + 1, c), i, j) = SubSeq(text, p + i, p + j)
<1> DEFINE part == SubSeq(text, p + 1, c)
           u == SubSeq(part, i, j)
           v == SubSeq(text, p + i, p + j)
<1>1. part \in Seq(S) /\ Len(part) = c - p /\ \A k \in 1..(c - p) : part[k] = text[p + k]
  OBVIOUS
<1>2. v \in Seq(S) /\ Len(v) = j - i + 1
      /\ \A k \in 1..(j - i + 1) : v[k] = text[(p + i) + k - 1]
  OBVIOUS
<1> HIDE DEF part
<1>3. u \in Seq(S) /\ Len(u) = j - i + 1
      /\ \A k \in 1..(j - i + 1) : u[k] = part[i + k - 1]
  BY <1>1
<1> HIDE DEF u, v
<1>4. \A k \in 1..(j - i + 1) : u[k] = v[k]
  <2>1. \A k \in 1..(j - i + 1) : /\ i + k - 1 \in 1..(c - p)
                                  /\ p + (i + k - 1) = (p + i) + k - 1
    OBVIOUS
  <2> QED
    BY <1>1, <1>2, <1>3, <2>1
<1> QED
  BY <1>2, <1>3, <1>4, SeqEqual DEF part, u, v

\* No brace is opened after place p and up to b.
Unopened(text, p, b) == \A i \in (p + 1)..b : text[i] \notin Opening

\* What is said of a part of a text and the object after place b.
ReadsIn(object, text, b, p, c) ==
    LET part == SubSeq(text, p + 1, c)
    IN  /\ Parsed(part) \in {object, None}
        /\ b + Len(object) <= c /\ text[p + 1] # "[" /\ Flat(object)
              => Parsed(part) = object
        /\ p = b /\ c = b + Len(object) => Parsed(part) = object

\* Of a part of a text that begins before the object with no brace opened, the
\* object is read or nothing; it is read where it is all of that part, or is in
\* that part, which starts no array, and has strings without braces.
LEMMA ReadPart ==
    ASSUME NEW S, NEW object \in Seq(S), IsObject(object), NEW text \in Seq(S),
           NEW b \in Nat, Stands(object, text, b), NEW p \in Nat, p <= b,
           NEW c \in Nat, p <= c, c <= Len(text),
           Unopened(text, p, b)
    PROVE  ReadsIn(object, text, b, p, c)
<1> DEFINE n == Len(object)
           part == SubSeq(text, p + 1, c)
<1>1. n \in Nat /\ n >= 2 /\ Len(text) \in Nat /\ b + n <= Len(text)
  <2>1. Len(object) >= 2
    BY ObjectCounts
  <2> QED
    BY <2>1 DEF Stands
<1>2. /\ part \in Seq(S) /\ Len(part) = c - p
      /\ \A i \in 1..(c - p) : part[i] = text[p + i]
  OBVIOUS
<1>2a. \A i \in (p + 1)..b : text[i] \notin Opening
  BY DEF Unopened
<1>3. \A i \in 1..(c - p) : \A j \in i..(c - p) :
         SubSeq(part, i, j) = SubSeq(text, p + i, p + j)
  BY PartInPart DEF part
<1> HIDE DEF part
<1>4. text[b + 1] = "{" /\ b + 1 <= Len(text)
  <2>1. object[1] = "{"
    BY ObjectCounts, Zenon
  <2>2. 1 \in 1..Len(object) /\ b + 1 <= Len(text)
    BY <1>1
  <2>3. text[b + 1] = object[1]
    BY <2>2 DEF Stands
  <2> QED
    BY <2>1, <2>2, <2>3, Zenon
<1>5. \A e \in (b + 1)..Len(text) :
         IsObject(SubSeq(text, b + 1, e)) => SubSeq(text, b + 1, e) = object
  BY OnlyObject
<1>6. "{" \in Opening
  BY DEF Opening
<1>7. ASSUME IsObject(part) PROVE part = object
  <2>1. Len(part) >= 2 /\ part[1] = "{"
    BY <1>2, <1>7, ObjectCounts, Zenon
  <2>2. c - p >= 2 /\ 1 \in 1..(c - p) /\ c - p \in 1..(c - p) /\ p + (c - p) = c
    <3>1. Len(part) >= 2 /\ Len(part) = c - p
      BY <1>2, <2>1, Zenon
    <3> QED
      BY <3>1
  <2>3. text[p + 1] \in Opening
    <3>1. part[1] = text[p + 1]
      BY <1>2, <2>2
    <3> QED
      BY <1>6, <2>1, <3>1, Zenon
  <2>4. p = b
    <3>1. p + 1 \notin (p + 1)..b
      BY <1>2a, <2>3
    <3> QED
      BY <3>1
  <2>5. c \in (b + 1)..Len(text)
    BY <1>1, <2>2, <2>4
  <2> QED
    BY <1>5, <1>7, <2>4, <2>5 DEF part
<1> DEFINE opens == {i \in DOMAIN part : part[i] \in Opening}
           s == Min(opens)
           ends == Balanced(part, s)
           read == SubSeq(part, s, Min(ends))
<1>8. ASSUME opens # {}, ends # {}, IsObject(read) PROVE read = object
  <2>1. opens \in SUBSET (1..(c - p)) /\ opens \in SUBSET Nat
    BY <1>2
  <2>2. s \in opens /\ \A i \in opens : s <= i
    <3> HIDE DEF opens
    <3> QED
      BY <1>8, <2>1, FirstPlace
  <2>3. s \in 1..(c - p) /\ text[p + s] \in Opening
    BY <1>2, <2>1, <2>2
  <2> HIDE DEF s
  <2>4. p + s \in Nat /\ b < p + s
    <3>1. p + s \in Nat /\ (b < p + s \/ p + s \in (p + 1)..b)
      BY <2>3
    <3> QED
      BY <1>2a, <2>3, <3>1
  <2>5. (b + 1) - p \in 1..(c - p) /\ p + ((b + 1) - p) = b + 1
    BY <2>3, <2>4
  <2>6. (b + 1) - p \in opens
    <3>1. part[(b + 1) - p] = text[b + 1] /\ DOMAIN part = 1..(c - p)
      BY <1>2, <2>5
    <3>2. part[(b + 1) - p] \in Opening
      BY <1>4, <1>6, <3>1, Zenon
    <3> QED
      BY <2>5, <3>1, <3>2, Zenon
  <2>7. p + s = b + 1
    <3>1. s <= (b + 1) - p
      BY <2>2, <2>6
    <3> QED
      BY <2>3, <2>4, <3>1
  <2>8. ends \in SUBSET (s..(c - p)) /\ ends \in SUBSET Nat
    BY <1>2, <2>3 DEF Balanced
  <2>9. Min(ends) \in s..(c - p)
    <3> HIDE DEF ends
    <3> QED
      BY <1>8, <2>8, FirstPlace
  <2> HIDE DEF ends
  <2>10. read = SubSeq(text, b + 1, p + Min(ends))
    BY <1>3, <2>3, <2>7, <2>9
  <2>11. p + Min(ends) \in (b + 1)..Len(text)
    BY <1>1, <2>3, <2>7, <2>9
  <2> HIDE DEF read
  <2> QED
    BY <1>5, <1>8, <2>10, <2>11
<1>9. Salvaged(part) \in {object, None}
  <2>1. Salvaged(part) = IF opens # {} /\ ends # {} /\ IsObject(read) THEN read ELSE None
    BY DEF Salvaged
  <2> HIDE DEF read, ends, s, opens
  <2> QED
    BY <1>8, <2>1
<1> HIDE DEF n
<1>10. ASSUME b + n <= c, Flat(object) PROVE Salvaged(part) = object
  <2>1. /\ b - p \in Nat /\ (b - p) + n <= c - p
        /\ \A i \in 1..n : /\ (b - p) + i \in 1..(c - p) /\ p + ((b - p) + i) = b + i
                           /\ (b - p) + 1 \in 1..(c - p) /\ p + ((b - p) + 1) = b + 1
                           /\ (b - p) + i \in ((b - p) + 1)..(c - p)
    BY <1>1, <1>10
  <2>2. \A i \in 1..n : part[(b - p) + i] = text[b + i]
    BY <1>2, <2>1
  <2>3. \A i \in 1..n :
           SubSeq(part, (b - p) + 1, (b - p) + i) = SubSeq(text, b + 1, b + i)
    BY <1>3, <2>1
  <2>4. Stands(object, part, b - p)
    <3>1. /\ \A i \in 1..n : text[b + i] = object[i]
          /\ \A i \in 1..n : SubSeq(text, b + 1, b + i) = SubSeq(object, 1, i)
      BY DEF Stands, n
    <3>2. (b - p) + n <= Len(part)
      BY <1>2, <2>1
    <3> QED
      BY <2>2, <2>3, <3>1, <3>2 DEF Stands, n
  <2>5. \A i \in 1..(b - p) : part[i] \notin Opening
    <3>1. \A i \in 1..(b - p) : i \in 1..(c - p) /\ p + i \in (p + 1)..b
      BY <1>1, <1>10
    <3> QED
      BY <1>2, <1>2a, <3>1
  <2> QED
    BY <1>2, <1>10, <2>1, <2>4, <2>5, SalvagedIsObject
<1>11. ASSUME IsArray(part) PROVE text[p + 1] = "["
  <2>1. part[1] = "[" /\ Len(part) >= 2
    BY <1>11 DEF IsArray
  <2>2. 1 \in 1..(c - p)
    BY <1>2, <2>1
  <2> QED
    BY <1>2, <2>1, <2>2
<1>12. p = b /\ c = b + n => part = object
  <2> SUFFICES ASSUME p = b, c = b + n PROVE part = object
    OBVIOUS
  <2>1. n \in 1..n /\ SubSeq(object, 1, n) = object
    BY <1>1 DEF n
  <2> QED
    BY <2>1 DEF Stands, n, part
<1> QED
  BY <1>7, <1>9, <1>10, <1>11, <1>12 DEF Parsed, ReadsIn, n, part

\* The first token of a part of a text, and the rest.
LEMMA TailOfPart ==
    ASSUME NEW S, NEW text \in Seq(S), NEW c \in Nat, 1 <= c, c <= Len(text),
           SubSeq(text, 2, c) # <<>>
    PROVE  /\ 2 <= c /\ Head(SubSeq(text, 2, c)) = text[2]
           /\ Tail(SubSeq(text, 2, c)) = SubSeq(text, 3, c)
<1> DEFINE w == SubSeq(text, 2, c)
           v == SubSeq(text, 3, c)
<1>1. 2 <= c
  <2>1. Len(SubSeq(text, 2, c)) = c - 1 /\ SubSeq(text, 2, c) \in Seq(S)
    OBVIOUS
  <2>2. c - 1 # 0
    BY <2>1
  <2> QED
    BY <2>2
<1>2. w \in Seq(S) /\ Len(w) = c - 1 /\ \A i \in 1..(c - 1) : w[i] = text[i + 1]
  BY <1>1
<1>3. v \in Seq(S) /\ Len(v) = c - 2 /\ \A i \in 1..(c - 2) : v[i] = text[i + 2]
  BY <1>1
<1> HIDE DEF w, v
<1>4. w # <<>> /\ 1 \in 1..(c - 1)
  BY <1>1, <1>2
<1>5. Head(w) = text[2]
  BY <1>2, <1>4
<1>6. /\ Tail(w) \in Seq(S) /\ Len(Tail(w)) = c - 2
      /\ \A i \in 1..(c - 2) : Tail(w)[i] = w[i + 1]
  BY <1>2, <1>4
<1>7. \A i \in 1..(c - 2) : Tail(w)[i] = v[i]
  <2>1. \A i \in 1..(c - 2) : i + 1 \in 1..(c - 1) /\ (i + 1) + 1 = i + 2
    OBVIOUS
  <2> QED
    BY <1>2, <1>3, <1>6, <2>1
<1>8. Tail(w) = v
  BY <1>3, <1>6, <1>7, SeqEqual
<1> QED
  BY <1>1, <1>5, <1>8 DEF w, v

\* The place of a brace.
BraceAt(text, i) == text[i] = "{"

\* What is read is the part after place p, up to c, of a text with an object
\* after place b: all of it, or up to a fence after the first.
ReadsPart(text, b, p, c) ==
    /\ Unfenced(text) = SubSeq(text, p + 1, c)
    /\ p <= b /\ p <= c /\ c <= Len(text)
    /\ text[1] # "fence" => p = 0 /\ c = Len(text)
    /\ text[1] = "fence" =>
          \A m \in 1..Len(text) : (\A i \in 2..m : text[i] \notin Fence) => m <= c

\* What is read is a part of the text that begins at the object or before it:
\* all of it, or what is up to the second fence.
LEMMA UnfencedPart ==
    ASSUME NEW S, NEW text \in Seq(S), NEW b \in Nat, b + 1 <= Len(text), BraceAt(text, b + 1)
    PROVE  \E p, c \in Nat : ReadsPart(text, b, p, c)
<1>1. Len(text) \in Nat /\ Len(text) >= 1 /\ text # <<>> /\ Head(text) = text[1]
      /\ SubSeq(text, 1, Len(text)) = text
  OBVIOUS
<1>2. CASE text[1] # "fence"
  <2>1. Unfenced(text) = text
    BY <1>1, <1>2 DEF Unfenced
  <2>2. ReadsPart(text, b, 0, Len(text))
    BY <1>1, <1>2, <2>1 DEF ReadsPart
  <2> QED
    BY <1>1, <2>2
<1>3. CASE text[1] = "fence"
  <2> DEFINE fences == {i \in 2..Len(text) : text[i] \in Fence}
             cut == IF fences = {} THEN Len(text) ELSE Min(fences) - 1
             inner == SubSeq(text, 2, cut)
  <2>1. Unfenced(text) = IF inner # <<>> /\ Head(inner) = "json" THEN Tail(inner) ELSE inner
    BY <1>1, <1>3 DEF Unfenced
  <2>2. /\ cut \in Nat /\ 1 <= cut /\ cut <= Len(text)
        /\ \A m \in 1..Len(text) : (\A i \in 2..m : text[i] \notin Fence) => m <= cut
    <3>1. CASE fences = {}
      BY <1>1, <3>1
    <3>2. CASE fences # {}
      <4>1. fences \in SUBSET (2..Len(text)) /\ fences \in SUBSET Nat
        BY <1>1
      <4>2. Min(fences) \in fences
        <5> HIDE DEF fences
        <5> QED
          BY <3>2, <4>1, FirstPlace
      <4>3. Min(fences) \in 2..Len(text) /\ text[Min(fences)] \in Fence
        BY <4>2
      <4> HIDE DEF fences
      <4>4. \A m \in 1..Len(text) : (\A i \in 2..m : text[i] \notin Fence) => m <= Min(fences) - 1
        <5> SUFFICES ASSUME NEW m \in 1..Len(text), \A i \in 2..m : text[i] \notin Fence,
                            ~(m <= Min(fences) - 1)
                     PROVE  FALSE
          OBVIOUS
        <5>1. Min(fences) \in 2..m
          BY <1>1, <4>3
        <5> QED
          BY <4>3, <5>1
      <4> QED
        BY <1>1, <3>2, <4>3, <4>4
    <3> QED
      BY <3>1, <3>2
  <2> HIDE DEF cut
  <2>3. b >= 1
    <3>1. ASSUME b = 0 PROVE FALSE
      <4>1. b + 1 = 1
        BY <3>1
      <4> QED
        BY <1>3, <4>1, Zenon DEF BraceAt
    <3> QED
      BY <3>1
  <2>4. CASE inner # <<>> /\ Head(inner) = "json"
    <3>1. 2 <= cut /\ text[2] = "json" /\ Tail(inner) = SubSeq(text, 3, cut)
      BY <1>1, <2>2, <2>4, TailOfPart
    <3>2. b >= 2
      <4>1. ASSUME b = 1 PROVE FALSE
        <5>1. b + 1 = 2
          BY <4>1
        <5> QED
          BY <3>1, <5>1, Zenon DEF BraceAt
      <4> QED
        BY <2>3, <4>1
    <3>3. ReadsPart(text, b, 2, cut)
      BY <1>3, <2>1, <2>2, <2>4, <3>1, <3>2 DEF ReadsPart
    <3> QED
      BY <2>2, <3>3
  <2>5. CASE ~(inner # <<>> /\ Head(inner) = "json")
    <3>1. ReadsPart(text, b, 1, cut)
      BY <1>3, <2>1, <2>2, <2>3, <2>5 DEF ReadsPart
    <3> QED
      BY <2>2, <3>1
  <2> QED
    BY <2>4, <2>5
<1> QED
  BY <1>2, <1>3

\* A text that begins with no fence is read as it is.
LEMMA NotUnfenced ==
    ASSUME NEW S, NEW text \in Seq(S), text # <<>>, text[1] # "fence"
    PROVE  ExtractJson(text) = Parsed(text)
<1>1. Head(text) = text[1]
  OBVIOUS
<1>2. Unfenced(text) = text
  BY <1>1 DEF Unfenced
<1> QED
  BY <1>2 DEF ExtractJson

\* After a brace that stays open, nothing is read.
LEMMA ReadOpened ==
    ASSUME NEW S, NEW before \in Seq(S), NEW object \in Seq(S), NEW after \in Seq(S),
           IsObject(object), Flat(object), before[1] # "fence",
           NEW k \in 1..Len(before), before[k] \in Opening,
           \A i \in 1..Len(before) : before[i] \notin Closing,
           \A i \in 1..Len(after) : after[i] \notin Closing,
           NEW text, text = before \o object \o after
    PROVE  ExtractJson(text) = None
<1> DEFINE b == Len(before)
           n == Len(object)
<1>1. /\ text \in Seq(S) /\ Len(text) = b + n + Len(after)
      /\ \A i \in 1..b : text[i] = before[i]
      /\ \A i \in 1..Len(after) : text[b + n + i] = after[i]
  BY AroundObject
<1>2. Stands(object, text, b)
  BY ObjectStands
<1>3. b \in Nat /\ n \in Nat /\ Len(after) \in Nat /\ k \in 1..b /\ 1 \in 1..b
  OBVIOUS
<1> HIDE DEF n, b
<1>4. \A i \in 1..b : text[i] \notin Closing
  BY <1>1 DEF b
<1>5. \A i \in (b + n + 1)..Len(text) : text[i] \notin Closing
  <2> SUFFICES ASSUME NEW i \in (b + n + 1)..Len(text) PROVE text[i] \notin Closing
    OBVIOUS
  <2>1. \A p, q, r \in Nat : \A j \in (p + q + 1)..(p + q + r) :
           j - (p + q) \in 1..r /\ p + q + (j - (p + q)) = j
    OBVIOUS
  <2>2. i - (b + n) \in 1..Len(after) /\ b + n + (i - (b + n)) = i
    BY <1>1, <1>3, <2>1
  <2>3. text[b + n + (i - (b + n))] = after[i - (b + n)]
    BY <1>1, <2>2
  <2> QED
    BY <2>2, <2>3
<1>6. text # <<>> /\ text[1] # "fence" /\ k \in 1..Len(text) /\ text[k] \in Opening
  <2>1. \A p, q, r \in Nat : \A j \in 1..p : j \in 1..(p + q + r) /\ p + q + r # 0
    OBVIOUS
  <2>2. k \in 1..Len(text) /\ Len(text) # 0
    BY <1>1, <1>3, <2>1
  <2>3. Len(<<>>) = 0
    OBVIOUS
  <2> QED
    BY <1>1, <1>3, <2>2, <2>3
<1>7. ExtractJson(text) = Parsed(text)
  BY <1>1, <1>6, NotUnfenced
<1>8. \A i \in 1..n :
         /\ Count(SubSeq(object, 1, i), {"}"}) <= Count(SubSeq(object, 1, i), {"{"})
         /\ Count(SubSeq(object, 1, i), Closing) <= Count(SubSeq(object, 1, i), Opening)
  <2> SUFFICES ASSUME NEW i \in 1..Len(object)
               PROVE  /\ Count(SubSeq(object, 1, i), {"}"}) <= Count(SubSeq(object, 1, i), {"{"})
                      /\ Count(SubSeq(object, 1, i), Closing)
                            <= Count(SubSeq(object, 1, i), Opening)
    BY DEF n
  <2>1. Count(SubSeq(object, 1, i), {"}"}) <= Count(SubSeq(object, 1, i), {"{"})
    BY NeverBelow
  <2>2. /\ Count(SubSeq(object, 1, i), Opening) = Count(SubSeq(object, 1, i), {"{"})
        /\ Count(SubSeq(object, 1, i), Closing) = Count(SubSeq(object, 1, i), {"}"})
    BY FlatCounts
  <2> QED
    BY <2>1, <2>2
<1>9. \A s \in 1..b : \A O, C :
         /\ text[s] \in O
         /\ \A i \in 1..b : text[i] \notin C
         /\ \A i \in (b + Len(object) + 1)..Len(text) : text[i] \notin C
         /\ \A i \in 1..Len(object) :
               Count(SubSeq(object, 1, i), C) <= Count(SubSeq(object, 1, i), O)
         => \A i \in s..Len(text) :
               Count(SubSeq(text, s, i), C) < Count(SubSeq(text, s, i), O)
  <2> SUFFICES ASSUME NEW s \in 1..b, NEW O, NEW C, text[s] \in O,
                      \A i \in 1..b : text[i] \notin C,
                      \A i \in (b + Len(object) + 1)..Len(text) : text[i] \notin C,
                      \A i \in 1..Len(object) :
                         Count(SubSeq(object, 1, i), C) <= Count(SubSeq(object, 1, i), O),
                      NEW i \in s..Len(text)
               PROVE  Count(SubSeq(text, s, i), C) < Count(SubSeq(text, s, i), O)
    OBVIOUS
  <2> QED
    BY <1>1, <1>2, <1>3, StaysOpen
<1>10. \A s \in 1..b : text[s] \in Opening =>
          \A i \in s..Len(text) :
             Count(SubSeq(text, s, i), Closing) < Count(SubSeq(text, s, i), Opening)
  BY <1>4, <1>5, <1>8, <1>9, Zenon DEF n
<1>11. \A s \in 1..b : text[s] \in {"{"} =>
          \A i \in s..Len(text) :
             Count(SubSeq(text, s, i), {"}"}) < Count(SubSeq(text, s, i), {"{"})
  <2>1. \A i \in 1..b : text[i] \notin {"}"}
    BY <1>4 DEF Closing
  <2>2. \A i \in (b + n + 1)..Len(text) : text[i] \notin {"}"}
    BY <1>5 DEF Closing
  <2> QED
    BY <1>8, <1>9, <2>1, <2>2, Zenon DEF n
<1>12. \A s \in 1..Len(text) : \A i \in s..Len(text) : \A T : Count(SubSeq(text, s, i), T) \in Nat
  <2> SUFFICES ASSUME NEW s \in 1..Len(text), NEW i \in s..Len(text), NEW T
               PROVE  Count(SubSeq(text, s, i), T) \in Nat
    OBVIOUS
  <2>1. s \in Nat \ {0} /\ i \in Nat /\ i <= Len(text) /\ s <= i + 1
    BY <1>1
  <2> QED
    BY <1>1, <2>1, CountsPlaces
<1>13. 1..b \subseteq 1..Len(text)
  <2>1. \A p, q, r \in Nat : 1..p \subseteq 1..(p + q + r)
    OBVIOUS
  <2> QED
    BY <1>1, <1>3, <2>1
<1>14. \A p, q \in Nat : p < q => p # q
  OBVIOUS
<1>15. ~IsObject(text)
  <2> SUFFICES ASSUME IsObject(text) PROVE FALSE
    OBVIOUS
  <2>1. text[1] \in {"{"} /\ 1 \in 1..Len(text) /\ Len(text) \in 1..Len(text)
        /\ Len(text) \in Nat
    <3>1. text[1] = "{"
      BY <1>1, ObjectCounts, Zenon
    <3>2. 1 \in 1..Len(text)
      BY <1>3, <1>13
    <3>3. Len(text) \in Nat
      BY <1>1
    <3>4. Len(text) \in 1..Len(text)
      BY <3>2, <3>3
    <3> QED
      BY <3>1, <3>2, <3>3, <3>4
  <2>2. Count(SubSeq(text, 1, Len(text)), {"{"}) = Count(SubSeq(text, 1, Len(text)), {"}"})
    BY <1>1, <2>1, ObjectCounts, Zenon
  <2>3. Count(SubSeq(text, 1, Len(text)), {"}"}) < Count(SubSeq(text, 1, Len(text)), {"{"})
    BY <1>3, <1>11, <2>1, Zenon
  <2>4. /\ Count(SubSeq(text, 1, Len(text)), {"}"}) \in Nat
        /\ Count(SubSeq(text, 1, Len(text)), {"{"}) \in Nat
    BY <1>12, <2>1, Zenon
  <2> QED
    BY <1>14, <2>2, <2>3, <2>4
<1>16. Salvaged(text) = None
  <2> DEFINE opens == {i \in DOMAIN text : text[i] \in Opening}
             s == Min(opens)
  <2>1. opens \in SUBSET Nat /\ opens \in SUBSET (1..Len(text)) /\ k \in opens
    BY <1>1, <1>6
  <2>2. s \in opens /\ s <= k
    <3> HIDE DEF opens
    <3> QED
      BY <2>1, FirstPlace
  <2>3. s \in 1..b /\ text[s] \in Opening
    <3>1. s \in Nat /\ s \in 1..Len(text) /\ text[s] \in Opening
      BY <2>1, <2>2
    <3> HIDE DEF s, opens
    <3>2. \A p \in Nat : \A j \in 1..p : \A t \in Nat : t \in 1..Len(text) /\ t <= j => t \in 1..p
      BY <1>1
    <3> QED
      BY <1>3, <2>2, <3>1, <3>2
  <2> HIDE DEF s
  <2>4. Balanced(text, s) = {}
    <3> SUFFICES ASSUME NEW i \in s..Len(text),
                        Count(SubSeq(text, s, i), Opening) = Count(SubSeq(text, s, i), Closing)
                 PROVE  FALSE
      BY DEF Balanced
    <3>1. Count(SubSeq(text, s, i), Closing) < Count(SubSeq(text, s, i), Opening)
      BY <1>10, <2>3
    <3>2. /\ Count(SubSeq(text, s, i), Closing) \in Nat
          /\ Count(SubSeq(text, s, i), Opening) \in Nat
      BY <1>12, <1>13, <2>3
    <3> QED
      BY <1>14, <3>1, <3>2
  <2>5. Salvaged(text) =
           IF opens # {} /\ Balanced(text, s) # {}
              /\ IsObject(SubSeq(text, s, Min(Balanced(text, s))))
           THEN SubSeq(text, s, Min(Balanced(text, s))) ELSE None
    BY DEF Salvaged, s
  <2> QED
    BY <2>4, <2>5
<1> QED
  BY <1>7, <1>15, <1>16 DEF Parsed

\* Where a text starts a code block and no other fence is before the object or
\* in it, none is between them.
LEMMA OneFence ==
    ASSUME NEW S, NEW w \in Seq(S), Count(w, Fence) = 1, Len(w) >= 1, w[1] \in Fence
    PROVE  \A i \in 2..Len(w) : w[i] \notin Fence
<1> DEFINE fences == {i \in DOMAIN w : w[i] \in Fence}
<1>1. DOMAIN w = 1..Len(w) /\ Len(w) \in Nat
  OBVIOUS
<1>2. IsFiniteSet(fences) /\ Cardinality(fences) = 1
  <2>1. IsFiniteSet(1..Len(w))
    BY <1>1, FS_Interval
  <2>2. fences \in SUBSET (1..Len(w))
    BY <1>1
  <2> QED
    BY <2>1, <2>2, FS_Subset DEF Count
<1>3. 1 \in fences
  BY <1>1
<1>4. \A i \in 2..Len(w) : w[i] \in Fence => i \in fences /\ i # 1
  BY <1>1
<1> HIDE DEF fences
<1>5. PICK x : fences = {x}
  BY <1>2, FS_Singleton
<1> QED
  BY <1>3, <1>4, <1>5

\* Where no brace is opened before the object, it is read or nothing; it is
\* read where the text is nothing else, or where no bracket is before it, its
\* strings hold no braces, and no fence cuts it off.
LEMMA ReadUnopened ==
    ASSUME NEW before \in Seq(Token), NEW object \in Seq(Token), NEW after \in Seq(Token),
           IsObject(object), \A i \in 1..Len(before) : before[i] \notin Opening,
           NEW text, text = before \o object \o after
    PROVE  /\ ExtractJson(text) \in {object, None}
           /\ before = <<>> /\ after = <<>> => ExtractJson(text) = object
           /\ /\ Flat(object) /\ \A i \in 1..Len(before) : before[i] # "["
              /\ before # <<>> /\ before[1] = "fence" => Count(before \o object, Fence) = 1
              => ExtractJson(text) = object
<1> DEFINE b == Len(before)
           n == Len(object)
<1>1. /\ text \in Seq(Token) /\ Len(text) = b + n + Len(after)
      /\ \A i \in 1..b : text[i] = before[i]
      /\ \A i \in 1..n : text[b + i] = object[i]
  BY AroundObject
<1>2. Stands(object, text, b)
  BY ObjectStands
<1>3. n >= 2
  BY ObjectCounts
<1>3a. object[1] = "{"
  BY ObjectCounts, Zenon
<1>4. b \in Nat /\ n \in Nat /\ Len(after) \in Nat
      /\ (b = 0 <=> before = <<>>) /\ (Len(after) = 0 <=> after = <<>>)
  OBVIOUS
<1>5. /\ before \o object \in Seq(Token) /\ Len(before \o object) = b + n
      /\ \A i \in 1..b : (before \o object)[i] = before[i]
      /\ \A i \in 1..n : (before \o object)[b + i] = object[i]
  OBVIOUS
<1> HIDE DEF b, n
<1>6. text[b + 1] = "{"
  <2>1. 1 \in 1..n
    BY <1>3, <1>4
  <2>2. text[b + 1] = object[1]
    BY <1>1, <2>1
  <2> QED
    BY <1>3a, <2>2, Zenon
<1>7. b + n <= Len(text) /\ b + 1 <= Len(text) /\ b + n \in 1..Len(text) /\ Len(text) \in Nat
  <2>1. \A x, y, z \in Nat : y >= 2 => /\ x + y <= x + y + z /\ x + 1 <= x + y + z
                                       /\ x + y \in 1..(x + y + z) /\ x + y + z \in Nat
    OBVIOUS
  <2>2. Len(text) = b + n + Len(after)
    BY <1>1
  <2>3. n >= 2
    BY <1>3
  <2> QED
    BY <1>4, <2>1, <2>2, <2>3
<1>7a. PICK p, c \in Nat : ReadsPart(text, b, p, c)
  <2>1. BraceAt(text, b + 1)
    BY <1>6 DEF BraceAt
  <2> QED
    BY <1>1, <1>4, <1>7, <2>1, UnfencedPart, Zenon
<1>8. /\ Unfenced(text) = SubSeq(text, p + 1, c)
      /\ p <= b /\ p <= c /\ c <= Len(text)
      /\ text[1] # "fence" => p = 0 /\ c = Len(text)
      /\ text[1] = "fence" =>
            \A m \in 1..Len(text) : (\A i \in 2..m : text[i] \notin Fence) => m <= c
  BY <1>7a DEF ReadsPart
<1>9. \A i \in (p + 1)..b : text[i] \notin Opening
  <2>1. \A i \in (p + 1)..b : i \in 1..b
    BY <1>4
  <2> QED
    BY <1>1, <2>1 DEF b
<1> DEFINE part == SubSeq(text, p + 1, c)
<1>10. /\ Parsed(part) \in {object, None}
       /\ b + n <= c /\ text[p + 1] # "[" /\ Flat(object) => Parsed(part) = object
       /\ p = b /\ c = b + n => Parsed(part) = object
  <2>1. /\ text \in Seq(Token) /\ b \in Nat /\ Stands(object, text, b)
        /\ p <= b /\ p <= c /\ c <= Len(text) /\ Unopened(text, p, b)
    BY <1>1, <1>2, <1>4, <1>8, <1>9 DEF b, Unopened
  <2>2. ReadsIn(object, text, b, p, c)
    BY <2>1, ReadPart
  <2> QED
    BY <2>2 DEF ReadsIn, n
<1>11. ExtractJson(text) = Parsed(part)
  BY <1>8 DEF ExtractJson
<1> HIDE DEF part
<1>12. ASSUME before = <<>>, after = <<>> PROVE p = b /\ c = b + n
  <2>1. b = 0 /\ Len(after) = 0
    BY <1>4, <1>12
  <2>2. b + 1 = 1
    BY <2>1
  <2>3. text[1] = "{"
    BY <1>6, <2>2
  <2>4. p = 0 /\ c = Len(text)
    BY <1>8, <2>3
  <2>5. Len(text) = b + n
    <3>1. Len(text) = b + n + Len(after)
      BY <1>1
    <3> QED
      BY <1>4, <2>1, <3>1
  <2> QED
    BY <2>1, <2>4, <2>5
<1>13. ASSUME \A i \in 1..Len(before) : before[i] # "[",
              before # <<>> /\ before[1] = "fence" => Count(before \o object, Fence) = 1
       PROVE  b + n <= c /\ text[p + 1] # "["
  <2>1. text[p + 1] # "["
    <3>1. p + 1 \in 1..b \/ p + 1 = b + 1
      BY <1>4, <1>8
    <3>2. CASE p + 1 \in 1..b
      BY <1>1, <1>13, <3>2 DEF b
    <3>3. CASE p + 1 = b + 1
      BY <1>6, <3>3
    <3> QED
      BY <3>1, <3>2, <3>3
  <2>2. b + n <= c
    <3>1. CASE text[1] # "fence"
      BY <1>7, <1>8, <3>1
    <3>2. CASE text[1] = "fence"
      <4>1. b # 0
        <5>1. b = 0 => b + 1 = 1
          OBVIOUS
        <5>2. text[b + 1] # "fence"
          BY <1>6
        <5> QED
          BY <3>2, <5>1, <5>2
      <4>2. 1 \in 1..b
        BY <1>4, <4>1
      <4>3. before # <<>> /\ before[1] = "fence" /\ (before \o object)[1] = "fence"
        BY <1>1, <1>4, <1>5, <3>2, <4>1, <4>2
      <4> DEFINE w == before \o object
      <4>4. w \in Seq(Token) /\ Len(w) = b + n /\ Len(w) >= 1
        <5>1. b + n >= 1
          BY <1>3, <1>4
        <5> QED
          BY <1>5, <5>1
      <4>5. w[1] \in Fence /\ Count(w, Fence) = 1
        BY <1>13, <4>3 DEF Fence
      <4>6. \A i \in 1..(b + n) : w[i] = text[i]
        <5> SUFFICES ASSUME NEW i \in 1..(b + n) PROVE w[i] = text[i]
          OBVIOUS
        <5>1. CASE i \in 1..b
          BY <1>1, <1>5, <5>1
        <5>2. CASE i \notin 1..b
          <6>1. i - b \in 1..n /\ b + (i - b) = i
            BY <1>4, <5>2
          <6>2. w[b + (i - b)] = text[b + (i - b)]
            BY <1>1, <1>5, <6>1
          <6> QED
            BY <6>1, <6>2
        <5> QED
          BY <5>1, <5>2
      <4> HIDE DEF w
      <4>7. \A i \in 2..(b + n) : w[i] \notin Fence
        BY <4>4, <4>5, OneFence
      <4>8. \A i \in 2..(b + n) : text[i] \notin Fence
        <5>1. \A i \in 2..(b + n) : i \in 1..(b + n)
          BY <1>4
        <5> QED
          BY <4>6, <4>7, <5>1
      <4> QED
        BY <1>7, <1>8, <3>2, <4>8
    <3> QED
      BY <3>1, <3>2
  <2> QED
    BY <2>1, <2>2
<1> QED
  BY <1>10, <1>11, <1>12, <1>13

----------------------------------------------------------------------------
\* Of a readable text, what AnswerIsRead says of extract_json holds.
LEMMA ReadableIsRead ==
    ASSUME NEW said, Readable(said)
    PROVE  LET text == said.before \o said.object \o said.after
               around == said.before \o said.after
           IN  /\ ExtractJson(text) \in {said.object, None}
               /\ \/ around = <<>>
                  \/ /\ Range(around) \cap ({"[", "]"} \cup Opening \cup Closing) = {}
                     /\ Range(said.object) \cap {"field{", "field}"} = {}
                     /\ Opened(said) => Count(said.before \o said.object, Fence) = 1
                  => ExtractJson(text) = said.object
<1> DEFINE before == said.before
           object == said.object
           after == said.after
           text == before \o object \o after
           around == before \o after
           starts == before # <<>> /\ before[1] = "fence"
           fenced == starts => Count(before \o object, Fence) = 1
<1>1. /\ before \in Seq(Token) /\ object \in Seq(Token) /\ after \in Seq(Token)
      /\ IsObject(object)
  BY DEF Readable
<1>2. \/ Range(before) \cap Opening = {}
      \/ /\ before[1] # "fence"
         /\ Range(before) \cap Closing = {} /\ Range(after) \cap Closing = {}
         /\ Range(object) \cap {"field{", "field}"} = {}
  BY DEF Readable
<1> SUFFICES /\ ExtractJson(text) \in {object, None}
             /\ around = <<>> => ExtractJson(text) = object
             /\ /\ Range(around) \cap ({"[", "]"} \cup Opening \cup Closing) = {}
                /\ Range(object) \cap {"field{", "field}"} = {}
                /\ fenced
                => ExtractJson(text) = object
  BY DEF Opened
<1> HIDE DEF before, object, after
<1>3. \A w \in Seq(Token) : \A T :
         Range(w) \cap T = {} <=> \A i \in 1..Len(w) : w[i] \notin T
  BY DEF Range
<1>4. Flat(object) <=> Range(object) \cap {"field{", "field}"} = {}
  BY <1>1, <1>3 DEF Flat
<1>5. around = <<>> => before = <<>> /\ after = <<>>
  BY <1>1
<1>6. Range(before) \subseteq Range(around)
  <2> SUFFICES ASSUME NEW i \in 1..Len(before) PROVE before[i] \in Range(around)
    BY <1>1 DEF Range
  <2>1. i \in 1..Len(around) /\ around[i] = before[i] /\ around \in Seq(Token)
    BY <1>1
  <2> HIDE DEF around
  <2> QED
    BY <2>1 DEF Range
<1> HIDE DEF around
<1>7. CASE Range(before) \cap Opening = {}
  <2>1. \A i \in 1..Len(before) : before[i] \notin Opening
    BY <1>1, <1>3, <1>7
  <2>2. Range(around) \cap ({"[", "]"} \cup Opening \cup Closing) = {} =>
           \A i \in 1..Len(before) : before[i] # "["
    <3>1. \A i \in 1..Len(before) : before[i] \in Range(before)
      BY <1>1 DEF Range
    <3> QED
      BY <1>6, <3>1
  <2>3. /\ ExtractJson(text) \in {object, None}
        /\ before = <<>> /\ after = <<>> => ExtractJson(text) = object
        /\ Flat(object) /\ (\A i \in 1..Len(before) : before[i] # "[") /\ fenced
              => ExtractJson(text) = object
    BY <1>1, <2>1, ReadUnopened
  <2> HIDE DEF text, fenced
  <2> QED
    BY <1>4, <1>5, <2>2, <2>3
<1>8. CASE /\ Range(before) \cap Opening # {} /\ before[1] # "fence"
           /\ Range(before) \cap Closing = {} /\ Range(after) \cap Closing = {}
           /\ Range(object) \cap {"field{", "field}"} = {}
  <2>1. PICK k \in 1..Len(before) : before[k] \in Opening
    BY <1>1, <1>3, <1>8
  <2>2. /\ \A i \in 1..Len(before) : before[i] \notin Closing
        /\ \A i \in 1..Len(after) : after[i] \notin Closing
    BY <1>1, <1>3, <1>8
  <2>3. Flat(object)
    BY <1>4, <1>8
  <2>4. ExtractJson(text) = None
    BY <1>1, <1>8, <2>1, <2>2, <2>3, ReadOpened
  <2>5. around # <<>>
    BY <1>5, <2>1
  <2>6. Range(around) \cap ({"[", "]"} \cup Opening \cup Closing) # {}
    BY <1>6, <1>8
  <2> HIDE DEF text, fenced
  <2> QED
    BY <2>4, <2>5, <2>6
<1> QED
  BY <1>2, <1>7, <1>8

\* Whatever else a stack goes through, what it has on record of the last text
\* is what extract_json makes of it.
LEMMA ReadingKept == EvaluationInv /\ ReadingIsTrue /\ [Next]_vars => ReadingIsTrue'
<1> SUFFICES ASSUME EvaluationInv, ReadingIsTrue, [Next]_vars,
                    stack' # None, stack'.reading # None
             PROVE  /\ stack'.reading.said \in Text
                    /\ stack'.reading.read = ExtractJson(stack'.reading.said.before
                          \o stack'.reading.said.object \o stack'.reading.said.after)
  BY DEF ReadingIsTrue
<1>1. stack # None => DOMAIN stack = DOMAIN FreshStack
  BY DEF EvaluationInv, Recorded
<1>2. CASE Start
  BY <1>2 DEF Start, FreshStack, EvaluationInv, StackIsMetered
<1>3. ASSUME NEW c \in TaskClass, NEW allow \in BOOLEAN, NEW reason \in Reason,
             CallModel(c, allow, reason)
      PROVE  /\ stack'.reading.said \in Text
             /\ stack'.reading.read = ExtractJson(stack'.reading.said.before
                   \o stack'.reading.said.object \o stack'.reading.said.after)
  <2> DEFINE spec == Resolve(routes, c, allow)
             opted == stack.opted /\ (spec.sovereign \/ (allow /\ reason # ""))
             Read(said) == ExtractJson(said.before \o said.object \o said.after)
  <2>1. \/ stack' = [stack EXCEPT !.opted = opted, !.reading = None]
        \/ \E said \in Text : stack' = [Metered(spec) EXCEPT
              !.opted = opted, !.left = @ \/ ~spec.sovereign,
              !.reading = [said |-> said, read |-> Read(said)]]
    BY <1>3 DEF CallModel
  <2>2. DOMAIN stack = DOMAIN FreshStack
    BY <1>1, <1>3 DEF CallModel
  <2> HIDE DEF spec, opted, Read
  <2>3. PICK said \in Text : stack' = [Metered(spec) EXCEPT
              !.opted = opted, !.left = @ \/ ~spec.sovereign,
              !.reading = [said |-> said, read |-> Read(said)]]
    BY <2>1, <2>2 DEF FreshStack
  <2>4. stack'.reading = [said |-> said, read |-> Read(said)]
    BY <2>2, <2>3 DEF FreshStack, Metered
  <2> QED
    BY <2>4 DEF Read
<1>4. ASSUME NEW tool \in Tool, RunTool(tool)
      PROVE  FALSE
  BY <1>1, <1>4 DEF RunTool, FreshStack
<1>5. CASE Finish
  BY <1>5 DEF Finish
<1>6. CASE Report
  BY <1>6 DEF Report, ReadingIsTrue
<1>7. CASE UNCHANGED vars
  BY <1>7 DEF vars, ReadingIsTrue
<1> QED
  BY <1>2, <1>3, <1>4, <1>5, <1>6, <1>7 DEF Next

\* For any texts with one object in them, as far as Readable goes: extract_json
\* never reads anything else out of them, reads an object that stands alone
\* whatever its strings hold, and reads one in prose, or in a code block, without
\* braces or brackets, if its own strings hold no brace and no fence cuts it off.
\* gateway/backends.py, extract_json.
THEOREM AnswersAreRead == Spec => []AnswerIsRead
<1>1. Init => ReadingIsTrue
  BY DEF Init, ReadingIsTrue
<1>2. ReadingIsTrue => AnswerIsRead
  <2> SUFFICES ASSUME ReadingIsTrue, stack # None, stack.reading # None
               PROVE  AnswerIsRead
    BY DEF AnswerIsRead
  <2> DEFINE said == stack.reading.said
             text == said.before \o said.object \o said.after
             around == said.before \o said.after
  <2>1. Readable(said) /\ stack.reading.read = ExtractJson(text)
    BY TextAssumption DEF ReadingIsTrue
  <2>2. /\ ExtractJson(text) \in {said.object, None}
        /\ \/ around = <<>>
           \/ /\ Range(around) \cap ({"[", "]"} \cup Opening \cup Closing) = {}
              /\ Range(said.object) \cap {"field{", "field}"} = {}
              /\ Opened(said) => Count(said.before \o said.object, Fence) = 1
           => ExtractJson(text) = said.object
    BY <2>1, ReadableIsRead
  <2> QED
    BY <2>1, <2>2 DEF AnswerIsRead
<1> QED
  BY <1>1, <1>2, ReadingKept, EvaluationIsTrue, PTL DEF Spec
=============================================================================
