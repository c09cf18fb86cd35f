# Specifications of sovereign-agent-ops

TLA+ models of the repository's agents, tool server, audit ledger, model gateway
and evaluation, the TLC instances that check them, and TLAPS proofs of what the
safety argument rests on. Paths are relative to `src/sovops/` unless they say otherwise;
`PROJECT.json` names the lines behind every definition.

## 1. Inventory

| component | state it keeps | operations | talks to |
|---|---|---|---|
| reversibility gate, `policy/reversibility.py` | ceilings; one `EpisodeBudget` per incident (held by the tool service) | `rule`, `would_exceed`, `charge` | called by the tool service |
| tool registry, `mcp_server/registry.py` | the tools | `register`, `validate`, `get`, `all` | built once at start-up |
| ops tool service, `mcp_server/server.py` | `_episodes`, `_pending` | `call` (tiers, approved re-call, gate, rollback plan, execute, audit) | gate, registry, ledger, tool handlers |
| MCP endpoint, `mcp_server/app.py` | none | `tools/list`, `tools/call` | HTTP in, tool service |
| tool handlers, `mcp_server/ops_tools.py` | none of their own; the estate, through the docker CLI | metrics, logs, restart, scale and restore memory, drop volume | docker, 30 s timeout each |
| audit ledger, `audit/ledger.py` | rows, chained by hash | `record`, `verify` | tool service |
| MCP client, `mcp_client/client.py` | none | `call`, `list_tools`; 60 s timeout, no retry | MCP endpoint |
| A2A server, `a2a/server.py`, `a2a/types.py` | `TaskStore` | `message/send`, `tasks/get`, `tasks/list`, `tasks/cancel` | one handler per agent |
| A2A client, `a2a/client.py` | none | `send_data`, `get_task`, `cancel`; 600 s timeout, no retry, no deduplication | a peer's A2A server |
| remediation agent, `agents/remediation/agent.py` | plan and episode, in the task's metadata | plan, apply, pause, resume | gateway, MCP client |
| triage agent and rules, `agents/triage/` | diagnosis, in the task's metadata | gather, classify, delegate | MCP client, gateway, A2A client |
| model gateway, `gateway/` | routing table | `resolve`, `complete` with escalation, `load_routing_policy`, `extract_json` | model endpoints |
| evaluation, `evals/` | a `Recorder` and a `MeteredGateway` per scenario; results | `run_scenario`, `summarise`, `gate`, `main` | a whole in-process stack per scenario |
| demo, `scripts/demo.py` | none | builds both agents and the tool server, sends an alert, carries a decision | triage, remediation |
| tracing, `telemetry/tracing.py` | tracer | spans, context propagation | OpenTelemetry |

A caller sends an incident to triage. Triage reads the service through the tool
server with a read-only token, settles what is wrong by rules or with a model,
and delegates to the remediation agent over A2A. That agent plans one tool call,
and makes it with an operator token. The tool server lets it run, within a
ceiling per action and per incident, or refuses it under a reference; the task
then waits in `AUTH_REQUIRED` until a person's decision arrives as a second
message, and an approval makes the agent call again with the reference.

Three processes, then, each with one event loop. No handler awaits, so each
process does one thing at a time, and that is what the code relies on in place
of locks. What makes the behaviour hard is between and around the processes:

* **lost and late calls** - a client gives up (60 s, 600 s) on a request that
  has been read, or will be, and is executed all the same; nothing is retried
  and nothing is recognised as a repetition;
* **restarts** - budgets, approvals, the ledger and tasks are all in memory, in
  different processes, and a restart of one leaves the others' halves behind;
* **messages in any order** - a task that waits for a person takes any message:
  another diagnosis, a decision meant for another task, a cancel;
* **partial failure** - a handler raises after the charge and before the row; a
  tool answers nothing and the diagnosis goes on without it;
* **boundaries** - the ceilings, the clamp on memory limits, bytes cut to
  megabytes and multiplied back, a missing reading that counts as 0.

What makes each part correct:

* gate and tool service: an approval releases once, and just what was refused;
  an incident moves itself by at most its ceiling; data and irreversible actions
  never run without a person; budgets, approvals and ledger agree;
* ledger: what `record` wrote verifies, and what was changed is located;
* remediation: a task acts at most once, as it showed the person who approved
  it; what it answers is true; it is never stuck;
* memory handlers: an undo retraces the limit; a remediation leaves the double
  of the limit it was planned from, which need not be the limit there is;
* triage: nothing is delegated on evidence that is not there; a task says no
  more than its remediation;
* both agents together: an incident is moved by no more than its ceiling,
  however often it is sent; what runs is what the alert's readings call for; a
  task that says "done" is right; nobody is left waiting;
* gateway and evaluation: inference leaves sovereign models only where a caller
  asked for it and said why; no build is let through that broke a rule which is
  not up for a vote, and a scenario that merely went wrong is no such breach.

## 2. Modules

| module | models |
|---|---|
| `Reversibility` | `policy/reversibility.py`: weights, ceilings, `Rule`, `Charged`, and the registry's checks as assumptions |
| `OpsToolService` | `mcp_server/server.py` behind `mcp_server/app.py`: one action per way a call can go, three steps per executed call, restarts |
| `OpsToolServiceAudit` | properties that count rows and add weights |
| `Consent` | abstract specification of the tool service: what is asked, done with consent, and done alone |
| `AuditLedger` | `audit/ledger.py`, and a store somebody tampers with |
| `RemediationPlan` | the pure part of `agents/remediation/agent.py`: candidate, arguments, validation |
| `MemoryLimits` | one container's limit under plans made from a reading and applied later, `scale_memory`, `restore_memory` and the captured rollback |
| `Remediation` | the remediation agent, its task store, its client, and the tool server: extends `OpsToolService` and conjoins the agent's variables |
| `TaskLife` | abstract specification of an agent's tasks as `a2a/server.py` serves them |
| `TriageRules` | `agents/triage/rules.py`: readings, rules, precedence |
| `Triage` | the triage agent, its task store and its client, over a peer that is `TaskLife` |
| `IncidentResponse` | the system: extends `Remediation` and puts it in the place of the peer of `Triage` (`INSTANCE`) |
| `Gateway` | the pure part of `gateway/`: routing, what may leave, what is read out of an answer |
| `Evaluation` | `evals/harness.py` and `evals/runner.py` over `Gateway`, with any agents under evaluation |
| `*Proofs` | the theorems of section 5 |
| `MC_*` | constants for TLC |

How state and actions correspond to the code:

* **`OpsToolService`.** `spent` and `pending` are `_episodes` and `_pending`,
  `ledger` the store's rows, `inflight` the locals of `_execute`, `reply` the
  last answer. The guards `Admitted`, `Known`, `Permitted`, `Write`, ... follow
  `_call` from check to check; every early return is an action (`RejectRequest`
  to `Mismatch`), then `Release`, `RequireHuman`, `Apply`. An executed call is
  `Start`, `Handler`, `RecordOutcome`, because the process can stop at each
  place and because the row is written last. `refused`, `released`, `alone` and
  `restarts` are history.
* **`Remediation`.** `tasks` is the `TaskStore` with the metadata the handler
  uses; `call` is the HTTP call the handler is blocked in, `wire` the requests
  that left and were not read. `Healthy` ... `Remediate` are the paths of
  `handle`, `Decline` and `Approve` those of `_resume`; `Serve`, `HandlerEnds`
  and `Finish` run the tool server's actions for a request of the agent;
  `Pause`, `Complete`, `Fail` are what `_apply` makes of the answer, and
  `GiveUp` the exception `_handle_send` catches. A request whose sender gave up
  stays on `wire`, where it is executed later or dropped.
* **`MemoryLimits`.** `proposed` is the plan a task of the remediation agent
  stores, with the reading it was made from; `Propose` and `Remediate` are apart
  because a plan is applied as it was stored, at once or after a person's
  decision. A reading is true at the time, missing (0), or whatever a caller sent
  (`Readings`). `plans` are the captured rollbacks.
* **`Triage`.** `handling` is the frame of `handle`: the phase it is blocked in,
  and the signals, a partial function as the Python dictionary is; it is `Free`
  while no handler runs. The peer's
  tasks move as `TaskLife` allows, at any time, and its answer is the state its
  task had when its handler returned.
* **`IncidentResponse`.** The wiring of `scripts/demo.py`: `Alerted` is an alert
  sent to triage, `Delegates` and `Delegated` the two ends of
  `A2AClient.send_data`, `Decided` a person at the remediation agent,
  `Remediates` a step of the remediation agent or the tool server, of which
  triage sees no more than the end of what it waits for. An id of a triage task
  is an episode, as in `payload.get("episode_id") or task.id`, and is carried
  through all three processes. `asked` and `delegated` are history: the alert
  behind each remediation task. Alerts carry their signals, as the demo's and the
  evaluation's do; how triage gathers its own is in `Triage`.
* **`Evaluation`.** `stack` is what the harness observes of one scenario, `results`
  the list `main` keeps, `exit` its exit code or a traceback. The stack under
  evaluation calls models and runs tools as it likes and ends in any state, so
  that the gate is judged against every build and not against this one; `truth`
  is what it did. A text a model answers is a sequence of tokens - braces, brackets,
  fields, prose, fences - with the braces and fences inside a string told apart,
  which `extract_json` does not do. `Parsed` is what `json.loads` makes of it: an
  object, a list (an error, and nothing is salvaged), or neither. Costs are whole euro, shares pairs of whole numbers.
* **`AuditLedger`.** A digest is the sequence that was digested, so that it is
  free of collisions; positions count from 1 where Python's count from 0.

Strings, prompts, wording, confidence, evidence texts, spans and identities
beyond the token's tier are left out. Tools, services, arguments and references
are small sets. Percentages are whole numbers.

### Abstract specifications

`Consent` says what the tool service promises about autonomy, and
`ConsentKept` is that `OpsToolService` implements it, with `asked` and `done`
read off the history. `TaskLife` says what a caller may assume of an agent: one
task at work at a time, what is over stays over, an id handed out once, a
restart forgets everything. `Remediation` implements it (`AgentLivesByTheBook`,
checked and proved), `Triage` implements it (`TriageLivesByTheBook`), and
`Triage` assumes it, and nothing else, of the peer it delegates to: that is how
each agent is checked in full without multiplying its states by the other's.
`IncidentResponse` closes the circle: with the remediation agent in the peer's
place, triage still is `Triage` (`TriageAsSpecified`, a refinement whose mapping
takes the peer's tasks from the remediation agent's store).

## 3. Runs

| run | shows | instance |
|---|---|---|
| `service` | an approval runs once and as refused, is used up by nothing else, and is on record; an answer is on record | 2 incidents, 2 arguments, 2 references, 3 tokens, the ceilings 4 and 5, 4 rows, 1 restart |
| `service_books` | ceilings, categorical rules, books and budgets, refusals and releases, and `Consent` | ceilings 64 and 65, 3 rows, 1 restart |
| `attempt_on_record` | violation | as `service`, 3 rows |
| `ledger` | verification of untouched, edited, forged and shortened ledgers | 6 rows, 2 contents |
| `memory` | an undo retraces the limit, a remediation leaves no less than the limit it was planned from and doubles that, and every limit is one the handlers can set | 13 deployed limits, 5 readings callers make up, 8 limits asked for, 1 task's plan, 2 changes |
| `remediation` | all safety properties of `Remediation`, and `TaskLife` | 2 tasks, 7 diagnoses, 2 references, 5 rows, ceilings 3 and 5, a restart of either process |
| `arguments_rejected` | violation | ceilings 4 and 5 |
| `triage` | all properties of `Triage`, `TaskLife`, and that every task ends | 2 tasks, 2 of the peer, 6 pairs of readings, 3 kinds of supplied signals, 1 restart, fairness |
| `healthy_unmeasured` | violation | 1 task |
| `incident` | the whole system: one ceiling per incident, what runs has a cause, "completed" means done, every task of either agent ends, triage over remediation is `Triage` | 2 tasks of either agent, 2 alerts, one of them naming its incident, 1 reference, 3 rows, ceilings 4 and 5, a restart of either agent, fairness |
| `incident_twice` | violation | as `incident` |
| `evaluation` | the gate stops every breach and calls nothing else one; answers are read right or not at all | 2 scenarios, 2 routing tables, with and without a key and a baseline, 15 texts, 1 euro and 1 tool per scenario |

Why the bounds are enough. The code's ceilings are 4 and 16. What matters is the
order of the weights (1 for a container, 4 for a service, 64 for a cluster or data) against
them: 4/5 lets one service-wide action run and refuses the second; 64/65 lets a
cluster-wide action run alone, so that data, which weighs the same, is refused by
the categorical rule and by nothing else; 3/5 refers every increase of memory to
a person, so that pauses are common. Two references and two arguments are what
it takes to present an approval for the wrong call; two incidents, to present it
from the wrong one. Two tasks are what it takes for one task's late call, or an
answer meant for one, to meet another; in `incident` they are also what it takes
to send one incident twice and to delegate it twice. There the tool server is not
restarted, so that the ceiling is the bare one, and the restart is an agent's,
which forgets what it delegated or what it was asked. In `evaluation` one
scenario accepts a pause only and the other an action only, one names a forbidden
tool and leaves another unnamed, and one euro is what one hosted call costs: both
sides of each rule of the gate occur. One restart suffices for every half-lost
state (what survives in the other process is then complete); the theorems hold
for any number. `MaxRows`, `MaxRestarts`, `MaxCrashes`, `MaxPlans`, `MaxCost`,
`MaxRuns` are the only bounds in guards. `Mb = 2` makes a megabyte two bytes: the truncation to
megabytes is then met at every limit with one odd byte. Two changes are what it
takes for one to overtake the reading behind another, and to be undone in order.
The texts put one object - flat, nested, with a brace or a fence in a string - by
itself, into prose, after a brace that stays open, before one that closes nothing,
into a list, and into, behind and around code blocks. Metrics are 94, 95 and
no number, either side of the threshold and beyond reading.

`CHECK_DEADLOCK FALSE` stands where task ids, rows or restarts run out and no
message can be read any more; `service` and `service_books` do check deadlock.

### Fairness

Weak fairness, of the two agents' handlers only. A handler that is blocked in a
call goes on: httpx gives it 60 s to the tool server and 600 s to the peer, a
model that does not answer raises, and between calls the event loop has nothing
else to do (`Handler` in `Triage`; `Returns`, `TriageHandles` and `Delegates` in
`IncidentResponse`). That is enough for no task to stay WORKING, because giving up
is always possible and always caught; no fairness is asked of the tool server, of
docker or of the other agent, and nobody owes the system a message, a decision,
an answer or a restart.

## 4. Divergences

Each is a run TLC finds violated, quoting the line it contradicts; details are in
`PROJECT.json`.

* `AttemptOnRecord`: the row is written after the handler, not before it, so a
  call the process dies in is not in the ledger (`audit/ledger.py:26`).
* `OneRemediationPerIncident`: at most one per task, not per incident; shown on
  the composed system, with one alert sent twice
  (`agents/remediation/agent.py:141`). What does bound it is the ceiling
  (`IncidentBounded`).
* `ArgumentsFitHandler`: an approved `drop_volume` is called with `service`,
  which the handler does not take, and always fails.
* `HealthyWasMeasured`: a container whose memory docker reports as blank or
  `--` reads as 0 %, and is closed as healthy (`tests/test_blind_sensor.py:1`).

Met while modelling, visible in the models, and without a run of their own:

* Tool server. An approval refused in one incident is accepted from another and
  charged there (`mcp_server/server.py:272`; `Release` reads no episode of the
  refusal, and `ReleasedAsRefused` compares none). A compensable action runs
  although its rollback could not be captured (`mcp_server/server.py:372`;
  `RollbackPlan`). A presentation under a reference that is not
  pending, or without an approver, is refused without a row
  (`server.py:264-271`; `UnknownRef`, `NoApprover`), although the repository's
  README says refusals are recorded; a mismatch does leave one.
* Ledger. Deleting the newest row goes unnoticed until, and after, another is
  recorded, since nothing points at it (`audit/ledger.py:13` says every edit and
  deletion shows; `ForgeryIsLocated` can only speak of rows that one followed).
* Remediation. At 4096 MB a memory remediation sets the limit there is
  (`agents/remediation/agent.py:223`; `RemediationGrows` says "not smaller").
  It can also set a lower limit than there is: without a reading the plan is the
  double of 512 MB (`agent.py:221`), and a plan is applied as it was stored, also
  after the limit was raised (`agent.py:427`); `RemediationGrows` is about the
  reading, and the lowered limit is what `UndoRetraces` restores.
  After a restart of the tool server a paused task shows a reference that is
  gone, and its budget starts anew (`PauseCanBeAnswered` and `AutonomyBounded`
  say so).
* Both agents. A decision sent to triage instead of remediation closes the triage
  task (`Triage!Reject`). An approval at remediation leaves triage's task waiting
  for authorisation for good, and a cancel at triage leaves the remediation
  paused: the agents share no task (`agents/triage/agent.py:223`; hence "at this
  moment, or until the peer went on" in `PeerSurfaced`). Alerts that name no
  incident get a budget for every task they are sent as (`EpisodeOf`), so
  `IncidentBounded` speaks of named ones.
* Gateway and evaluation. A call that was let out and then fails is not metered
  (`evals/harness.py:163-186`; `CallModel`). `extract_json` counts braces inside
  strings too, and finds no object where there is one (`gateway/backends.py:207`;
  the exceptions of `AnswerIsRead`), nor in a list around one, from which nothing
  is salvaged (`backends.py:217`), nor behind a fence inside a string of a code
  block (`backends.py:195`). A run refused for a regression still writes
  itself as the next baseline if asked to (`evals/runner.py:426`).

## 5. Proofs

Every safety property a passing run checks, and every refinement, is also a
theorem, for every value of the constants within the named assumptions: any
number of tasks, incidents, rows, restarts and ledger entries, any registry the
start-up checks accept, any ceilings. What follows names, module by module, the
theorems and what had to be added to the property to make it inductive. Those
strengthenings stand beside the properties in the component's module; each was
checked with TLC before it was proved, and is not run any more.

* **`ReversibilityProofs`** - a ruling other than `require_human` stays within
  both ceilings (`AloneIsBounded`), and spending never buys autonomy back
  (`AutonomyOnlyShrinks`). Also what the sums of weights below rest on: a sum over
  a finite set changes by what is added to it, and a part of a set of weights
  weighs no more than the whole.
* **`OpsToolServiceProofs`** - type correctness; `ReleasedAsRefused`,
  `ApprovalNotBurnt`, `AutonomyBounded`, `NothingCategoricalAlone`,
  `PendingIsOnRecord`; `Spec => Promise!Spec`, the refinement of `Consent`; and the
  books. That an approval runs once needs `HeldAsRefused`: whatever is pending was
  refused with just these contents *and was never released*; a release removes it
  in the same step. The ceiling needs `AloneWithinSpent`: what an incident moved
  alone since the last start is part of what it has spent, since approved actions
  are charged too. `RefusalsAccounted` and `BudgetMatchesLedger` equate a count of
  rows, and a sum of weights, with what is waiting and what was spent; they need
  `FewPending` and `FewSpenders` (infinitely many references and incidents are
  allowed, finitely many are ever in use), and one lemma for each way a step
  changes both sides. `AnswerIsOnRecord` is inductive as it stands.
* **`AuditLedgerProofs`** - an untouched ledger verifies; an edit, and a
  forgery or deletion a row follows, is located. The invariant describes every
  row of the store by its predecessor and, after tampering, the one place where
  that fails; it survives whatever is recorded later.
* **`MemoryLimitsProofs`** - `LimitsTypeOK`, `UndoRetraces`, `RemediationGrows`, for a
  megabyte of any number of bytes, any readings and any number of tasks. `Sized` says
  that every rollback captured is the limit before its change in whole megabytes
  (`PlansAreInverses`), that a task keeps the limit computed from its reading, however
  long (`ProposalsAreSized`), and that a remediation left that limit
  (`RemediationIsSized`); that such a limit comes back to the byte where it was one of the clamp's
  is the arithmetic of `//`, `*` and the clamp, in the lemmas.
* **`RemediationProofs`** - `RemSpec => Spec`: the agent, its crashes and lost
  calls are a behaviour the tool server's theorems cover, so an approval the
  agent obtained runs once, too. `OneWritePerTask`, `WorkingIsServed`,
  `TerminalIsFinal`, `ClosedIsQuiet` follow from `CallsAccounted`: a task has one
  chance to reach a handler - a request on its way or a run, never both - which
  is unused while the task is open, gone when it is closed, and can outlive only
  a task that FAILED. `AnswersAreTrue` adds `PlansKept`: every call there is, in
  flight or over, is the one its task's stored plan asks for, in the task's incident,
  an "ok" is the answer to a run, and what closes a task with nothing applied meets
  one that has not used its chance. `RunsAsDisplayed` adds a chain over four places:
  what the tool server refused is what it told the agent (`ToldAsRefused`), that is
  what the status message shows (`ShownAsRefused`), only what was shown is granted,
  and only what was granted is released (`GrantsAreShown`); `PauseCanBeAnswered`
  needs the same of the task's own plan: what was refused is pending for it until it
  is released or its server restarted. Last,
  `RemSpec => Life!Spec`, the refinement of `TaskLife`.
* **`TriageProofs`** - type correctness, `NothingDelegatedBlind`,
  `HealthyWasRead`, `PeerSurfaced`, `LateOnlyWhenFailed`, and
  `Spec => Life!Spec`, the refinement of `TaskLife`, against any peer that
  implements `TaskLife`. The invariant `Consistent` has three parts beside the
  types: the handler works on the one task that is WORKING (`Handled`); signals and
  diagnosis, phase by phase, are what was gathered and what the rules make of it
  (`Diagnosed`); and an answer is the state a task of the peer had while the
  handler waited for it (`Answered`). The rules' precedence is a lemma
  about the first rule that holds (`ClassifyFirst`).
* **`IncidentResponseProofs`** - `System => RemSpec`: in the composed system the
  remediation agent is the one proved about, since every delegation triage makes
  of an alert is a message that module allows for; `OneWritePerTask`,
  `RunsAsDisplayed` and `ConsentKept` carry over. Then `System => TriageAsSpecified`,
  step by step: the remediation agent's store, seen as a peer's life, moves as
  `TaskLife` says, and what is on the wire between the two is what `Triage` says.
  `EveryRunHasACause` and `CompletedMeansDone` come from `Traced`, which follows an
  alert from the frame of triage's handler to the wire, to the task at
  remediation, to its plan, to its call and to its run, and back to the two tasks'
  states. `IncidentBounded` is the ceiling of `OpsToolServiceProofs` carried up: the
  weight of the tasks that ran alone for an incident is at most what the server
  moved alone for it (`AloneIsCharged`), one run at most per task.
* **`EvaluationProofs`** - `CleanExit` and `HardMeansHappened`, for any suite and
  any agents under evaluation, from `EvaluationInv`: the meter is true of the stack
  (`StackIsMetered`), a result is the truth but for what a transport error left
  unlooked at, and then it is no pass (`ResultsAreTrue`), and who was let through
  had nothing but passes (`GateWasShut`). `AnswerIsRead` is about counting braces:
  `StaysOpen` (after a brace that is never closed, no part of the text balances),
  `NeverBelow` (no beginning of an object closes more than it opens), `OneObject`
  (no object goes on after it has balanced) and `SalvagedIsObject`. What is read is
  a part of the text, all of it or what two fences enclose (`UnfencedPart`); of a part
  that opens no brace before the object nothing but the object is an object
  (`OnlyObject`) or is salvaged (`ReadPart`); after a brace that stays open nothing
  is (`ReadOpened`).

Assumptions, all named, all evaluated by TLC on the instances:

* SHA-256 of the arguments is injective (`HashAssumption`); a reference is never
  issued twice (a guard of `RequireHuman`, uuid4 in the code);
* the registry's start-up checks hold of the tools (`RegistryAssumption`); `Tiers`
  gives every token a tier or none; the agent's token is an operator's, and
  none of the tools it may use is read-only (`AgentAssumption`;
  `mcp_server/ops_tools.py:205` and `:227`);
* an approval message names a reference some task has shown, or none (`Nameable`).
  `pending_approvals()` of the tool server, which the demo reads inside its own
  process, would also list a reference whose status message was lost; no endpoint
  serves it, and who approves from it was not shown anything by a task;
* alerts carry signals, name services the system has, and lead to diagnoses
  the remediation agent is modelled for (`AlertAssumption`); what the model says
  is one of the failure modes (`OpinionAssumption`, `CallerAssumption`; anything
  else is an exception in the code);
* answers of a model are one object and what is around it (`TextAssumption`):
  brackets, fences, prose, braces after it, or braces before it that stay open. It
  leaves out prose that opens and closes a brace of its own before the object: that
  offers another object, which `extract_json` may read;
* `None` and the likes stand for absence, and are no members of the sets they are
  added to; readings that are no numbers are no numbers (`ReadingAssumption`).

Sums and counts are proved about without induction: a statement about all finite
sets is proved of a smallest counterexample, which the library's well-foundedness
of finite subsets provides, and one about all positions of a text of the first
one (`FirstPlace`). Recursive definitions could not be treated like that; no
theorem is about one.

Only model-checked: the liveness properties, `TriageEnds` and `EveryTaskEnds`,
since liveness under fairness is out of the prover's reach; and the four
violations of section 4.

## 6. Not modelled

* Tracing (`telemetry/tracing.py`): spans, their nesting and header propagation.
  Nothing it does changes what an agent or the tool server decides; a trace id is
  stored in the ledger's rows and never read back.
* `tools/list`, `tasks/get`, `tasks/list` and Agent Cards change nothing; neither
  do requests that fail to parse or authenticate at an A2A server.
* The docker daemon and the model endpoints are whatever they answer: any reading,
  any text, an exception, or silence.
* What is printed by the demo and the evaluation, latency percentiles and the sums
  of cost and tokens that no decision reads; the writing of a baseline file.
* Of the tool handlers, `restart_service` and `drop_volume` have no state in the
  models beyond having run and having succeeded or failed; the memory handlers
  have theirs in `MemoryLimits`.

## 7. Plan

Built, in this order: gate and tool service, ledger, memory arithmetic,
remediation over the tool server, task life cycle, triage, the two agents and the
tool server as one system, gateway and evaluation; then the proofs, in the
order of section 5.

Left: what triage promises (`PeerSurfaced`, `LateOnlyWhenFailed`) as properties of
the composed system, where a proof has to repeat what an instance of `Triage`
cannot lend; the texts `TextAssumption` leaves out, of which one would
state what is read instead; and, of the code, the tracing and the parts of section 6.
