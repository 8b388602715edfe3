# relay-flow in TLA+

relay-flow runs agents through a workflow graph, one *run* per ticket. A poll
claims a ticket, a durable interpreter walks the graph node by node, an agent in
a terminal works on each node and reports where to go next, and the task system
(Jira or beads) shows the progress in mailbox sub-tickets and comments. This
directory holds a model of it: TLA+ modules, the TLC runs that check them and
the theorems the TLA+ proof system proves about them.

    tlc -workers 2 -config ticket_close.cfg MC_TicketRun   # one run
    tlapm TicketRun_proofs.tla                             # one proof module

Paths below are relative to `src/`.

## 1. The system

| Component | State it keeps | Operations | Talks to | What makes it correct |
|---|---|---|---|---|
| Projection `internal/execution/projection` | SQLite rows of a run: `relay_runs`, node runtimes, processed reports, steps, sessions | conditional updates, one statement or transaction each | everything below | a decision (completed, canceled) is never undone; under the embedded engine the first reason stands |
| Interpreter `internal/execution/goworkflows/interpreter.go`, `activities.go` | locals of `runGraph`, rebuilt from the history of a durable execution | `runGraph`, `retryLoop`, `cancelCleanup` and about twenty activities | projection, task system, runner, harness | effects happen in order and once per visit, whatever is retried or replayed |
| Embedded engine `internal/execution/goworkflows/engine.go` | executions by run id (go-workflows on SQLite) | `EnsureRun`, `SubmitReport`, `CancelRun`, restart of canceling runs in `Start`, retention sweep | interpreter (signals, cancellation), projection | at most one execution per run is under way; a request survives a crash |
| Temporal engine `internal/execution/temporal` | the same on an external server, with an operation journal of its own | the same, and recovery of the projection from visibility | Temporal, projection | as above, with two stores that can disagree |
| Run manager `internal/run/manager.go` | none of its own: the newest run of a ticket and the ticket's claim | `EnsureRun`, `RestartByTicket`, `CancelByTicket`, `BackfillClaimOwner` | engine, task system | one live attempt per ticket; no canceled workflow begins again by itself |
| Recovery, routing `internal/recover`, `internal/router` | none | find claimed tickets at start-up; pick the workflow of a ticket | task system, run manager | a ticket has one workflow or none |
| Workflow store and service `internal/workflow` | one YAML and one hash file per workflow, a journal, the registry | `Put`, `Remove`, crash recovery; `Submit`, `Remove` with rollback | repository binding, run manager | file, hash and registry agree, also after a crash |
| Repositories and pollers `internal/repo` | machine config, registry, one goroutine per repository | `Register`, `Remove`, `reconcile`, `poll` | router, run manager | a removed repository is no longer polled |
| Runners `internal/runner` | terminals and worktrees of orca or herdr | `EnsureEnvironment`, `EnsureTerminal`, `CloseTerminals` | external CLI | a lost create is found again |
| Task systems `internal/task` | tickets, mailboxes and marked comments in Jira or beads | claim, mailboxes, status, comments | external service | a repeated call changes nothing |
| Agent plugins `plugin` | the report in flight, nudges, HITL approval | parse, submit, resend | HTTP server | a report is resent until it is answered |
| Server, client, CLI `internal/server`, `cmd` | start-up lock and readiness | HTTP handlers, `serve`, onboarding | all | nothing is served before recovery |
| Retry, identity, config, harness | none | backoff, run and visit ids, atomic file writes, command lines | all | ids are unique, delays bounded |

### What is hard

* **Three writers of one row.** The interpreter's activities, the engine calls of
  polls and operators, and the start-up reconciliation all write
  `relay_runs.state`. They only agree through the WHERE clauses of
  `projection.go`.
* **Replay and at-least-once activities.** The server may die after an
  activity's effect and before its result is recorded; the activity then runs
  again.
* **Reports without a visit.** A report names its run and node. The visit it
  counts for is looked up when it arrives, by which time the node may not yet,
  or no longer, be at the visit the agent worked on.
* **Decisions on a copied row.** `EnsureRun`, `SubmitReport` and `CancelRun` read
  the row once and act on the copy later.
* **Create, then store.** A terminal exists before its handle is stored.
* **Retries that must be recorded.** `retryLoop` writes its schedule through an
  activity that is not itself retried.
* **Two stores of one truth.** The Temporal executor keeps a run in Temporal and a
  projection of it in SQLite, which can be lost, late, or ahead.
* **One document in three files.** YAML, hash and journal are replaced one at a
  time, and a rollback can fail as well as what it rolls back.
* **Caches over other people's data.** The Jira client remembers statuses and
  transition ids of issues that anybody can move.
* **Handlers that await.** The plugins' handlers of one idle event await several
  calls, and the host may send the event twice.

`PROJECT.json` lists every such place with its line under `hazards`.

## 2. Modules

| Module | What it is |
|---|---|
| `RunLifecycle` | the abstract specification: the state a run may be shown in, and the order |
| `RunProjection` | the rows of one run and one action per statement of `projection.go` |
| `TicketRun` | one run attempt: interpreter, activities, engine calls, agents, faults; EXTENDS `RunProjection` and implements `RunLifecycle` |
| `RunAttempts` | the abstract specification of what the run manager promises about a ticket: numbered attempts, one at a time, barred to polls once canceled |
| `RunDispatch` | the run manager, routing, claims, workflow submission, repository registration and server starts around one ticket; implements `RunAttempts` |
| `RunTimeline` | the step rows and session handles of an attempt, as the Temporal workflow writes them beside the rows of `RunProjection`; attempts that time out and write late |
| `TemporalRun` | one run attempt under the Temporal executor: workflow, projection, engine calls and the rebuild after the projection is lost; EXTENDS `RunProjection` |
| `DocumentStore` | the abstract specification of what the workflow store promises about one name |
| `WorkflowStore` | YAML, hash and journal of one workflow, with forward and rollback transactions and recovery |
| `PollerGroup` | the goroutines that poll, one per registered `Repo` value |
| `ServerRollout` | one server: submissions and removals over `WorkflowStore`, repository requests, bindings and `PollerGroup`; implements `DocumentStore` |
| `AgentHarness` | the plugin in an agent's session: OpenCode, its TUI, Pi |
| `TaskBoard` | what a run writes to Jira or Beads, call by call |
| `MC_TicketRun`, `MC_RunDispatch`, `MC_RunTimeline`, `MC_TemporalRun`, `MC_ServerRollout`, `MC_AgentHarness`, `MC_TaskBoard` | the small instances TLC checks |
| `RunProjection_proofs`, `TicketRun_proofs`, `RunDispatch_proofs`, `RunTimeline_proofs`, `TemporalRun_proofs`, `ServerRollout_proofs`, `AgentHarness_proofs`, `TaskBoard_proofs` | theorems and their proofs |

The modules overlap on purpose where one abstracts what another details:
`TicketRun` takes an operation on the task system as one step and an agent's
report as one message, `TaskBoard` and `AgentHarness` open them up; `RunDispatch`
takes a submission as three steps, `ServerRollout` as the writes it makes;
`RunDispatch` shows a run as a row, `TicketRun` and `TemporalRun` execute it.

### RunProjection

`row` is the `relay_runs` row (`state`, `node` and `visit` as published, `err` for
`last_error`, `retry` for a pending `next_retry_at`), `runtimes` one row per node of
`relay_node_runtime`, `processed` the receipts. SQLite is opened with one
connection, so a statement or transaction is one action. `Fenced` and `Written`
are the WHERE clause and SET list of `updateStateCAS`; `UpdateState`,
`BeginCancellation`, `UpdateRetry`, `UpdateNode` and the others carry the names of
their Go functions. `EmbeddedNext` calls them in any order with any argument the
embedded engine gives them, and `ProjNext` adds what only Temporal's operations write:
`UpdateState` of `canceling` and of a decision, with an operator's reason
(`TemporalCancel`). What holds under `ProjSpec` holds however the callers of either
executor interleave; `EmbeddedSpec` is for what holds under the embedded engine alone.

### TicketRun

* **The execution.** `inst`, `execs`, `cancelReq` and `ctxDone` are the newest
  go-workflows instance of the run id, how many there were, and whether its
  cancellation was requested and taken. The library is modelled from how
  `engine.go` uses it: it creates an instance unless one is active, keeps
  signals and history across a restart, and delivers cancellation between
  awaits.
* **The interpreter.** `pc` names the activity `runGraph` or `cancelCleanup`
  awaits; `After` is the order in which the code calls them. `phase`, `tries` and
  `blocked` are `retryLoop` around it: `call`, `again` (started, result not
  recorded), `note` and `block` (recording the failure), `timer`, `clear` and
  `unblock` (after a retried success). `cur`, `visit`, `seen`, `rep`, `loaded` are the
  locals with those meanings. They are durable, since replay restores them.
* **Activities.** One action each, with everything the activity does. `Done` ends
  it: its result is recorded, or the server dies first and `phase` becomes
  `again`. `EnsureNodeRuntime` is two steps, create and bind, because the code can
  die between them.
* **Engine calls.** `en` (EnsureRun), `cx` (CancelRun and the resubmission in
  `Start`) and `req` (SubmitReport) hold what the handler has read; each step of the
  call is an action, so all of them interleave.
* **Agents.** `msg` is a report on its way. `meant` is the visit its agent was
  prompted for. The code never sees it; properties do.
* **Outside.** `mailbox`, `parent`, `comments`, `cancelText` are the task system,
  `terms` the terminals ever created, in order.
* **Faults.** `Crash` at any time wipes handlers and resubmits a recorded
  cancellation; `TerminalDies`; a failing call (`ActivityFails`, `BindFails`,
  `SendFails`, `CancelFails`, a lost acknowledgement); and a retry schedule that
  cannot be written (`RetryWriteFails`). `Scenarios` says how many of each may
  strike together.

`raced` and `faults` are history for the properties and bounds, `taken` and
`lastVisit` record what the interpreter accepted.

Abstractions. `RequestCancellation` takes the lookup of the instance and the check
of its history together: an instance that is not active never becomes active
except through `PollCreates`, which is an action of its own. An
activity fails before its effect (`ActivityFails`) or after it with its answer lost
(third disjunct of `Done`); one that stops half-way lies between the two, and the
retry repeats it whole. The marks `blocked` and `waiting` around a conflict go through
`scheduleState`, whose error the caller ignores. Reconcile signals
pending are one Boolean, since draining any number of them has the effect of
one. The step rows of the timeline are left out: their errors are swallowed and
nothing reads them to decide. `RunTimeline` has them, in the order of the Temporal
interpreter.

### RunDispatch

One ticket, one repository, several workflows that target it, one server. `runs`
are the rows by workflow and attempt (a run id is that pair), each with the
definition its execution runs, 0 while the row has no execution yet, and `at`, the
order of `started_at`. `ticket` has what Jira's ownership protocol reads: assignee,
`wf:` claims, `wf-owner:` labels, and `fits`, the workflows whose filter it matches
apart from the assignee.

* **The poll** (`poll`) goes through `RepoPoller.poll`, `ResolveWorkflow`, the gate and
  the stages of `RunManager.EnsureRun`, one action between two calls to the task
  system or the database. `seen` is the ticket as polled. Recovery
  (`recover.FromTaskSystem`) puts `validate`, `marked` and `reset` before the gate.
  `PollError` is a call that fails; in recovery it ends the server.
* **Operators**: `rs` (RestartByTicket, under the gate), `cn` (CancelByTicket, without
  it), `BackfillClaimOwner` (its read and its write taken together: it holds the
  gate, and what it adds is the label it read for).
* **Definitions**: `sb` is Submit or Remove of `workflow/service.go`: check under the
  gate, then store, rebind and, when rebinding fails, restore. Definitions are
  numbered as they are submitted.
* **Repository**: `rm` is `repo remove` with its checks; `RepoRegisters` publishes a
  repository without bindings, as `Register` does.
* **Server starts** end everything under way: `StartServer` sweeps old decided runs,
  `RecoverServer` starts from an empty database. Both isolate workflows whose
  repository is not registered.
* **Runs** end by themselves, are announced as canceled and then canceled:
  `active` stands for starting, running, waiting and blocked. How they do it is
  `TicketRun`; that an execution may be created for a run decided meanwhile
  is left to it.
* **Other people** reassign, relabel and reopen the ticket, and other servers claim it,
  also on an old read. Nobody removes labels, which the documents keep as audit.

Left out: task systems without an assignee filter (every server then may claim),
beads' own protocol, several tickets in a batch (they share the gate only).

### RunTimeline

Three copies of one timeline: the table `steps`, the workflow's memory `mem`
(`workflowState.steps`, what its query answers) and `told`, what `stepsFromHistory`
can make of the scheduled activities. `pc` is the next projection activity of
`TicketWorkflow`; each of `OpenVisit`, `BindVisit`, `TakeReport`, `CloseVisit` and so on
writes a step the way `upsertStep` merges it (`Merged`, the CASE of its ON CONFLICT
clause), or a state the way `updateStateCAS` does, which derives the status of the
latest running step by a second statement. `TimesOut` leaves a write in `late`: its
activity has failed for the workflow and `LateRow`, or `LateLookup` and `LateDerive`,
carry it out later, between any two other steps. `Launch` and `StoreHandle` are
`launchReplacement` around `replaceNodeRuntime`; `Register` is `registerNodeSession`, which an
agent's plugin calls at any time. `Operator` is Temporal's `CancelRun`, one call for each
reason and one without any: it finds the run active (`FindActive`), puts the
cancellation on record (`RecordReason`), signals the reason (`SignalReason`) and requests
the cancellation (`RequestCancel`), or finds the workflow closed on the way and writes
its outcome (`FindClosed`). `heard` is the reason the workflow last received. Calls
interleave at every one of these steps, and each may stop after any of them, which
is also what a failing service call does. An operator who calls again would repeat
the steps with a reason that is on record already, so one call each is enough.
`Reconcile` is the outcome `EnsureRun` writes for a closed workflow. `Rebuilt` is what `restoreProjection` makes of a
closed run.

### TemporalRun

* **The service.** `status`, `cancelReq` and the undelivered signals of the newest
  execution. Starting, signalling, querying, describing and canceling are
  modelled from how `operations.go` calls them: each may fail, and a signal or a
  start may have happened though its answer was lost (`SignalLost`, `Ask`).
* **The workflow.** As in `TicketRun`, with the Temporal interpreter's own order of
  activities (`After`), its `retryActivity` (`Phases`) and its wait loop (`Receive`),
  which drops signals of other visits. `mem`, `binds` and `seen` are what its queries
  answer. An activity is tried once by the service, so a dead worker and a lost
  answer are failures after the effect.
* **Engine calls.** `en` is EnsureRun: query, then start, restore the projection
  from the answer (node, then state), signal a reconcile. `req` is SubmitReport, one
  query and one signal. `cx` is CancelRun: mark the row, send the reason, cancel.
* **Losing the projection.** `Recover` is `serve --recover` with an empty database: the
  claim comes from the task system and the rest from the workflow's answers, or
  from its closed status (`StateForStatus`).
* **Faults.** `Crash` of the worker and server, `TerminalDies`, loss of the database
  (`loss`), a failing activity (`fail`), a failing service call (`call`).

### DocumentStore, WorkflowStore, PollerGroup, ServerRollout

`DocumentStore` is one document: an operation decides between the document before
and the one requested, and answers which it was. `WorkflowStore` has the files
`yaml`, `hash` and the journal; `Put`, `Rollback` and `RecoverTransaction` are
their transactions, one file replacement per action. `Write` and `Unlink` let each
succeed, fail, fail after the rename, or be cut off by a crash. `Target` is what a
restart would load, which is the `doc` of the refinement.

`PollerGroup` has one state per `Repo` value. A name registered again is a new value,
which is what `Reconcile` compares; an old value's goroutine ends when it next
looks at its context, and until then holds its slot and its bindings.

`ServerRollout` is the process around them. `StartServer` loads the store and the
machine configuration and binds; `Submit`, `RemoveWorkflow` and their steps hold the
lifecycle gate (`at`): store, replace the entry, `BindWorkflows`, and on failure
`RestoreEntry` and the rollback of the files. Repository requests do not hold it:
`Register`, `Unregister`, `SaveMachine`, `PublishRepo`, `DropRepo`, `ListRepos` and `Resync` are
the steps of `repo/service.go` and of the handlers that hand the new list to the
pollers. Requests interleave with each other and with an operation. `latest` is the
request that listed the repositories last, until its list reaches the pollers, and
tells when an older list does so after it. `parted` records, until the next start, two events after which a served
document and its repositories part (section 5): a repository went away, or
another value was registered under its name, while a served document listed
it. The first needs a removal that slips between a submission's check and its
end. The second needs two registrations of one name at once, since `Register`
holds no lock, or one after a removal that answered with an error although the
configuration was saved; the new value has no bindings until the next
rebind.

### AgentHarness

`log` is the list of the assistant's messages, each a report, a report in the wrong
shape or neither; `queue` says whether the agent works. An idle event starts a
handler (`hs`): its awaits are `pc`, what it holds across them is `msg`. `handled`,
`correcting`, `tuiHandled`, `flight`, `joined` and `dialog` are the plugin's variables of those
roles. `launch` says which entry point runs and whether the node has a human in
the loop or an automatic failure route. `Deliver`, `AttemptFails` and `Answer` are the
delivery in `index.ts`, which retries until the server answers and lets other
deliveries join it; `Registered` is the registration with its pauses. `Relaunch` is a
new process: it forgets everything but the transcript. The human's choices
(`TuiChoice`, `PiChoice`) may come at any time or never.

### TaskBoard

`mode` chooses what is written: a first attempt, an explicit restart or database
recovery; `Script` is the sequence of operations of the interpreter for two nodes
and the parent, `at` the one under way, `pc` its call. `Jira` moves an issue by
`Remembered` or `FindTransition`, `Recheck`, `PostTransition`; `Beads` by `BeadsShow`, `BeadsUpdate`. `Init`
also starts from what an interrupted run left behind. Every call may be refused,
carried out without an answer, or cut off by `Crash`; a batch may be created in
part. `HumanMoves` is anybody else; `Poll`, `PollReads` and `PollRemembers` are a poll
that refreshes the cache, possibly with an answer that is old by then.

## 3. What the runs show

The ticket runs use the graph `coding -> review -> (coding | end)`, `coding -> end`:
it has a loop, a shortcut and a choice at every node. In `ticket_keep` and `temporal`
`coding` may follow itself.

| Run | Question |
|---|---|
| `projection` | A workflow writes its rows while failed attempts still run, callers come late, operators cancel and an agent registers. Can any order undo a decision, cancel a run for a reason nobody gave, rewrite a finished step or a registered session? Is the timeline rebuilt after a lost database the one that was lost? |
| `ticket_close` | Two reports, an operator, terminals closed behind each visit, a poll that may create the execution again; a crash, a failing call or a dying terminal anywhere. Are reports counted once, effects ordered, agents closed and a decided run quiet? |
| `ticket_keep` | Terminals that are kept and prompted again, two operators; a crash, a failing call, a dying terminal, or an execution that dies because its retry cannot be recorded. Is every cancellation on record before anything acts on it, does the ticket name the first reason, is what is published what is awaited, are there never two agents on a node, and is the state shown that of `RunLifecycle`? |
| `ticket_live` | One report, with a failing call, or a dying terminal and a crash. Do runs start, lost agents come back, reports lead on, cancellations settle? |
| `dispatch` | Two workflows; a poll, a restart, a cancellation, a submission or removal, a repository removal, a change to the ticket and a server start in any order. Is there one live run, of the stored definition, on a claim of this server, and do attempts come as `RunAttempts` says? |
| `dispatch_live` | One workflow, two server starts. Does a claimed ticket get its execution wherever the server stopped? |
| `temporal` | A restarted attempt with one report under Temporal: any one fault, or two failing activities. Does Temporal decide once and the projection follow, is a report consumed once, does a canceled run leave nothing, is every step carried out? |
| `rollout` | Two definitions of one workflow and one repository, registered, removed, submitted in any order; two faults, or two repository requests at once. Are the three files one document, is what is served what is stored, do accepted workflows come to be polled, do removed repositories fall silent? |
| `harness` | Two messages of an agent; a repeated idle event and another fault. Is a bad report corrected once, does nothing pass the human unapproved, is a decision final, is an agent with a report heard? |
| `tasks` | A run's writes to Jira and to Beads under every fault and many pairs. Is nothing written twice, is a reported success one, do operations end? |

The properties, by what they guard:

* *State of the run.* `LifecycleSpec` (refinement), `DecisionsStand`,
  `ReasonAnnounced`, `CancellationStaged` (no cleanup and no engine request before
  the cancellation is on record), `CanceledIsAnnounced`, `QuietAfterEnd`,
  `DecisionIsTemporals`, `CanceledLeavesNothing`.
* *Timeline and sessions.* `FinishedStepsStand`, `RebuiltTimelineAgrees`,
  `RegisteredSessionStands`.
* *Reports.* `OneReportPerVisit`, `EffectsInOrder`, `AcceptedIsDurable`,
  `ReportsConsumedOnce`, `CorrectedOnce`, `HumanGate`, `DecidedOnce`.
* *Terminals.* `OneAgentPerNode`, `NoAgentLeft`, `PublishedIsAwaited`.
* *Tickets and attempts.* `OneLiveRun`, `LiveRunsMatchDefinition`,
  `RunsOnlyOnOwnClaims`, `AttemptsSpec` (refinement).
* *Definitions and repositories.* `StoreSpec` (refinement), `ServedIsStored`.
* *The ticket's board.* `NothingTwice`, `AnsweredIsDone`.
* *Progress.* `ClaimedTicketsRun`, `StartedRunsExecute`, `LostAgentIsReplaced`,
  `ReportMovesRun`, `CancelSettles`, `StepsSettle`, `AcceptedRoutes`,
  `RemovedFallSilent`, `AgentIsHeard`, `OpsSettle`.

Every module states its types. A run checks those of `TicketRun` (`TypeOK`), which are
also proved; those of `RunProjection`, `RunDispatch`, `RunTimeline` and `TemporalRun`
are proved (section 4).

### Bounds

| Bound | Value | Why it is enough |
|---|---|---|
| `ReportIds` | 2 (3 for `f_late_report`, 1 in `ticket_keep`, `ticket_live`, `temporal`) | two reports give a visit, its successor, a duplicate and a competitor; three are needed to come back to a node and still hold an old report; in `ticket_keep` and `temporal` `coding` may follow itself, so one report is enough to visit a node again |
| `Reasons` | 2, or 1 where the order of reasons is not asked about | first and second operator; in `projection` one who gives a reason and, beside the constant, one who gives none: a reason nobody gave is then the other's, the default's or a conflict's |
| `Scenarios` of the ticket runs | one fault of a kind, or a pair | the pairs are those that only together reach new code: a retry that cannot be recorded, an agent that dies while the server is down |
| `Scenarios` of `temporal` | any one fault, or two failing activities | the second failure hits what the first made `retryActivity` do |
| `MaxExecs` | 2 where an execution can be recreated | the second execution meets all leftovers of the first; `DecisionIsTemporals` shows that Temporal never needs the second |
| `MaxVisit`, `MaxTerm` | 0 | arguments of `ProjNext`, which only the proofs use; TicketRun's visits and terminals are bounded by reports and faults |
| `MaxStep`, `MaxSlow`, `Sessions` | 3, 1, 2 | the start step, a visit and its successor or the end; one late writer against everything; the old and the new session. `TimelineAssumption` asks for 2 steps at least, as every run has a start, a visit and an end |
| `Docs`, `RepoNames`, `MaxGen` | 2, 1, 2 | a replaced definition, and a repository registered again |
| `Handlers` of `rollout`, `MaxConcurrent` | 2, 1 | two repository requests against each other, against the gate's holder and the pollers, which compete for one slot; two are enough to hand lists over in the wrong order |
| `Pairwise` of `rollout` | a failing write or rebind and a crash, a failing rebind and a failing rollback; two requests at once (`overlap`), and an operation beside them or beside a failing write (`mixed`), once in a process | the pairs after which recovery or the rollback has something to do, and every crossing of two requests in a process whose operations do not fail. That no crossing, however often and beside whatever fault, makes the server serve another document than the stored one is proved (`ServesTheStored`); of the pollers the proofs say nothing |
| `MaxMsgs` | 2 | a message and the one it is corrected by |
| `EchoAndOne` of `harness` | a repeated idle event and one more fault | overlapping handlers, one of which meets the fault |
| `Classic` and `Mixed` of `tasks` | Jira's classic workflow; a lost answer or half a batch with one more fault, each fault alone, a person who moves twice | the conflicts come from transitions that do not start everywhere |
| `MaxAttempts` | 2 | the first attempt and one after a cancellation; each later restart meets the rows a second one meets |
| `MaxSubmits`, `MaxEdits`, `MaxStarts` | 1 each in `dispatch`; 0, 1, 2 in `dispatch_live` | one replaced definition, one change of heart about the ticket, one crash at any point; two crashes where the question is what they leave behind |
| `Workflows` | 2, 1 in `dispatch_live` | two are needed for ambiguous matches and foreign claims |
| one EnsureRun, one CancelRun at a time | structural, in `TicketRun` and `TemporalRun` | a poller is one goroutine per repository; two CancelRun calls of the embedded engine differ in nothing the row does not decide, and those of Temporal interleave in `RunTimeline` |
| one leftover terminal for a restart | structural | `PrepareRestart` closes them all alike |

Reports, operators' reasons, sessions and workflows are symmetric in the runs without
liveness. Deadlock is not checked: a decided run and a finished script stop, an
agent may wait for its human forever, and the bounds of the dispatch and rollout
runs cut off calls a server would answer.

### Fairness

`Fairness` asks of the running server only what it does on its own: its workers
advance the instance (`Interpreting`) and deliver cancellation, signals and
reconciles in turn, a started request goes on (`Submit`, `Cancel`), the plugin
resends what was not answered, and the poller polls at its interval (`Poll`).
Nothing makes an agent report, an operator cancel or a fault strike. A crash is
followed by a restart (`Crash` is both): a server that stays down does nothing.
`PersistentSpec` adds an operator who repeats a cancellation until it settles. It
is needed for `CancelSettles` (section 5).

`RunDispatch` asks that polls keep coming, that calls to the task system do not fail
every time they are made (strong fairness of each stage of the poll), that the
mutex starves nobody, which Go's `sync.Mutex` promises, and that its holder goes on.

`TemporalRun`: Temporal delivers tasks, timers, signals and cancellation to a running
worker, the poller calls `EnsureRun` at every tick and handlers run to their end.
Agents and operators owe nothing. `ServerRollout`: handlers and goroutines run on; a
poll gets its slot and its answer in the end (strong fairness for each `Repo` value,
as the semaphore serves waiters in turn). Nobody has to start the server.
`AgentHarness`: the plugin's own calls return, idle events arrive and the server
answers at last. Nobody has to write or choose. `TaskBoard`: failed operations are
tried again and polls keep coming.

## 4. What is proved

Theorems hold for every graph, policy, set of transitions a Jira project offers,
number of reports, operators, executions, steps, sessions, repositories,
workflows, attempts and server starts, and every set of fault scenarios: for all
values of the constants that satisfy the assumptions named in the modules. All but
`ProjTyping`, `FirstReasonHolds`, `PositionHolds`, `ShownIsAwaited` and the types of `RunDispatch`, `RunTimeline` and
`TemporalRun` state a property that a run checks too.

| Theorem | States |
|---|---|
| **`RunProjection_proofs`** | |
| `ProjTyping`, `DecisionsHold`, `PositionHolds` | types, `DecisionsStand` and `PositionFrozen` (a decided run keeps its node and visit) under `ProjSpec`, in which the statements of both executors come in any order |
| `FirstReasonHolds` | `FirstReasonStands` under `EmbeddedSpec`: none of the embedded engine's statements replaces the first reason of a cancellation |
| **`TicketRun_proofs`** | |
| `TicketTyping` | `TypeOK`, with `Located` |
| `CancellationHolds` | `CancellationStaged` |
| `TicketImplementsLifecycle` | the refinement `LifecycleSpec` |
| `WalkedEdgeByEdge` | `OneReportPerVisit`: one report leaves a visit, along an edge of the graph |
| `EffectsStayInOrder` | `EffectsInOrder`: receipt, summary and feedback of a visit left behind |
| `AcceptedIsKept` | `AcceptedIsDurable` |
| `CancellationAnnounced` | `CanceledIsAnnounced` |
| `NothingAfterTheEnd` | `QuietAfterEnd` |
| `OneAgentEach` | `OneAgentPerNode`, if `RecoverByTitle` |
| `NoAgentOutlives` | `NoAgentLeft`, if `RecoverByTitle`, `~KeepTerminals` and `~IsRestart` |
| `ShownIsAwaited` | the part of `PublishedIsAwaited` about node, visit and handle |
| `PublishedNodeIsAwaited` | `PublishedIsAwaited`, if no scenario has both `db` and `death` |
| **`RunDispatch_proofs`** | |
| `Typing`, `SingleRun`, `StoredDefinitionsRun`, `ClaimsPrecedeRuns` | `TypeOK`, `OneLiveRun`, `LiveRunsMatchDefinition`, `RunsOnlyOnOwnClaims` |
| `AttemptsInSeries` | the refinement `AttemptsSpec` |
| **`RunTimeline_proofs`** | |
| `Typed` | `TypeOK`, with `Placed` |
| `StepsStand`, `SessionsStand` | `FinishedStepsStand`, `RegisteredSessionStands` |
| `AttemptDecisionsStand` | `DecisionsStand` for the callers of one attempt |
| `AttemptReasonAnnounced` | `ReasonAnnounced`, for any number of operators whose calls overlap |
| `RebuiltIsLost` | `RebuiltTimelineAgrees` |
| **`TemporalRun_proofs`** | |
| `Typed` | `TypeOK` |
| `OneReportAVisit`, `TemporalDecides`, `CancellationClearsUp` | `ReportsConsumedOnce`, `DecisionIsTemporals`, `CanceledLeavesNothing` |
| **`ServerRollout_proofs`** | |
| `OneDocument` | the refinement `StoreSpec` |
| `ServesTheStored` | `ServedIsStored` |
| **`AgentHarness_proofs`** | |
| `OneCorrectionEach`, `TheHumanDecides`, `DecidedForGood` | `CorrectedOnce`, `HumanGate`, `DecidedOnce` |
| **`TaskBoard_proofs`** | |
| `WrittenOnce`, `DoneIsDone` | `NothingTwice`, `AnsweredIsDone` |

Few of these properties are inductive. Each proof is a strengthening that is, a
lemma that says in a few cases what a step can do (`Moves`, `TermsMoved`, `StoreMoves`,
`TablesMoved`, ...), and an argument over those cases in place of one over every action.

*Argument, `TicketRun`.* `TypeOK` alone is not inductive: `Enter(rep.next)` and `mailbox[cur]`
need to know where the interpreter stands. `Located` says it (a node is current
whenever an activity of a visit is awaited, and a report is at hand while it is
carried out); `TInv == TypeOK /\ Located` is inductive, one lemma per group of
actions. On it rest, in this order:

* `CancellationStaged`, which is inductive relative to `TInv`: the row enters `canceling`
  only in `OperatorCancels`, and no statement takes it back to an active state,
  which is the content of `Fenced`. The refinement of `RunLifecycle` adds the lemma
  `RowStep`: every step of `TicketRun` leaves the row's state alone or is a step of
  `RunLifecycle`.
* `Walk`, for the two properties of reports. `Counted`: visits are numbered through
  all executions, and a report that was taken is behind the interpreter or being
  carried out. `Ordered`: an activity is awaited only after those before it had
  their effect, and `clear` and `unblock` of `retryLoop` only after its own.
* `Kept`: nothing is acknowledged before there is an execution to remember it.
* `Announced`: what the code under way was told is the reason on record and what is on
  the ticket is said by it (`Said`), the cleanup has read the reason when it writes
  it (`Cleaned`), and who may still be at work on a decided run (`Decided`). `QuietAfterEnd`
  follows from `Decided` and `Ordered`.
* Terminals. One is added only where the runner found none to recover (`Grown`), and
  no other step revives one (`Faded`). `NoAgentLeft` needs `Housed` (stored handles are
  those of terminals of their own node), `Legalized` (only legal routes are
  signalled, so no execution ends over a report's route with its agents alive) and
  `Accounted`: until a call fails, a live terminal is bound or about to be recovered,
  and none is live past the cleanup.

* `PublishedIsAwaited`. `Goes` says how a step moves the interpreter: it stays at its
  activity, has carried it out, goes on, or turns elsewhere; `SinceMoves` concludes what
  has been written once a stage of a visit is reached. `Shows` and `Aged` are enough
  for node, visit and handle (`ShownIsAwaited`). That the terminal was prompted for the
  visit needs `Loading` (the entry of a node knows that a terminal is bound from
  before) and `Attended`: no live terminal of an earlier visit is left unbound for
  the runner to find by its title.

The hypotheses on the last three are needed. With `RecoverByTitle = FALSE`, orca's
lookup by stored handle, TLC refutes `OneAgentPerNode` and a crash before the handle is
stored leaves an agent behind. `~KeepTerminals` is the policy `NoAgentLeft` is about:
under the other one agents are meant to stay. `~IsRestart` restricts it to a first
attempt: a restarted one may start with the terminal an earlier attempt left
on a node. TLC refutes `PublishedIsAwaited` with one `fail`, one `death` and one `db`
(section 5); the scenarios of `ticket_keep` all meet its hypothesis.

*Argument, `RunDispatch`.* `Base` adds to `TypeOK` who holds the mutex. On it rest
four inductive invariants. `DefInv`: what a poll or a restart has read of the
definition under the mutex is still the stored one, and a submission under way
has no live run to invalidate. `OwnInv`: labels are only added, so what was seen
of a claim when the ticket was polled, routed or labelled still holds. `SoleInv`:
our owner label names one workflow at most, so all rows on record are of that
one; rows carry their order of start, only the newest can be live, and a run is
started where there is no row (poll) or the newest is canceled (restart).
`SeriesInv`, for the refinement: a workflow with rows has a newest one, numbers grow
as rows were started (`NumberInv`); a poll that goes by a ticket without claims
finds no rows and no cancellation comment, and one about to start has its row or
starts the first (`BarInv`). `PollMoves` lists what a step can do to the poll, `Decays`
and `Inserts` what it can do to the rows. `OwnerAssumption` (our filter's assignees
are not others') is what keeps an edit by others from forging our label.

*Argument, `RunTimeline`.* That finished steps, sessions and decisions stand
needs no more than `TypeOK /\ Placed`: it is the statements' own doing, whoever
writes, however late. `ReasonAnnounced` needs `Spread`: the reason of a canceling row is
on record, so is the one the workflow heard, and it heard one before its
cancellation was requested, since `CancelRun` signals first. `RebuiltTimelineAgrees` speaks of the times when every
attempt has written (`slow = 0`) and needs three parts. `Decided`: the row is decided
at the end only. `Numbered`: the table has at most one open step, the current one,
and which pcs have it open. `Told`: the workflow's memory and the history differ from
the table only in how far an open step has got, and after the last write what is
rebuilt from either is the table. `updateLatestStep` writes to the greatest open step;
that there is one is `Greatest`, from the well-foundedness of the natural numbers.

*Argument, `TemporalRun`.* One inductive invariant follows the interpreter's counter.
`OpenInv`: one execution, and the interpreter runs as long as it is open. `VisitInv`:
visits grow and a node is entered before a report is taken there. `EndInv`: the graph
was carried out when its end is applied, and neither the projection nor an
answer on its way to it is ahead of that. `RowInv` and `AgentsInv`, while no row was
lost and no worker died: every agent at work is bound to a node or about to be,
and none is past the cleanup of a cancellation. `ToldInv`: the ticket was told.

*Argument, `ServerRollout`.* `DiskInv` says at each step of an operation, a rollback or a
recovery what the pair and the journal hold. The refinement follows step by step
(`StoreMoves`): while an operation is under way the document a restart would load is
the one before or the requested one, its answer names which, and nothing else
changes it. `DiskInv` is conditional on `trusted`, as `StoreSpec` is. `ServedInv` adds that the registry's entry is that of the
pair before or of the candidate (`RegOK`) and that bindings follow it except between
its change and the rebind (`BoundOK`).

*Argument, `AgentHarness`.* The plugin's sets of handled messages die with the
process, so no invariant can say that a message is remembered. It is remembered
or *passed*: a later message exists, or no idle event is on its way and no
handler is about to look (`Passed`, `TuiPassed`). `CorrectedInv` and `DecidedInv` say it of
corrections and decisions, with the uniqueness of the handler under way; `GateInv` says
that a report that was turned down asks for an approval.

*Argument, `TaskBoard`.* `NothingTwice` rests on `Looked`: nobody else creates
mailboxes or marked comments, so what an operation found missing is missing when
it writes. `AnsweredIsDone` needs `Placed` (where the operation is) and, while nobody
interferes, `Carried`: the moves behind the current one are made, and what Jira's
client remembers is true but of an issue that the operation under way has moved
without an answer (`CacheRight`, `Overtaken`). That no operation moves an issue twice
is a lemma about the scripts (`ScriptTyped`).

*Only model-checked.* The liveness properties `ClaimedTicketsRun`, `StartedRunsExecute`,
`LostAgentIsReplaced`, `ReportMovesRun`, `CancelSettles`, `StepsSettle`, `AcceptedRoutes`,
`RemovedFallSilent`, `AgentIsHeard` and `OpsSettle`: TLAPS has no rule for fairness or
ENABLED. And the two violations of section 5.

## 5. Where the code and its documents part

Two are runs of their own that TLC refutes; `PROJECT.json` quotes the document.

* `f_late_report`: a report sent for an earlier visit of a node and delivered
  during a later one counts for the later one.
* `f_jira_ack`: the answer to the transition that completes an issue is lost. The
  Jira client still remembers the old status and the transition's id, so every
  retry posts it again, Jira refuses, and the run stays at it until the server is
  restarted or something else reads the issue.

The others were met while modelling; none is a run. The models have the behaviour,
and their properties are stated so as to except it by name.

*Runs on the embedded engine*

* A report sent before its visit is published is acknowledged as a duplicate and
  never resent, so the run waits on (`engine.go:385` against
  `openspec/specs/structured-node-reporting/spec.md:70`).
* An operator who cancels a run whose execution failed sees it as completed
  (`engine.go:701-706` against the comment at 665).
* A poll that read an active row recreates the execution after the run completed
  (`engine.go:306` against `openspec/specs/durable-run-execution/spec.md:13-15`).
  `QuietAfterEnd` excepts it by `raced`, as it does a cancellation between `insertStart`
  and `CreateWorkflowInstance`.
* `FairSpec` in place of `PersistentSpec` refutes `CancelSettles`: a cancellation taken
  while `completed` is being written is fenced, reported as success and settled
  only by the next cancel call or restart.
* `RecoverByTitle = FALSE` (orca, which looks up stored handles only) refutes
  `OneAgentPerNode`.
* Under the default machine policy, which keeps terminals alive, a canceled run's
  agents stay, although `openspec/specs/durable-run-execution/spec.md:130` has
  `run cancel` close them.
* `NoAgentLeft` without its exception for failed calls is refuted by a terminal whose
  handle could be neither stored nor closed.
* A terminal dies, its replacement can be neither stored nor closed, and the retry
  of that reconciliation cannot be recorded: the run waits on, and the next visit of
  the node finds the replacement by its title and binds it without a prompt for the
  new visit. `PublishedIsAwaited` is refuted by these three faults together.
* `RetryWriteFails` ends the execution of an active run; a poll recreates it from
  `start`.

*Runs on Temporal* (`operations.go` against
`openspec/changes/temporal-executor-mvp/specs/durable-run-execution/spec.md`)

* CancelRun marks the row before it reaches Temporal, and EnsureRun restores state
  only in some cases: between the two, and after a crash there, the projection
  says `canceling` while the run goes on. Line 143 of that document has Temporal's
  state win.
* A projection lost during a transition leaves an activity that fails at every
  retry, since the rows it updates are not restored while the run waits on it.
  This is why `StepsSettle` excepts `loss`.
* A crash between the creation of a terminal and `ReplaceNodeRuntime`, followed by a
  cancellation, leaves an agent behind: the cleanup knows stored handles only.
  `CanceledLeavesNothing` excepts it.
* Two operators who cancel at once both pass the check of the state
  (`operations.go:248`), and the later reason replaces the first, in the row as in the
  workflow, where the embedded engine keeps the first. Row and workflow may end with
  different ones. `ReasonAnnounced` asks for a reason that was given, not for the first.
* `EnsureRun` writes the outcome of a closed workflow through the fence
  (`operations.go:117-122`): a row marked `canceling` whose workflow completed
  before it was canceled cannot become `completed`, and stays `canceling`.
* A CancelRun that finds the workflow completed on the way writes the reason into
  `last_error` of a row that becomes, or is, `completed` (`operations.go:260-277`).

*Definitions and repositories*

* `repo remove` checks that no workflow names the repository and unregisters it
  later, without the gate (`repo/service.go:221`): a workflow submitted in between
  stays stored for a repository that is gone (`parted`).
* Two registrations of one name at once both pass the check of the registry
  (`repo/service.go:126`; they hold no lock): a workflow bound to the first value is not routed by the
  second until something rebinds it (`parted`). The same happens when a
  repository is registered again after a removal that failed half-way.
* Two repository requests at once can lose each other's update of the machine
  configuration (`repo/service.go:126-214`), and an older list can reach the
  pollers after a newer one (`serve.go:414-416`, called at 724-743): the handlers list
  the registry and replace the set under no common lock. A repository that was just
  registered then has no poller, or one that was removed is polled on, until the next
  request. `AcceptedRoutes` and `RemovedFallSilent` except it by name (`latest`, which
  says whose list is the newest and whether an older one has overtaken it); TLC
  refutes both without the exception.
* A rollback that failed, a later `Put` and a crash leave a mixed pair of files, which
  the comment at `workflow/store.go:63` rules out; `StoreSpec` promises nothing once
  `trusted` is lost.
* A journal that cannot be removed, followed by a rollback that fails, answers with
  an error, and the new document wins at the next start.

*Agents and tickets*

* A plugin call that fails while OpenCode handles an idle event drops the report
  until the next one (`plugin/relay-flow.ts:155`), where Pi goes on;
  `AgentIsHeard` excepts it.
* OpenCode's agent nodes may be corrected twice for one message, since only the
  human's nodes guard the correction; `CorrectedOnce` excepts them.
* A report that comes while another of the same node is in flight waits for that one's
  answer and is never sent itself (`plugin/index.ts:290`). `AgentIsHeard` counts it as
  heard.
* That a report of this agent needs approval is remembered in the process: a
  relaunched agent forgets it. Approving an older dialog lifts it as well. `HumanGate`
  speaks of one process.
* A TUI that shows another session when the idle event comes never opens the dialog.
* The transition id that the Jira client remembers under a status that was already
  stale is used for every issue of the project (`client.go:405-440`). `OpsSettle`
  excepts people, late polls and lost answers in Jira.
* Of two issues with a mailbox's title Jira takes the last silently; Beads fails.

## 6. Not modelled, and the plan

*Done*: every module of section 2, checked by the runs of section 3, with the
proofs of section 4.

To prove: every safety property a run checks has its theorem. What could be
added are the safety halves of the liveness properties, as lemmas about the measure
that decreases.

To model: the pure operators (validation of a workflow and its routes, report
validation, the backoff), to be compared with reference definitions over bounded
inputs.

Not planned: command lines and prompts that harnesses build, rendering, logging and
paths (no state), parsing of configuration, definitions and reports (a conversion
no property is about), onboarding dialogues and process supervision (pure I/O),
queries and listings for display, worktrees and discovery of the runners. The
Temporal service, go-workflows, Jira, Beads and the terminals' programs are modelled
only as far as the code relies on them. `PROJECT.json` lists every part with its
reason, and four hazards without a property: a repository removed during a
submission, a failed instance that is shown as completed, a report that joins
another's delivery, and a plugin call that fails at an idle event, all described
in section 5.
