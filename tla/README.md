# Verification of Symphoneer

Symphoneer lets coding agents (Codex, Claude Code) work on GitHub issues. One Runtime per project reads the
issues (Tasks), starts an Attempt for a Task in a git worktree, drives the agent Turn by Turn, retries, and lets
people pause, steer, take over and delete. A desktop host runs the Runtimes of all projects, streams their events to
workbenches and serves an Assistant. This directory holds TLA+ modules of the program, the TLC instances that check
them and TLAPS proofs about nine of them. Paths below are relative to `src/` of the repository (`runtime/...`).

## 1. Inventory

| Component | State it keeps | Operations | What makes it correct | Module |
|---|---|---|---|---|
| CoreScheduler (`runtime/scheduler/`) | ten maps: attempts, running, claims, workspace owners, workspaces, active turns, active and paused threads, retries, failures kept over a pause | reserve, attach a Turn, pause, resume, finish, delete, retry transition, reconcile, restore, new policy | one claim per Task, one Attempt per workspace, one owner per session, limits kept | `CoreScheduler` |
| Single-agent orchestration (`runtime/orchestration/single-agent.ts`) | `#runs`, `#runningTasks`, `#jobs`, retry timers, `#stopping` | tick, start, retry, pause, input, handoff, return, delete, stop; the job of each Task | one Turn per Task, no leaked worker or slot, commands and stop return | `SingleAgent` |
| EventLog, recording, commands (`runtime/service/`) | mutation FIFO, stored events, idempotency keys, projection | append (queued), commit (not queued), executeCommand | what was answered is kept, runs once, keeps its number | `EventLog`, `SingleAgent` |
| Storage (`runtime/storage.ts`) | `attempts.json`, `domain-events.jsonl`, artifacts | upsert, delete, append, replay, put | what was acknowledged survives a crash | `EventLog` |
| RuntimeService, projection | log, orchestration, synchronizer; Tasks, Attempts, workspaces | start (interrupts orphans), stop, apply, record | nothing is lost or resurrected by a restart | `EventLog`, `SingleAgent` |
| Workspace manager (`runtime/workspace/`) | registry, worktrees, locks per path | prepare, recover, finish, remove | one holder, identity kept, uncommitted work never lost | `Workspaces` |
| Tracker synchronizer (`runtime/tracker/`) | refresh in flight | refresh | one refresh at a time, a stop waits for it | `SingleAgent`, `ProjectHost` |
| Desktop host, polling, registry (`runtime/host/`) | projects, polling jobs, queue, timer, registry file | start, stop, add, remove, poll | a project runs once, the registry is what clients were told, polling goes on | `ProjectHost` |
| HTTP, SSE, clients, workbench store (`runtime/http.ts`, `runtime-client/`, `web/stores/`) | subscribers, the last number seen, snapshots | events after a number, reconnect, execute | no event missed or shown twice, no command on an old view | `EventStream` |
| Team workflow, verification (`runtime/team/`, `runtime/verification/`) | a graph of plan, implement, review and its checkpoints; the record of the run | start, answer, decide, reset, check | a question on record is one the graph waits at; only what was shown is accepted | `TeamRun` |
| Executors (`runtime/executor/`) | child process, pending requests, Turn timers, interventions | open worker, start Turn, steer, interrupt, respond, close | a Turn ends exactly once, and always | `Executors`, `AgentTurns` |
| Assistant (`assistant/`) | runs, approvals, the stored conversation | run, approve, open, delete, abort, close | only what a person approved runs; the conversation stays valid | `Assistant` |
| Process capacity, GitHub adapter, workflow profile, MCP, CLI, web UI | see section 7 | | | none |

How they interact. The orchestration calls the scheduler synchronously and records through the EventLog. A queued
record (`append`) waits in the FIFO of `withMutation`; a command holds that FIFO while it calls the orchestration, and
what it records itself is committed directly. The tick runs after a refresh of the Tracker or when a retry falls due.
The `attempts.json` index is written before the event of the same record. The host numbers the events of all its
projects anew in one list, which the workbench follows; a project's polls share one queue with all others.

What is hard. Node runs one callback at a time, so the races are between awaits: a command, the tick, the shutdown and
the job of a Task may all end the same run; records are written by three routes with three orders; state read before an
await (the Task, the status of a run, who owns a job) is used after it; a crash keeps only what is on the disk, and files
are written one after the other. The hazards are listed with their lines in `PROJECT.json`.

## 2. Modules

| Module | Models | Size of the thing modelled |
|---|---|---|
| `CoreScheduler` | every operation of the scheduler over its ten maps | synchronous: an operation is a step |
| `TaskLease` | what the scheduler promises: an Attempt holds its Task from start to end and its workspace while it runs | abstract |
| `SingleAgent` | the orchestration with the FIFO, projection, index and commands it runs against | a step is what runs between two awaits |
| `EventLog` | log, index, artifacts, keys and commands over a disk that loses, tears and refuses | a step is a file operation |
| `EventStream` | host list, SSE connection, reconnecting transport, workbench | a step is a frame or a request |
| `TeamRun` | the graph, its checkpoints, the record, the checks and the Team commands | a step is a node, a record or an exit |
| `Workspaces` | the manager, git worktrees and branches, hooks and people that edit | a step is a call of git, a hook or a check |
| `Executors` | a worker of either provider, its process, timers, requests | a step is a message, a timer or an await |
| `AgentTurns` | what a worker promises to the orchestration | abstract |
| `ProjectHost` | host, polling coordinator, registry | a step is what runs between two awaits |
| `Assistant` | one session: runs, approvals, stored messages | a step is what runs between two awaits |
| `MC*` | instances for TLC | |
| `*Proofs` | theorems, see section 6 | |

`CoreScheduler` implements `TaskLease` (`ImplementsTaskLease`, checked and proved); `Executors` implements `AgentTurns`
(`KeepsContract`, checked; its safety half `KeepsOrder` also proved). Every `...Bug` definition is the definition it stands before with one plausible
mistake in it; `PROJECT.json` pairs it with the property that refutes it. Where several facts are only worth
stating together they are the named parts of one property: `ClaimsAgree`, `WorkspacesAgree`, `TurnsExclusive`, `QuietAgree`,
`AnswersKept`, `RestartSafe`, `EachOnce`, `RecordFollows`, `WorktreesKept`, `QuestionsHeld`, `RuntimesExclusive`,
`EverythingGoesOn`, `PeopleDecide` and `RunsEnd` are such conjunctions, and some of them hold the type invariant.

**CoreScheduler.** A map of the class is a function, `None` at absent keys. The class is synchronous, so an operation is
one action; an operation that throws changes nothing and is a guard that does not hold. `Dispatch`, `AttachTurn`,
`PauseAttempt`, `ResumePausedAttempt`, `FinishAttempt`, `RefreshFinished`, `DeleteAttempt`, `Retry`, `Reconciliation`,
`WorkflowReload` and `RuntimeRestart` are the operations. `Retry` is `transitionRetry` with its outcomes reserved,
released, requeued. `RuntimeRestart` forgets the maps, marks orphans interrupted as
`RuntimeService.#interruptOrphanedAttempts` does and runs `restore`. Inputs are any Task summary and any workspace
reference of the constants: stale, contested or moved references are part of the checked behaviour. `failed`,
`timed_out` and `stalled` are one status because no code tells them apart. Clocks become "due or not". A repeated call
changes nothing because of the `ReplayCache`, which forgets keys beyond its limit; that is not modelled.

**SingleAgent.** A process is an asynchronous call chain, an action what it does between two awaits.

| Process | Code | State | Steps |
|---|---|---|---|
| job of a Task | `#run`, `#continue`, `#driveTurns`, `#finishSucceeded`, `#fail` | `jobs[t]`, `runs[a]` | `Fetch`, `Start`/`Resume`, `Install`, `Prompt`, `Open`, `StartTurn`, `Attach`, `TurnOver`, `Reread`, `Decide`, `Retain`, `Finish`, `Settle`; `Fail`, `Failed` |
| command | `executeCommand`, `requestAttemptCommand` | `command` | one action per kind, and one for each await it resumes from |
| tick | `tick`, `#tick` | `tick` | `Reconcile`, `Cancel`, `Cleanup`, `ReadRetry`, `TryRetry`, `DispatchTick` |
| shutdown | `stop` | `shutdown` | `StopRequested`, `StopRuns`, `StopJobs`, `Stopped` |
| end of a run | `#pause`, `#interrupt`, `#recordReconciledAttempt` | `runs[a].ends` | `EndHalt`, `EndRetained`, `EndStatus`; `TickEnds` for the tick |

`lock` is the FIFO of `withMutation`; its head is in the critical section. A queued write is `RecordAttempt`, `Record` or
`RecordTask` (index and place in the FIFO) followed by `Commit` at the head. `pause`, `interrupt` and commands commit
without a place; that is the code's `commit = true`. A run that left the map `#runs` keeps its record with
`listed = FALSE`: jobs hold references to it. `logged` is what a replay says of a workspace; its events have fixed
idempotency keys, so only the first of each is stored. `Restart` is a crash at any step and the next start. Which Tasks,
commands, faults and views of the Tracker a behaviour has is chosen by its `scenario` in `Init`.

Abstractions of `SingleAgent`: only a Task that is eligible is dispatchable; per-state limits, the capacity of the process,
the clock, messages and session contents are left out. A person waits for the answer to one command before giving the next.
Awaits that only read are merged with the action that uses what they read, and may fail when the scenario's faults say
so. A refresh starts while the FIFO is empty and is one step. Index writes of one record and its place in the FIFO
are one step here; `EventLog` takes them apart. `#cancelLostAttempts` finds nothing, because start has already interrupted
those Attempts, paused ones too. After a pause and a resume `runs[a]` is the new run; a worker the earlier run object
leaked is out of sight.

**EventLog.** The files are `lines` with what is synced of them, the index and the artifacts; memory is what a process has
read of them. A command is answered from its key or enters the critical section, runs its effect, appends and answers;
`Replay` at a start repairs a torn last line, refuses a broken file and fills an empty index. A fault set says
whether calls fail (`effect`), the process dies (`crash`), a line may be torn or end without its newline (`torn`) and a
sync may fail after the write (`sync`). A record is made while the critical section is busy, also with the deletion of its
Attempt; such records are noted in `behind`, since their place in the FIFO is after the deletion. Which Tasks an Attempt belongs to, the guards of `merge_close` and the review hook,
which nobody implements, are left out or chosen freely.

**EventStream.** The host list gets the events of the projects that run; a restart builds it again from the
registry. A connection sends the backlog after `after`, then what is published; it may break with frames on the way. The
workbench asks for a snapshot per event, the answers arrive in any order (`Answered`, also after a restart of the host), and
a command carries the number of the snapshot that is shown. `newest` notes how much of each project was ever shown.

**TeamRun.** LangGraph is external: it checkpoints after each node and gives an answer only to the node it waits at. A
command runs the nodes up to the next question (`RunNode`), records operations, checks and the run, and answers;
agents, writes and checks may fail in between and the process may die. Trees are numbers that people change. A handle
made from checkpoints the contract does not take has no operation, and the next answer to it starts the graph over
(`StartsOver`, `orchestrator.ts:217`); `over` notes the runs this has happened to.

**Workspaces.** A tree is one number, head and fingerprint together. The registry is in memory and each Attempt has a
manager of its own, so a reference proves itself by what is on the disk. Calls about one workspace go to one manager at a
time and a manager that was followed by another is not called again, which is how the orchestration uses them.

**Executors, AgentTurns.** One worker and its process; `provider` is chosen in `Init`. Codex answers requests and has a
pump for each Turn, Claude Code has one pump, a queue of prompts and a receipt for interrupts. The caller starts
another Turn only after a completed one and closes the worker in all other cases, as the orchestration does; without
that restriction a late Claude result of a timed-out Turn would be credited to the next one, and the lock of the Codex
pump would fail it. `readSession`, `startOrContinue` and `models` are not modelled.

**ProjectHost.** A Runtime is only its state, a poll something that ends. All polls share one queue; the timer, when it
fires, sweeps all due jobs in order. Adds, removals and the stop are call chains with their awaits; the HTTP server lets
them overlap, so any of them may begin at any step of the others. `Known` projects are in the registry before the first start.
`mixed` notes the checkouts that two calls were about at once, `crossed` that two calls were about to write the registry
at once. An add or a removal whose registry write fails is not modelled.

**Assistant.** The agent is a library that works through a prompt, calls tools one after the other and tells its
listeners. `run`, `deleteSession`, `openSession` and `close` are call chains with their awaits; approvals wait for a person
or expire. `serve.ts:118` closes the Assistant before the server, so requests arrive during a close and after it, when the maps
of the service have been cleared (`Closes`); they are actions like all others. The model has one session: that a close
waits for the agents of all sessions at once is not modelled.

## 3. Runs

All runs use small sets of model values. `CHECK_DEADLOCK FALSE` is set in each because every part may rest: nothing is due,
it was stopped, or a bound is used up.

| Run | Properties | Bounds (distinct states) |
|---|---|---|
| `scheduler_claims` | `TypeOK`, `ClaimsAgree`, `ImplementsTaskLease` | 1 Task, 3 Attempts, 1 workspace, 2 restarts, limit 2 (26 thousand) |
| `scheduler_shared` | `WorkspacesAgree`, `CleanupIsIdle`, `SessionsExclusive`, `StartsWithinLimits` | 2 Tasks, 2 Attempts, contested and moved references, 2 sessions of both providers, 3 policies, no restart (31 thousand) |
| `agent_people` | `FinishedStays`, `CommandsReturn`, `StopReturns` | 1 Task, 2 Attempts; 2 commands of start, retry, pause, input, delete with workspaces that fail to prepare, or 1 command and a stop with three other faults (228 thousand) |
| `agent_automatic` | `TurnsExclusive`, `SettledRunsClose`, `QuietAgree`, `CodexKeepsTask`, `LimitPerRetry` | four scenarios: `Alone` (a Task that moves, every fault but that of `manager.finish`), `WithCodex` (handoff, return, a restart), `Crowded` (2 Tasks, 1 place), `Stubborn` (3 Attempts, limit 2, a person retries) (1.1 million) |
| `agent_handoff` | `HandoffsReturn`, refuted | 1 Task, 1 handoff |
| `event_log` | `AnswersKept`, `RestartSafe`, `ArtifactsWhole`, `AnsweredRunsOnce` | 4 lines, 2 Attempts, 2 versions; seven settings of commands and faults, records at every step of a deletion (3.8 million) |
| `event_stream` | `EachOnce`, `CommandSeesCurrent`, `EventuallyShown` | 2 projects, 2 events, 1 break, 1 restart, 1 removal, 1 command (1.3 million) |
| `team` | `RecordFollows`, `AcceptedKnowingly`, `CommandsReturn` | 1 run, 2 Attempts, 2 reviews, 1 revised plan, 2 faults, 1 edit (966 thousand) |
| `workspaces` | `WorktreesKept`, `NothingLost`, `ExclusiveHolder` | 2 Tasks on one path, 2 Attempts, 2 managers, 5 calls, 2 edits, 1 renewal (1.1 million) |
| `executors` | `QuestionsHeld`, `CompletedIsIdle`, `CallsReturn`, `KeepsContract` | 2 interventions, 2 Turns, 1 steering prompt, 1 fault (213 thousand) |
| `project_host` | `RuntimesExclusive`, `CatalogKept`, `EverythingGoesOn` | 2 checkouts, 2 ids, 1 project known before, 4 Runtimes, 2 calls that overlap, 2 starts (207 thousand); the safety properties also with 3 calls (4.0 million, too long for a run of the project) |
| `assistant` | `PeopleDecide`, `OneRun`, `NothingInterrupted`, `RunsEnd` | 3 requests, 2 tool calls, 1 fault, 1 crash (546 thousand) |

The bounds are the smallest at which the cases of the properties occur: two Attempts of one Task for anything about
retries and workspaces, three where one is deleted between two others or queued twice, two Tasks where limits or leases
are contested, two commands where one must wait for the other, two starts where something must be found again, two
faults where a repair may fail. Each property fails for the mistake in the `...Bug` definition paired with it.

Symmetry: Attempts of the scheduler, Tasks of `agent_automatic`, and ids, Attempts and managers of `workspaces` are only
compared for equality and chosen by quantifiers, and no run with symmetry checks a liveness property.
`ImplementsTaskLease`, `StartsWithinLimits`, `ExclusiveHolder` and `NothingLost` say what a step may do and are closed under it too.

`agent_handoff` ends in a counterexample: `delivery-flow.md:24` promises a handoff at the end of the Turn, but the command
waits for the job while it holds the lock the job needs (`single-agent.ts:319`).

### What does not hold

The runs of the agent leave cases out by their constants: with other constants the same properties fail. Where a passing run
does reach a case the code gets wrong, the property has a condition that names it, and fails without it: `RestartSafe`
(`behind`), `EventuallyShown` (`newest`), `CommandSeesCurrent` (no removal), `RecordFollows` (`over`, `faults`),
`RuntimesExclusive` and `CatalogKept` (`mixed`, `crossed`), `OneRun` and `NothingInterrupted` (`Forgotten`, `Closed`). Each row is a run of the code:

| Run, and constants or dropped condition | Refuted | The code |
|---|---|---|
| agent: `{"handoff", "return"}`, fault `turn` | `CommandsReturn` | `returnControl` waits inside the lock for a job that must record the Task first (`single-agent.ts:348`) |
| agent: `{"pause"}`, no faults | `QuietAgree` (records) | the record of a status, queued behind the pause command, overwrites `paused` in the projection |
| agent: `{"pause"}`, no faults | `SettledRunsClose` | a worker opened while its Attempt is paused stays open: after `openWorker` only the stop of the Runtime is looked at |
| agent: `{"pause"}`, a Task that closes | `TurnsExclusive` | two Turns of a Task in one workspace, after a pause that the tick overtakes (`single-agent.ts:385`) |
| agent: `{"delete"}`, no faults | `QuietAgree` (records) | a record queued behind the delete command restores the deleted Attempt |
| agent: `{"stop"}`, no faults | `SettledRunsClose` | a stop that ends a run while `openWorker` is pending leaves the worker open (`single-agent.ts:591`) |
| agent: no commands, faults `install`, `finish` | `QuietAgree` (slots) | a failed Attempt whose workspace cannot be finished keeps its slot for the life of the process (`single-agent.ts:953`) |
| agent: no commands, faults `install`, `finish`, a Task that is held | `FinishedStays` | a job that failed because its workspace cannot be finished records `failed`; the tick that ends the same run records it as canceled after that (`single-agent.ts:953`) |
| agent: `{"pause", "stop"}` | `QuietAgree` (slots), `StopReturns` | a pause before the first session throws and leaves the run marked as stopping (`single-agent.ts:905`) |
| agent: 1 restart, limit 2 | `LimitPerRetry` | a restart in the last allowed Attempt gives the Task one more (`single-agent.ts:460`) |
| `scheduler_shared` with a restart | `SessionsExclusive` | `restore` does not put the session of a paused Attempt in the hands of Codex back (`core-scheduler.ts:72`) |
| `event_log`, `RestartSafe` without `behind` | `RestartSafe` | a job records its Attempt while the command that deletes it is in the critical section: queued behind the deletion, the record shows the Attempt again, and the index has forgotten it (`commands.ts:297`, `recording.ts:53`) |
| `event_stream`, `shown` in place of `newest` | `EventuallyShown` | the answer to an earlier refresh comes last and stays until the next event (`web/stores/workbench.ts`) |
| `team`, `RecordFollows` without `over` | `RecordFollows` | a first answer fails over checkpoints the contract does not take and leaves a handle without an operation; the next starts the graph at revision 0, behind its record (`orchestrator.ts:154`, `217`) |
| `project_host` without `mixed` | `RuntimesExclusive`, `CatalogKept` | two adds of one checkout, or an add and a removal, overlap: two Runtimes of one project, or a registry that does not have what its client was told (`desktop-runtime-host.ts:118`) |
| `project_host` without `crossed` | `CatalogKept` | two calls about different projects write the registry in the other order: the first is forgotten |
| `assistant`, one stream at most | `OneRun` | a close that has ended has cleared `#startingRuns` and `#runs` while the server listens (`serve.ts:118`, `service.ts:335`), and so have two deletions that overlap a starting run (`service.ts:217`, `231`): a second run starts beside the first |
| `assistant`, `NothingInterrupted` without `Closed` | `NothingInterrupted` | after that close two agents of the session may work at once, and one is prompted over a call the other has not answered |

Read while modelling, reached by the models or left out of them as said, and worth knowing beside the code:

- Agent. Sequence numbers are counted at `single-agent.ts:521` and taken from the maximum in `dispatch/index.ts:37`: once an
  older Attempt was deleted, the two differ and no person can start the Task any more.
- Log. A line without its newline is glued to the next one. A sync that fails after the write makes a repeated command write its
  key twice, after which no start accepts the file (`RestartSafe` leaves that fault out). A crash between `attempt.deleted`
  and the index brings the Attempt back, and the repeated delete is answered "deleted" (`helpers.ts:45`). A partial
  artifact is a conflict for ever. `respond_intervention` gives the answer away before the commit: after a crash there the
  question stays pending. Pending questions of a Turn that is over are never cancelled in the record.
- Events. After a removal and a restart the client may
  ask for a number beyond the list and skip new events, and an old command number may be current again.
- Team. A review that approves in the last round shows no question though the graph waits (`workflow.ts:161`). A crash between
  checkpoint and record lets an answer to the old question meet a later one; "approve" as a final decision is refused and
  the run is stuck. A reset after a restart needs another command first. A failing start leaves its Attempt running. A crash
  after a check was published makes the repeated check fail. A timer that fires during containment turns exit 0 into a
  timeout. Commands hold the lock while agents run.
- Workspaces. A failing `beforeRun` or `afterCreate` hook, or a crash between `git worktree add` and the recorded reference,
  leaves a worktree no later manager accepts. Ignored files written between the last check and `git worktree remove` are lost.
- Executors. A stray stall timer or late interrupt may follow a settled Codex Turn when an intervention is answered.
  `#active` is set after an await, so two concurrent `startTurn` calls both pass. Claude's `interrupted` stays set after an interrupt
  request that timed out.
- Host. A project whose Runtime cannot be created keeps the host from starting. A project added while the Tracker is missing
  runs without polling. A poll that hangs stalls all projects. A failing registry write leaves the project in memory
  (`application-data.ts:103`): the same add, repeated, is told that it is added, without a write (`application-data.ts:91`).
- Assistant. A credential that cannot be read leaves the session in `startingRuns` (`service.ts:248`): it is refused for ever. Two
  opens, or an open with a stale read, give a call a second result. After one failing write `deleteSession` fails until a restart. A disconnect aborts by session, not by run.

## 4. Fairness

Weak fairness stands for an event loop that starves nobody: what can go on does. It is stated per process so that one that
goes on does not excuse another.

| Module | Fair | Why, and what is not |
|---|---|---|
| `SingleAgent` | steps of each job, the command, the tick, the shutdown, `EnsureScheduler`, ends of runs, `TurnEnds` | executors arm `turnTimeoutMs` (`codex-app-server/run-handle.ts:58`). Not: people, the Tracker, refreshes, timers, crashes |
| `EventStream` | start of the host, connecting, delivering, serving, answering, executing | the transport retries for ever. Not: breaks, removals, what people do |
| `TeamRun` | `Steps` of the command | agents and checks have timeouts. Not: faults, edits, answers |
| `Executors` | reading, opening, closing, timers, the exit of a process that was killed or whose input was closed | timers are armed on every request and Turn. Not: answers of the process |
| `AgentTurns` | `Settle` | the promise itself |
| `ProjectHost` | polling, timer, stop, steps of calls; strong fairness of `Sweeps` | a sweep passes its projects in order and does not start again before its end; a poll ends because the Tracker answers or is aborted |
| `Assistant` | the agent's work and end, steps of requests | the provider answers or the agent is aborted. Not: people, so a run may wait for one for ever (`StreamsClose` says so), a deletion may not |

## 5. From the models to the code

`PROJECT.json` maps every definition to the lines it stands for. A guard comes from the conditions and early
returns of those lines, the primed variables from their assignments. What is kept of data is what the properties tell
apart: a name, a payload or a revision is a model value or a number. Bounds are constants named `Max...` and appear in
guards only; they say how often something happens and never what happens.

External, modelled by how the code uses them: the Tracker, git, LangGraph, the agent processes, the agent library of the
Assistant, file system and event loop. They choose freely among the answers their interface allows.

## 6. Proofs

TLAPS checks the theorems below for every value of the constants that satisfies the named assumptions of the modules;
TLC evaluates those assumptions in the runs.

| Theorem | Module | Says |
|---|---|---|
| `TypeCorrect`, `ClaimsStayRight`, `WorkspacesStayRight` | `CoreSchedulerProofs` | `TypeOK`, `ClaimsAgree`, `WorkspacesAgree` always |
| `SchedulerImplementsLease` | `CoreSchedulerProofs` | `Spec` implies `TaskLease` under the refinement mapping |
| `LimitsAreKept`, `CleanupStaysIdle`, `SessionsStayExclusive` | `CoreSchedulerProofs` | `StartsWithinLimits`, `CleanupIsIdle`, and `SessionsExclusive` up to the first restart |
| `LeaseIsExclusive` | `CoreSchedulerProofs` | `Lease!Exclusive` always: one holder per Task, one running Attempt per workspace |
| `OneRuntimePerProject`, `CatalogIsKept` | `HostProofs` | `RuntimesExclusive` and `CatalogKept` always, for any number of overlapping calls, with the conditions on `mixed` and `crossed` that are part of the properties |
| `UncommittedKept`, `HolderIsAlone`, `WorktreesStay` | `WorkspacesProofs` | `NothingLost`, `ExclusiveHolder`, `WorktreesKept` |
| `AcceptedIsShown`, `RecordIsTheGraph` | `TeamRunProofs` | `AcceptedKnowingly`, `RecordFollows` |
| `OnlyPeopleDecide`, `OneRunAtATime`, `PromptsNothingInterrupted` | `AssistantProofs` | `PeopleDecide`, `OneRun`, `NothingInterrupted` |
| `AnswersAreKept`, `RestartIsSafe`, `ArtifactsAreWhole`, `AnsweredCommandsRunOnce` | `EventLogProofs` | `AnswersKept`, `RestartSafe`, `ArtifactsWhole`, `AnsweredRunsOnce` |
| `QuestionsAreHeld`, `CompletedStaysIdle`, `ContractIsKept` | `ExecutorsProofs` | `QuestionsHeld`, `CompletedIsIdle`, and `KeepsOrder`: `Spec` implies `AgentTurns!Safety` |
| `TypesKept`, `TablesAgree` | `SingleAgentProofs` | types in every scenario, and the inductive invariant `IInv` while people neither pause nor delete |
| `TurnsStayExclusive`, `CodexKeepsItsTask` | `SingleAgentProofs` | `TurnsExclusive`, `CodexKeepsTask` under that condition |
| `SettledRunsAreClosed` | `SingleAgentProofs` | `SettledRunsClose` under that condition, until a stop has reached the runs |
| `EventsArriveOnce`, `CommandsSeeTheCurrent` | `HostProofs` | `EachOnce`, `CommandSeesCurrent` |

**Scheduler.** None of the properties is inductive alone. Starting a Task needs that no unfinished Attempt of it exists,
which is that work is claimed; freeing a path needs that the owner map names the Attempt that runs there; a resumed
Attempt finds its workspace because it stayed known; and a claim survives a deletion because sequence numbers are
unique. `IInv` is therefore their conjunction with the type invariant, checked by TLC before it was proved. There is one
lemma per operation (`InvReserve`, `InvPauseAttempt`, `InvFinishAttempt`, `InvReconcile`, `InvRestart`, ...) with a step per
conjunct; `FreeTask`, `RunningAttempt`, `PathsAreExclusive`, `RetainedReference` are the facts they share; `LatestKept`,
`StableKept` and `LeasesKept` carry a conjunct over steps that only shrink its maps. `InvNext` combines them and
`Invariance` is the temporal step. The lease follows from `IInv` with one lemma per operation that says which step of
`TaskLease` it is (`LeaseStep`). For sessions `SInv` adds which Attempt a session belongs to and in which maps it may appear; it
holds until the first restart only, because of `core-scheduler.ts:72`, so `SessionsStayExclusive` says just that.

**Host.** A project that is not managed has no Runtime at work; that needs that every Runtime at work is managed or belongs to
the call that starts it (`WorkingRight`), that a job belongs to a managed Runtime that runs (`JobsRight`), and that a
call that starts or stops a Runtime finds its project as it left it (`CallRight`). Calls overlap: what a call knows is
preserved by the steps of the others because they are about another project (`OthersKept`), unless two of them were about one
checkout (`mixed`), and for that project nothing is claimed any more. A stop is the hard step: jobs and managed Runtimes are given up in two steps while a call may be starting another. For the catalog `CInv` adds that memory and
registry file differ only while a call is about to write, and then by its project alone, which one writer at a time
needs (`crossed`); ids are not given out twice.

**Team.** What the person was shown is on record. `Shown` says that a record that asks for the final decision has the verdict of
the graph, which waits there or is over; `Truthful` that the verdict "passed" is of the tree its checks ran on.
`CommandRight` and `CheckRight` carry both through a command that is half done, for any number of crashes, failed agents and writes. An
answer that starts the graph over could undo this; `DecisionOpen` says that it never finds the final decision on record, because there the
contract takes the checkpoints and the handle has an operation. `RecordFollows` needs two invariants: `ReachedInv`, that what
is recorded, kept by a handle or on its way to the record is the graph or an earlier revision of it whatever has failed, until the graph is started over; and, as long as nothing has failed, `Follows`: what a
command has reached (`CommandFollows`), that the graph asks what its node asks (`QuestionRight`), that no two records share an
Attempt, and that a run that was reset keeps the key of its first revision and so is never recorded again.

**Assistant.** `Valid` says of every agent that what it waits for, runs and has stored belong together; a call that runs has been
approved because approval is the only way from waiting to running, and expiry, abort and a restart all leave that place. `OneRun` says nothing of which agent a stream
has, and that is what decides: `RunsRight` says that one request starts at a time, that a stream is that of a working agent and,
as long as one deletion is under way and no close has ended, that all of them belong to the agent the session still knows; `Counted` bounds
the streams where deletions and closes have made the session forget some. `NothingInterrupted` needs that nobody
else stores: in `CallsRight` one agent at most works or has messages to store, they are about its own calls, and a repair
that has read the conversation knows all that is unanswered.

**EventLog.** `IInv` in `EventLogProofs` has nine parts, listed at its head. Answers are kept because what was answered is in the
file, unless a line of it is damaged, and then no Runtime starts (`LogRight`); the sequence numbers because on a sound disk the file
is the log and at most the one line that waits for its sync (`SoundRight`); a command runs once because the critical section
holds no operation whose key is stored (`SectionRight`), which needs that the events a command commits before its own
have keys of their own. That a line says something true (`WrittenRight`) has to be said of the lines on disk and on their way
too, since a restart may read any of them, and of what waits in the FIFO (`PipeRight`): the versions of an Attempt stand there in
the order they were drawn, the last of them is in the index unless a deletion came between, and those that are behind the deletion of their Attempt are in `behind`. From this `RebuildRight` shows
that an Attempt of which nothing is under way has in the projection what index and log say. `Fits` carries the bound on the file through FIFO and
critical section. There is one lemma per action and part.

**Workspaces.** Only three steps take a worktree from its path, and each does so after a check of its own (`RemovableIsClean`,
`CleanRemoval`); every other step leaves the disk or puts a worktree there, which `Typed` is needed for, as a tree
may come from a branch or from what a registry or a reference has kept (`StepKeeps`). The other two need to know how far
each operation is. The lemmas named `...Does` say once for each action what it may write and when. `Queued` says that
operations of a manager on one path are between their checks one at a time (`InOrder`), which step carries which reference
(`Shape`), and that the log names the holder (`KnownRight`). `IdRight` then says of each workspace: the worktree of its holder is there
and the manager in charge has the holder's entry or has forgotten it (`HeldRight`); a result with an owner that has not arrived is
backed in the same way (`BackRight`); what each step may rely on after its wait (`StepOk`), such as that nobody holds the
workspace when a removal or a failed hook may delete it; and that of two operations the later does not follow
from what the earlier is about to change (`PairsRight`). `HoldersRight` is their conjunction. For `WorktreesKept`, `Sized` adds that
an entry has its path in its registry, also between two hooks while other operations use that path, and `Watched` that a
worktree as git made it has a manager or the operation that made it, and is still what that operation saw, so that a registration that is refused
removes it. TLC checked these invariants on the run before they were proved. Renewals and crashes only forget entries.

**Executors.** `IInv` in `ExecutorsProofs` has nine parts. All Turns but the latest are completed (`Ordered`), and a Turn that is
starting is what one request is for (`CallsRight`), so an answer, an error and a timeout of that request all speak of the
Turn they find. `StallWatches` ties the timer to the pending interventions, and `AsksRight` follows an intervention from the process over
the line it is on its way in to the Turn where it is pending. For `CompletedIsIdle` the providers differ: with Codex the end message of
a Turn comes after its prompt and its last intervention (`CodexRight`); Claude Code sends a result for each prompt, so `ClaudeRight` counts that the results
on their way and the prompts in work are no more than the Turn still has queued; `EndRight` says when the stream is over.
An intervention that is answered may come back from the process as an end, in any order with an exit or a garbled line, which is why
each part is carried through every message of `Handle` by a lemma of its own. `ContractIsKept` maps the outcome of each Turn with a
handle to `AgentTurns`: `SameOutcomes` covers the steps that change none, `HandleStarts` and `OverSettles` the answer and the end
of a Turn. The half of the contract that says every Turn ends is liveness and stays with the run `executors`. `ExecutorNone` only says that an
unanswered request is told from an answered one.

**EventStream.** The list of the host is right because every entry names an event that is in its log and every event of an open
project has one entry (`ListRight`). A restart rebuilds such a list: `Ranked` shows that any finite set with a strict order can be
listed in that order, by counting what comes before each element, so `Numbered` is what its definition says, and `BacklogIs` the same
of what passes to a client. That it fits the bound again needs `DownRight`, which keeps the size of the stored logs over the time
without a host. `GapRight` says that what the workbench has and what is on its way to it is the list, wherever the connection
breaks. For commands a number has to stand for contents: the list has as many entries as there are events in the logs
(`Counted`), and a snapshot shows a part of them (`ViewRight`), so a snapshot with the number of the list shows all (`CurrentView`); that
holds over a restart too, where the numbers come back in another order, and ends when a project is removed. `StreamNone` says
that no stream and no snapshot is the value for none.

**SingleAgent.** `Typed` holds in every scenario. `IInv` has six parts and is inductive as long as nobody pauses or deletes
(`Unpaused`); TLC checked it before it was proved. `TablesRight` relates run, index, scheduler and projection of one Attempt
(`IdOk`) and says who claims a Task and waits for no retry (`ClaimOk`); `Dense` that the Attempts of a Task have the numbers without gaps, so
that count and maximum agree and the next number is free. `WorkRight` says of a run what its job may still do with it (`RunOk`, `JobOk`), and of Turn, worker
and listener that they are those of that job (`WorkerOk`): an Attempt whose job is past its last Turn has no worker, and this is
what no single step shows. `TickRight` says that what the tick is about to stop is over in the scheduler, `DownRight` that before the scheduler is
restored nothing has happened since the start of the process.
`JobMove` sums up what a step of a job may do to the tables; there is one lemma per step, and `NextRight` combines them.
A pause has to be left out: the tick may cancel a run that is being paused while the job attaches its Turn, `attach`
throws, and the Turn stays open beside the next; the table in section 3 has the instance in which TLC finds it. `Awake`
is needed because a stop closes the runs it finds, and a late worker may still open after it.
`TaskAssumption` and `AgentNone` tell Tasks and Attempts from the names and values used beside them.

Not proved: of `SingleAgent` the invariants `QuietAgree` and `LimitPerRetry` and the action property `FinishedStays`.
`LimitPerRetry` follows from which scenario is run (without cancellation and restart an Attempt is not dispatched again), and the other two
need an invariant over the order in the FIFO and records that lag behind their index. All liveness properties are out of the prover's reach.
These rest on TLC.

## 7. Not modelled

- Process capacity (`runtime/execution-capacity.ts`): it needs two orchestrations side by side, which is beyond TLC here.
- Per-state limits in `SingleAgent` (they are in `CoreScheduler`), `setTracker`, the reload of `WORKFLOW.md` between the steps of a job.
- The driver for workspaces without git, which the Runtime does not use; `rebindProject`, which nobody calls; migrations of old files.
- A crash between the deletion of a Team thread and the record of the reset; the order of several commands of one check.
- Creation, renaming and listing of Assistant sessions; redaction of credentials.
- Stateless adapters and rendering: the GitHub adapter, HTTP parsing and origin checks, MCP, CLI, workflow profile, schemas, web
  components, site and scripts.

What would add most next: a proof of `QuietAgree` and `FinishedStays`; two orchestrations with the process capacity; crashes between index and FIFO inside `SingleAgent`.
