# Verification of the Grael workflow engine

Grael runs workflows: graphs of activities that external workers poll for,
execute and report. A run's only persistent truth is its event log; the state
in memory is the fold of `Apply` over that log, and handlers change it only by
appending events. This directory holds TLA+ modules translated from that code,
TLC configurations that check them on small workflows, and TLAPS proofs for
every workflow.

## Inventory

| Component | Code | State | Operations | Talks to |
|---|---|---|---|---|
| Derived run state | `internal/state/state.go` | run state, cancel flag, nodes, compensation stack, active compensation, timers | one `Apply` case per event | folded by the engine |
| Run orchestration | `internal/engine/engine.go` | `runs` under one mutex | StartRun, PollTask, CompleteTask, FailTask, CancelRun, ApproveCheckpoint, Heartbeat, GetRun, ListEvents, SubscribeEvents | log, snapshots, registry |
| Timers and monitors | `engine.go` `fireDueTimers`, `expireOverdueLeases` | timers in the run state, heartbeat instants | one pass per tick over all runs | log |
| Compensation | `engine.go`, `state.go` | stack of completed compensable nodes, one active entry | claim, complete, fail, expire | log |
| Write-ahead log | `internal/wal/wal.go` | one file per run, subscribers per run | Append, List, RunIDs, Subscribe | file system, engine |
| Event subscriptions | `wal.go`, `engine.SubscribeEvents` | an unbounded queue per subscriber | history, then live events | log, transport |
| Snapshots | `internal/snapshot/store.go` | one file per run | Save after every handler, Load at rehydration | file system, engine |
| Worker registry | `internal/worker/registry.go` | worker id to activities, in memory | Register, Heartbeat, CanHandle | engine |
| Workflow definitions | `internal/workflowdef/loader.go`, `engine.normalizeSpawnedNodes`, `hasCycle` | none | Normalize, spawn validation | engine |
| Admission and dispatch | `engine.StartRun`, `tryClaimTask` | number of active runs | capacity check, scan of all runs | engine |
| Go SDK worker | `sdk/worker.go`, `sdk/fanout.go` | current task | register, poll, handle, report; expand a fan-out | API |
| Demo harness | `demo/harness/harness.go` | where each script and the approval loop are | scripted results, approval on a view | SDK, engine |
| Demo server and adapter | `demo/server/server.go`, `demo/adapter/adapter.go` | a second engine on the same directory | live view and replay from the events | log, engine |
| Command line | `cmd/grael/main.go`, `cmd/grael-demo/main.go` | an engine per process | start, status, events, snapshot, serve | engine |
| API, gRPC | `internal/api`, `internal/grpcserver` | none | forwarding, conversions | engine |

What is hard here:

* one handler persists several events, each applied at once: a failed append or
  a crash between two of them leaves the run at a cut nobody planned;
* reports arrive late, twice or from a worker that lost its lease, and race
  leases, deadlines, retries, approvals and cancellation;
* timers outlive the attempt they were set for, and a pass over them goes in
  map order;
* compensation, cancellation and failure are decided by the same function
  after every handler, and must not undo each other;
* the log's tail may be torn, a snapshot half written, the registry is lost;
* the log takes events of any length and reads none over its scanner's limit:
  one such event, reported as persisted, closes the run's log for ever;
* whether a worker lives is told from its id and its polls alone: processes
  share ids, end in mid-task, come back without their task, or leave a call
  behind in the engine;
* two processes may open one directory, each with its own memory and monitors.

## What makes each component correct

| Component | It is correct when |
|---|---|
| Derived run state | dependencies are completed before a node is ready; the stack lists exactly the completed compensable nodes; the active compensation is an open entry |
| Run orchestration | every lease has a fresh attempt and one holder; a completion is accepted once and only from the holder; the outcome is one the nodes justify; nothing is left undecided when a handler returns; nothing is dispatched after a cancellation; a run ends |
| Timers and monitors | a timer acts only on the attempt it was armed for; an attempt has the limits its definition asks for |
| Compensation | newest entry first, one at a time, never twice; the run leaves COMPENSATING |
| Write-ahead log | what replays is what was applied; a restart forgets nothing or does not load the run |
| Event subscriptions | no gap and no repetition between history and live events; a reader catches up; a cancelled subscription ends |
| Snapshots | snapshot and tail make the same state as the whole log; a snapshot never knows more than the log |
| Admission | the number of active runs stays within the limit |
| Workflow definitions | a spawn is accepted exactly if the graph with it has no cycle, in whatever order it is searched |
| Worker registry, polling | one report of a task counts; who is heard of keeps its leases; a lost worker's come back; what waits is handed out |
| Demo | the scripted run completes and publishes nothing unapproved; what is shown is what the log and the engine say; watching changes nothing |

## Modules

| Module | Role |
|---|---|
| `ExecutionState` | a run's derived state as a record, every event of `Apply` as an operator on it |
| `Engine` | the engine on one run: an action per handler and monitor, crash and restart |
| `EngineProperties` | invariants, action properties, liveness, and the mapping to `TaskLedger` |
| `TaskLedger` | abstract: exclusive leases on fresh attempts, one completion per task, by its lease's holder |
| `MCEngine` | the workflows on which TLC checks `Engine` |
| `EngineMoves` | the single decisions a handler of `Engine` is a chain of, for the proofs |
| `EngineProofs` | every step of `Engine` as a chain of moves; type correctness, dependencies, retry timers |
| `EngineSafety` | what no step of `Engine` does; the compensation stack; `TaskLedger` implemented; stale timers; the outcome of a run, reconciliation, limits |
| `Wal` | one run's log file, the memory that follows it, subscribers, reload |
| `MCWal`, `WalProofs` | its instances; its theorems |
| `Runs` | several runs across critical sections: admission, StartRun, snapshots, GetRun, crash, restart |
| `MCRuns`, `RunsProofs` | its instances; its theorems |
| `Workers` | worker processes, polls, heartbeats and leases over several runs, with a clock |
| `MCWorkers`, `WorkersProofs` | its instances; its theorems |
| `History` | a log as a sequence of events: its replay, and what the demo adapter makes of it |
| `Demo` | the scripted workers, the approval loop and a second process on `History`; refines `Engine` |
| `MCDemo`, `DemoProofs` | its instance; its theorems |
| `WorkflowGraph` | definitions, spawn requests and the search for cycles, call by call |
| `MCWorkflowGraph`, `WorkflowGraphProofs` | its instance; its theorems |
| `NaturalLemmas` | least members and induction over sets of naturals, for the proofs |

`Engine` extends `ExecutionState`, and `EngineProperties` instantiates
`TaskLedger` under a refinement mapping. The three levels meet in two places:
`Engine` keeps one state for memory and log, which `Wal` shows to be the same
while no write was torn and no event is longer than the log's scanner takes
(`MemoryCoversLog`; an over-long event still reaches both, but as their last,
since every later append is refused and a restart leaves the run out, so that
in `Engine` such a run takes no further step); and `Runs` shows that the state
handlers decide on is the replay of the log however it got into the map
(`MemoryIsReplay`), so that what `Engine` says of one state holds of each run.
The worker side meets the engine twice: `Workers` reduces a run to its tasks and
adds clocks, processes and the scan over runs; `Demo` composes the scripts with
handlers written as event sequences, and `ImplementsEngine` (`E!Spec`, with
`Engine`'s variables mapped) shows each of them to be an action of `Engine`.
`Engine`'s `ValidSpawn` is a condition on graphs; `VerdictIsRight` shows that
the search the code makes decides exactly its acyclicity.

### ExecutionState and Engine

A state is a record: `runState`, `cancelRequested`, `node[n]` (state, attempt,
lease holder), `stack`, `active`, `pending` and `fired` timers. `"ABSENT"` is a
node id that is not in the map, `"NONE"` a run that has not started. Instants,
payloads and messages are left out, so any lease may be overdue and any pending
timer due when a monitor looks; no property depends on a duration. Node ids are
naturals because handlers walk nodes in id order.

All handlers hold the engine's mutex, so each is one action. Inside, a handler
persists events one after another and applies each as soon as it is persisted.
`Commit(cuts, final)` is its end: the whole sequence, or a prefix of it, with
the process alive (an append failed) or gone (a crash). Every action names its
prefixes.

| Action | Code (`internal/engine/engine.go`) |
|---|---|
| `StartRun` | `StartRun`, `workflowdef.Normalize` |
| `RegisterWorker` | `RegisterWorker`, `worker.Registry` |
| `ClaimReadyTask`, `ClaimCompensationTask` | `tryClaimTask`, `claimReadyTaskLocked`, `claimCompensationTaskLocked` |
| `CompleteTask`, `ReachCheckpoint`, `CompleteCompensationTask` | `CompleteTask` with its branches, `normalizeSpawnedNodes`, `hasCycle` |
| `FailTask`, `FailTaskCancelled`, `FailCompensationTask` | `FailTask`, `scheduleRetryTimerLocked`, `failCompensationTaskLocked` |
| `CancelRun`, `ApproveCheckpoint` | the same names |
| `ExpireOverdueLeases` | `expireOverdueLeases` |
| `FireDueTimers`, `FireDueTimersLosingTimeouts` | `fireDueTimers`, `shouldFailNodeForTimer` |
| `Crash`, `Restart` | `loadPersistedRuns`, `reconcileRunLocked` |
| `Reconcile`, `Advance` | `reconcileRunLocked`, `cancelEligibleNodesLocked`, `advanceRunStateLocked` |

Requests are any worker, node and attempt: `Holds` and `HoldsCompensation`, the
code's own checks, refuse stale, repeated and misdirected ones. A pass of the
timer monitor handles the due timers in any order (Go walks a map). When the
append of `NodeFailed` fails inside a pass, the timer is used up and the pass
goes on; that is `FireDueTimersLosingTimeouts`. Heartbeats are left to
`Workers`: their event only moves an instant.

### Wal

The file is a sequence of lines. A line is `good`, `bad` (it does not decode) or
`long` (over the 64 KiB a `bufio.Scanner` takes, wal.go:287); the last may lack
its newline. `scanLocked` stops at the first line that is not good: at a bad one
it returns the events before it, at a long one none and an error its callers do
not get past (`Unreadable`). `Append` scans before it writes and looks at no
length, so a long line is written, reported and applied, and is the last.
`AppendEvent` numbers its event from the valid prefix and writes at
the end of the file, which after a torn write is the middle of a line;
`TornAppend` stops inside the line or just before its newline. `Restart` loads
the run only if the whole file is good. `memory` is what the handlers applied;
while the run is not loaded it remembers what it last was, to say what a
restart may not forget. A subscriber is a state, the queue, the event its
goroutine holds and what its reader received; `Subscribe` reads the history and
registers in one critical section, as the code does under the log's mutex.

### Runs

A state is the list of events applied to it, in the three parts in which `Save`
encodes it: the run's own fields, `LastSeq`, and nodes with timers. Handlers
save inside the engine's lock; `StartRun` saves outside it, so a handler may
change the state between two parts and the file be a mixture. `StartRun`,
`GetRun` and handlers are split at every point where they hold no lock or do
I/O. `spoiled` is a history variable: the runs that crashed while such a
mixture was on disk. A run startup could not read is skipped and rehydrated
later, by a handler (`LoadRun`) or by `GetRun`, which looks up, reads, and
publishes in separate critical sections.

### Workers

A task is what a poll may hand out: a ready node or the next compensation of a
run. It keeps its state, its attempt, the worker id that holds it and the ticks
since the last heartbeat; `process[p]` is the program counter of
`sdk.Worker.Run` with the task its handler works on. Who works on a task and who
holds its lease are different things, and everything here is about the gap.
`log[r]` is whether a run takes events: a run may be started with an input, and
a report may bring an output or a message, that make an event longer than the
log's scanner takes. Such a run is `refusing`: handlers find it in memory and
get an error from every append. A restart leaves it out (`skipped`).

| Action | Code |
|---|---|
| `StartWorker`, `Poll`, `PollTimesOut`, `Report`, `StopWorker`, `LoseWorker` | `Worker.Run` (`sdk/worker.go`), `Registry.Register` |
| `Claim`, `ClaimFails` | `tryClaimTask`, `claimReadyTaskLocked`, `claimCompensationTaskLocked`; the append, the save or the answer fails |
| `Heartbeat` | `Engine.Heartbeat`, from a handler (`paceTask`) |
| `OrphanPoll` | gRPC `PollTask`, which does not look at its caller's context |
| `CancelRun`, `ExpireOverdueLeases`, `Crash`, `Restart` | the same in `engine.go` |

A process that ends in a handler sends nothing (`worker.go:107`); one that is
told of any error ends; a restarted engine knows no worker, and the next poll of
each ends it, so that whoever operates it has to start it again.

### History and Demo

`History` is `Apply` by event type, and what `analyzeEvents` and
`buildReplayFrames` derive from a prefix of events: the phases and the event
that last touched each node. A log is kept as what its readers make of it, not
as a sequence: the state it replays to, those marks, and the states a reader may
find that comes while the last handler still writes.

`Demo` follows `grael start -demo-worker`. Each worker's script returns a
checkpoint at the gate's first attempt, a retryable failure at a flaky node's
first, and a completion otherwise, with what it spawns; the SDK reports it, and
a refused report ends the loop. The approval loop reads a view (`ApproverAsks`)
and approves on it later (`Approve`). A second process (`OpenOther`,
`LookOther`, `ExpireOther`, `FireOther`) has its own memory and monitors and the
same file.

### WorkflowGraph

`StartRun` takes any definition `Normalize` accepts, cyclic ones included, and
`CompleteTask` any spawn request that names new nodes and known dependencies,
with `ExpandFanOut` for ids left out. Then `hasCycle` runs: a key of the map
(`VisitKey`), a call of `visit` for a dependency (`VisitDependency`), a `Return`,
and the verdict. `frames` is the call stack; keys and dependencies are taken in
any order.

## Runs of the model checker

Twelve configurations. State counts are those of distinct states.

| Run | Instance | States | Shows |
|---|---|---|---|
| `pipeline` | node 1 with one retry and a deadline, 2 beside it with a deadline, 3 spawned by either and waiting for both; two workers, two attempts, one crash, one failed append; spawn requests: none, a new node, an existing one | 519,471 | `TypeOK`, `NothingLeftToReconcile`, `DependenciesRespected`, `RetryTimerSound`, `EveryStartIsANewAttempt`, `CompletionIsFinal`, `NothingDispatchedAfterCancel`, `StaleTimersAreHarmless`; `ImplementsLedger` |
| `saga` | two compensable nodes beside one that may fail; the same faults | 882,367 | `OutcomeJustified`, `StackIsLedger`, `ActiveCompensationSound`, `CompensationIsLIFO` |
| `progress` | a retried, compensable node with checkpoint and all limits, one after it; one worker, one crash; with fairness | 14,271 | `LimitsArmed`, `EventuallySettles`, `CancellationEnds` |
| `wal` | five appends of any length, two torn writes, two crashes, one subscriber; with fairness | 38,695 | `TypeOK`, `MemoryCoversLog`, `StreamIsContiguous`, `RestartForgetsNothing`, `StreamCatchesUp`, `CancelledStreamEnds` |
| `runs` | two runs of up to three events, one active at most, one GetRun caller, one crash, one failure; with fairness | 470,956 | `LogComesFirst`, `MemoryIsReplay`, `MixedSnapshotsHeal`, `StartRunReturns` |
| `workers` | two processes under one id, a run of one node and one that compensates, a timeout of one tick, two leases of a task, one fault, over-long events at the start and in a report; with fairness | 163,394 | `OneReportCounts`, `HeardOfKeepLeases`, `LostWorkersHoldNothing`, `WaitingTasksAreHandedOut` |
| `demo` | a plan that spawns an investigation, which fails once, and a publication, which waits for it and for a gate with an approval timeout; four workers; one lease expired under a working worker, one handler of a second process that appends; with fairness | 67,925 | `NothingPublishedUnapproved`, `TimelineTellsTheRun`, `ImplementsEngine`, `DemoCompletes` |
| `graphs` | definitions of up to three nodes, requests of up to three items over four ids | 292,362 | `FramesAreAPath`, `VerdictIsRight` |
| `terminal_reopened`, `behind_tear`, `abandoned`, `observer` | the smallest that shows it | | each a disagreement of code and documents, below |

Bounds and why they are enough:

* two workers and symmetric skills: a report from the holder, from an earlier
  holder and from a stranger are all told apart with two;
* two attempts: one that ends early and one after it; every guard compares a
  number with the current attempt only. `MaxAttempt` bounds what would repeat
  for ever (expiries, checkpoints), never a retry the policy allows;
* two due timers in a pass, the order of two being what the code leaves open:
  deadlines of two nodes of which one ends the run (`pipeline`), and timers of
  one node and several attempts (`progress`);
* one crash and one failed append together: an append that fails and a crash
  later, in every handler at every point between two events;
* five appends with two tears: a tear, a good line continuing it, another tear
  after a restart, and events on either side of each;
* three events of a run: the first, which StartRun saves, one that races with
  that save, and one after the reload;
* two processes with one id, which is the case with most to confuse; ages are
  told apart up to one tick beyond the timeout, which is all the monitor
  compares; two leases of a task, one lost and one after it. The second task, in
  a run behind the first's in the scan, is a compensation, the other kind of
  task; what one run's error does to the next needs no third;
* in the demo one stall and one append of the second process: each branch of a
  script turns on whether an attempt is the first, and one foreign event is
  enough to part log and memory, after which nothing is claimed of them;
* graphs of four nodes hold every shape on which a depth-first search could go
  wrong: a diamond met twice, a cycle through old and new nodes, a cycle behind
  a finished branch, two components. Three of the ids suffice for submitted
  graphs, cyclic ones included, as one node at least is spawned.

Deadlock is not checked: a run that is over and whose counters are used up has
nothing left to do. Liveness properties say what must happen instead.

### Fairness

`progress` assumes: the process is restarted; workers register again and keep
polling; the timer monitor ticks; and an attempt that runs is reported or its
lease expires. The monitors are goroutines on tickers (`engine.New`) and
workers poll in a loop (`sdk/worker.go`), so weak fairness is what they give.
The last assumption is the strong one: a poll for other work renews all leases
of its worker (`engine.go:168`), so a worker that lost a task and goes on
polling keeps it (`abandoned`). Where that happens the code gives no promise,
and the model claims none. `EventuallySettles` names the two situations a run is not driven
out of: a checkpoint without a timeout waits for a human, and a node given up
with `Cancelled` in a run nobody cancelled leaves it neither completed nor
failed.

`wal` assumes that the subscriber's goroutine runs and its client reads or
cancels. `runs` assumes that StartRun calls and handlers in progress are
scheduled; weak fairness suffices as events are bounded, and beyond the bound it
is Go's mutex, which hands over to a waiter, that lets StartRun have the locks.

`workers` assumes that time passes and the monitor ticks, that polls end, that a
process goes on with its loop and a handler returns, that a stopped engine is
restarted and a process that ended started again, unless it is gone for good.
`LostWorkersHoldNothing` needs none of the operators: only time and the monitor.
`WaitingTasksAreHandedOut` leaves out a task behind a run that refuses its own
(`Blocked`): the scan ends at that run with an error for as long as it has a
task the worker would take (engine.go:578), and TLC finds the task behind it
waiting for ever when `Blocked` is dropped.
Starting processes again is the operator's part, and without it the first
restart of the engine would strand every worker.

`demo` assumes that some step of `grael start` is taken while one can be (`Go`;
its guard `CanGo` is written out). One weak condition on all of them suffices
because each is taken a bounded number of times, so none can keep another from
its turn for ever; the monitors of the second process and the expiry of a
worker's lease are not assumed to happen.

### Where code and documents disagree

| Run | Code | Document |
|---|---|---|
| `terminal_reopened` | `failCompensationTaskLocked` (engine.go:989) appends WorkflowFailed to a run that was cancelled meanwhile: CANCELLED becomes FAILED | GRAEL_RUNTIME_SPEC.md:1035 "Terminal states are final" |
| `behind_tear` | after a torn write, `Append` continues the torn line, reports success, and nothing reads the event back (wal.go:98) | wal.go:56 "persists exactly one event" |
| `abandoned` | a worker process that lost its task, by a restart, with a lost answer or with a refused report, keeps the task's lease alive by polling under its id (engine.go:168): the task stays RUNNING and nobody works on it | sdk/worker.go:108 "the lease expiry path already provides the honest recovery mechanism"; UAT-C4-02:51 "does not remain stuck in perpetual running state" |
| `observer` | a process that looks at a run opens an engine of its own (demo/server/server.go:25, cmd/grael/main.go:129), whose monitors append to the shared log: LeaseExpired for workers it does not hear of, NodeFailed for deadlines | ADR 0012:96 "must remain a read-only translation layer"; README.md:77 "intentionally read-only" |

Further disagreements met while modelling, which no run checks. Each model has
the code's behaviour, and the properties are stated around it:

* an absolute deadline that fires while its node waits for a retry does nothing,
  and the next claim arms a full one (engine.go:1244); GRAEL_RUNTIME_SPEC.md:266,
  "AbsoluteDeadline Cannot Be Paused or Extended";
* a failure and its retry timer are two appends (engine.go:396), and a crash
  between them makes the failure final; UAT-C5-01:20, "retryable failures do not
  permanently fail the run immediately";
* a run whose log has a torn tail is skipped at startup (engine.go:1330), and
  GetRun returns the error; UAT-C1-02:62, "run remains readable after restart";
* an event of more than 64 KiB is written and reported as persisted, and from
  then on the scan of the run's log returns an error and no events (wal.go:287,
  316): every further append, ListEvents and SubscribeEvents of the run fails,
  and a restart leaves it out; wal.go:116, "List returns the valid persisted
  prefix". While it is in memory and has a task a worker would take, no poll of
  such a worker reaches the runs behind it (engine.go:578);
* a snapshot file cut short is a decoding error, and `rehydrate` ignores only a
  corrupt checksum (snapshot/store.go:92, engine.go:1034);
  GRAEL_RUNTIME_SPEC.md:1722, "Invalid snapshot (failed CRC32) is ignored";
* the capacity check releases its lock before the run is added (engine.go:86);
  V1_SCOPE.md:197, "returns an error if the engine is at hard capacity";
* a submitted definition may have a cycle: its nodes never get ready, and each
  later spawn in the run is refused for it (loader.go:78, engine.go:1442);
  V1_SCOPE.md:59, "A cycle in the WAL is unrecoverable";
* a spawned node may depend on others of its request (engine.go:1433);
  GRAEL_RUNTIME_SPEC.md:262, I-15;
* the demo server's first GetRun loads a run and never reads the log again
  (engine.go:1012), while `ListEvents` does: the page shows a view that stands
  still beside a timeline that grows; UAT-C12-02, "the refreshed demo agrees
  with `GetRun` and `ListEvents`".

A property about such a point is stated in the passing runs as far as the code
keeps it: `LimitsArmed` and `NothingLeftToReconcile` without the faults that
break them, `MemoryIsReplay` while reads and writes succeed and outside
`spoiled` runs (a GetRun that follows a failed startup read may overwrite a
state handlers have moved on).

## Theorems

All hold for every value of the constants under the stated assumptions
(`DefinitionAssumption`, `EngineAssumption`, `WalAssumption`, `RunsAssumption`,
`WorkersAssumption`, `GraphAssumption`, `DemoAssumption`): node ids are a finite
set (of naturals in `Engine`, as the tasks of `Workers` are, because the code
takes the first in the order of their names), definitions are well typed, the
null values are none of the values they stand beside, bounds are naturals.
`DemoAssumption` asks in addition what the harness and the demo's definitions
have: one script that fails once, of a node that is retried; one worker for the
gate's activity (the editor, harness.go:87); no compensation, no limits but
checkpoint timeouts; and submitted nodes that wait for submitted nodes only.

**Engine.** A handler is a chain of *moves*: one event, or two decided
together, under the condition the code checks first. `EngineMoves` defines
`Closed(P)`, a set of states that no move leaves, and `StepsAreMoves`
(`EngineProofs`) proves that no step of the engine leaves it either: each handler's `Commit` is taken
apart, its cuts included, and a timer pass of any length and order is followed
by induction on the number of timers. What remains for an invariant is one
condition per kind of move. Three moves give work away or take it back: claims
(`ClosedUnderClaims`), compensations handed out (`ClosedUnderHandout`), accepted
completions (`ClosedUnderCompletion`). The rest is upkeep, and of upkeep only
the firing of a timer uses one up (`ClosedUnderFiring`), which no handler but
the timer monitor does (`UpkeepMoves`).

Invariants, each with what makes it inductive:

* `TypeCorrect`: `Spec => []TypeOK`, with `P` the well-typed states.
* `DependenciesAreRespected`: `Spec => []DependenciesRespected`. The invariant
  is not inductive alone, since `WorkflowStarted` resets the nodes it declares;
  it needs `Sound` (a run that has not started has no nodes and is not
  cancelled). The rest of the argument is that nothing takes COMPLETED back and
  only the recomputation of readiness brings a node to READY for the first time.
* `RetryTimersAreSound`: `Spec => []RetryTimerSound`, again with `Sound`. A
  node that has failed is left alone by every move but the firing of its retry
  timer, and that move uses the only such timer up.
* `OutcomesAreJustified`: `Spec => []OutcomeJustified`, with `Justified`: a
  compensation is active only after a failure nothing recovers. Without it a
  run that compensates and is cancelled could fail with nothing failed, when
  the compensation that was active reports.
* `NothingIsLeftToReconcile`: `Spec => []NothingLeftToReconcile`, with `Quiet`:
  no run event follows from the state, and a cancelled run has no node left to
  cancel. `Reconcile` always ends there and does nothing there
  (`ReconcileSettles`). As the engine has crashed or lost an append otherwise,
  only the whole sequence of each handler matters; those that do not reconcile
  are shown to change nothing it looks at.
* `LimitsAreArmed`: `Spec => []LimitsArmed`, with `Armed`: the timers that are
  to be pending are, and an absolute deadline has attempt 0. A limit is used up
  by firing only, and then the node it limits leaves the states it limits, which
  is why the pass as a whole, and not its moves one by one, keeps `Armed`.
* `StackIsALedger`: `Spec => [](LedgeredRun /\ StackIsLedger)`, and
  `ActiveCompensationIsSound`, which follows. Inductive is `LedgeredRun`: the
  entries' nodes are distinct and are the completed compensable ones, and the
  active compensation is an open entry on its latest attempt. It is the
  distinctness that lets `Apply` address an entry by its node.

What a step may do: every step is upkeep, a claim, the handing out of a
compensation, or an accepted completion, and what each kind keeps of the state
before it is written out (`Upkept`, `Claimed`, `Handed`, `Completed`;
`StepKinds`, with `Upkept` shown closed under the moves of upkeep). From the
kinds follow `CompletionsAreFinal`, `StartsAreNewAttempts`,
`CancellationStopsDispatch`, `CompensationRunsLIFO`, and step by step the
refinement of the abstract ledger, `EngineImplementsLedger`: upkeep is a release
of leases or a stutter, whatever its moves and cuts.

* `StaleTimersDoNothing`: `Spec => StaleTimersAreHarmless`. Handlers use no
  timer up. Within a pass, by induction on its timers: either one that fits its
  attempt has fired for the node, or the node has its old attempt and its old
  state, unless it was cancelled.

**Wal.** `LogInvariant` says that every complete valid line was applied in
memory in its place, that a file that decodes to its end has everything the
memory ever had, and that without torn writes the lines are the memory and only
the last of them can be one the scanner does not take. The first part is what
makes `MemoryCoversLog` true, the second what keeps it true over a restart: a
file damaged before must not decode again once it is appended to. The third
needs that a long line is never followed by another: `Append` would have scanned
it before.

* `LogIsSound`: `Spec => []LogInvariant`.
* `MemoryCovers`: `Spec => []MemoryCoversLog`, which names the unreadable log as
  the one case in which an untorn log does not replay to the memory.
* `RestartForgets`: `Spec => RestartForgetsNothing`.
* `WalTypeCorrect`: `Spec => []TypeOK`.
* `StreamsAreContiguous`: `Spec => []StreamIsContiguous`. Inductive is
  `StreamsHold`: while no write was torn, memory is numbered from 1, and what a
  subscriber received, has in hand and has queued is together the rest of the
  memory behind the event it named. That a subscriber starts so is
  `HistoryPicks`, by induction on the event's place in the log: the loop over
  the log, which picks numbers greater than the one named, yields its suffix.

**Runs.** Two invariants, one for whatever may fail and one for while nothing
does.

* `LogsComeFirst`: `Spec => [](WithinLog /\ LogComesFirst)`. Inductive is
  `WithinLog`: also what a StartRun call has copied for its save, and what a GetRun call carries
  from one critical section to the next, knows only events of the log.
* `MemoryIsTheReplay`: `Spec => [](WholeRuns /\ MemoryIsReplay)`, and
  `MixedSnapshotsAreHealed`: `Spec => []MixedSnapshotsHeal`. Neither property is inductive: which state a restart
  puts into the map depends on the snapshot, and whether StartRun's save gets
  one state or a mixture depends on what it has copied so far. Inductive is
  `WholeRuns`, for runs that did not crash with a mixed snapshot: what is in
  memory is the replay; a snapshot is one of a moment unless the handler that
  holds the lock has still to save; and as long as no handler holds it, what
  StartRun copied is what is in memory. It also says why no GetRun call
  overwrites a newer state there: a run that is known and missing has a snapshot
  that does not decode, so the call gets no further (`Unread`).
* What replaying, applying and folding make of a state is `StatesOfEvents`; in
  particular a snapshot of the first k events and the tail after it make the
  replay of all n (`Replay(Fold(k), n) = Fold(n)`).

**Workers.** Both arguments rest on `Typed`: a lease has a holder, a handler a
task.

* `ReportsCountOnce`: `Spec => [](Typed /\ OneReportCounts)`. The property compares
  processes with a task only while the task still runs on their attempt; an
  expired lease makes it true for the moment and says nothing of the next claim.
  Inductive is `GivenOnce`: what a process works on was given to it under an
  attempt number its task has reached, and to no other process under the same
  one. A claim gives the next number, a release keeps it.
* `HeardOfWorkersKeepLeases`: `Spec => HeardOfKeepLeases`. Inductive is
  `HeardSince`: in a run that is not over and takes events no lease is older
  than the silence of its holder's id, since every poll and heartbeat renews all leases of its id
  there, the ones of another process with that id included.

**WorkflowGraph.** The search is right on graphs of any size. `FramesAreAPath`
is not inductive: when a call returns, its node counts as finished, and nothing
in the property says that the dependencies it took before are. `SearchInvariant`
says of every active call that what it took is finished, but for the node of the
next call. For the verdict it adds that the finished nodes have no cycle among
them, and that a key taken is not unvisited. A node met while it is visited gives
the refusal its cycle, the calls from that node on; when all keys are taken and
no call is active, all nodes are finished, and so without one.

* `SearchKeepsToAPath`: `Spec => []FramesAreAPath`.
* `VerdictCorrect`: `Spec => VerdictIsRight`.

**Demo.** `ActionsMove` tells, for each step, what it does to the state in
memory, to the worker loops and to the log. Below it, `EventByEvent` and
`EventEffects` take a handler's events one at a time, `HandlerEffects` puts them
together as far as a reader of the log can tell, and `OneNodeMoves` says what
else changes when one node does: others are added or get ready. The rest is
argued from that, and never from the events again.

* `DemoInvariant`: `Spec => []DemoInv`. Its conjuncts are about attempts
  (`Fresh`, `Counted`: beyond the second, each followed a stall), about where a
  node is (`Ordered`, `Waits`, `Retries`), and about who has a task (`Working`: a
  lease is held by a worker whose loop is at just that task).
* `NothingIsPublishedUnapproved`: `Spec => []NothingPublishedUnapproved`. The
  script asks for approval on the gate's first attempt only, so a second lease
  before the approval would pass the gate. `GateHeld` says why there is none: if
  the first lease expires, the only worker that could take another still has
  the first task in hand, and its late report is refused and ends its loop. That
  is where `DemoAssumption` needs the editor to be alone.
* `TheTimelineTellsTheRun`: `Spec => []TimelineTellsTheRun`. Inductive is
  `Timeline`, which adds what makes dates and phases survive the next event:
  every prefix a second process may find is dated, a completed run has nothing
  running (so a process that loads it appends nothing), and the retry phase
  belongs to the one node that may be retried (`RetryTold`).
* `DemoImplementsEngine`: `Spec => ImplementsEngine`, which is `E!Spec`. Each
  handler, written as a sequence of events, leaves memory as one action of
  `Engine` does (`AdvancedAdvances`: the run event that follows is what
  `Engine`'s `Advance` decides); what the second process does is a stutter.

Only model-checked is liveness, which needs fairness and ENABLED:
`EventuallySettles`, `CancellationEnds`, `StreamCatchesUp`,
`CancelledStreamEnds`, `StartRunReturns`, `LostWorkersHoldNothing`,
`WaitingTasksAreHandedOut`, `DemoCompletes`. Every invariant, action property and
refinement that a passing run checks is stated by a theorem.

## Not modelled, and simplified

* In `Engine`, clocks: a monitor may find anything overdue. `Workers` has a
  clock for leases; timers' instants are nowhere compared.
* In `Workers`, what a handler appends: readiness, retries and a failure's
  compensations follow in `Engine`. A task that fails ends its run there. A
  heartbeat whose append fails, which the code skips silently, is left out.
* In `Demo`, cancellation and compensation (the script core-demo uses neither,
  and the other scripts are left out), heartbeats, and snapshot files. Two
  processes that append at the same moment may give two lines one number, as
  nothing locks the file; there an append is one step. That the approval loop
  ends on a finished run and `grael start` returns then is left out: a stopped
  process takes no steps, and none are left to take.
* Of the adapter, wording, signals and edges; and that its view and its events
  are read one after the other, so one answer may join two moments. The web page
  polls without waiting for the previous answer, and may show an older one last.
* An event over the log's limit, outside `Wal` and `Workers`: in `Engine` it is
  the last event before a run stops, which `Commit`'s cuts and a stuttering run
  cover as far as safety goes; `MemoryIsReplay` is stated while reads succeed;
  `EventuallySettles`, `CancellationEnds` and
  `DemoCompletes` are about runs whose log can be read.
* `LookOther` reads and publishes at once. Two GetRun calls of one process
  (engine.go:474) may both find the run missing, and the later one overwrite a
  state that process's monitors moved on; no property depends on it, as what is
  shown of a process that found the run unfinished is claimed nowhere (`watched`).
* The file system: a write that returned is there after a crash, a line decodes
  or not (no collisions of checksums), a new file's name is never lost, a
  failed write that changed nothing is no step.
* Applying events to a state they do not fit is an error only in `Runs`, at
  rehydration from a mixed snapshot. StartRun's save outside the lock also
  races on Go maps, which the runtime may end the process for: a `Crash`.
* A client of SubscribeEvents names an event it has seen, or 0. The code accepts
  any number and then sends live events below it.
* The API service and the conversions of the gRPC transport keep no state, and
  the transport's `pb` package is generated. `cmd/grael serve`, the HTTP routes
  and the parsing of flags and JSON are wiring.

## What could be added

* A property of a fired deadline that is lost with its failed append
  (engine.go:1196): the code leaves the attempt without a limit.
* The other scripts of the harness, with compensation (`living-dag-ops`), over
  `Demo` with the compensation events in `History`.
