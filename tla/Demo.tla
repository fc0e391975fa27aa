-------------------------------- MODULE Demo --------------------------------
(***************************************************************************)
(* The demonstration: `grael start -demo-worker` (cmd/grael/main.go) runs  *)
(* an engine with the scripted workers and the automatic approval of       *)
(* demo/harness/harness.go, while a second process, `grael-demo` or one of *)
(* `grael status`, `events` and `snapshot`, opens an engine of its own on  *)
(* the same directory (demo/server/server.go, cmd/grael/main.go).          *)
(*                                                                         *)
(* Covered: the scripts' results, the workers' loops and how they end, the *)
(* approval loop, the lease and timer monitors, and of the second process  *)
(* its start, the first GetRun and its monitors.  Handlers are sequences   *)
(* of events here; ImplementsEngine compares them with module Engine's.    *)
(* Not covered: cancellation and compensation; heartbeats, which keep a    *)
(* working worker's leases but for MaxStalls times; snapshot files: both   *)
(* processes load the run before the second writes; that the two may give  *)
(* one number to two lines, as an append is not atomic between processes.  *)
(***************************************************************************)
EXTENDS History

CONSTANTS
    Skills,        \* Skills[w]: the activities a demo worker registers
    Spawned,       \* Spawned[n]: what the script of n asks to spawn
    Flaky,         \* the node, if any, whose first attempt fails retryably
    Gate, Draft,   \* the node to approve, and the one its approval waits for
    Closed, Empty, \* a second process not started; one that knows no run
    MaxStalls,     \* bound: leases that expire on a working worker
    MaxForeign     \* bound: handlers of the second process that append

(* What the harness and the demo's definitions have: one script that fails *)
(* once and is retried, one worker for the gate's activity (the editor),   *)
(* no compensation; a definition's nodes wait for nodes of the definition. *)
ASSUME DemoAssumption ==
    /\ Skills \in [Workers -> (SUBSET Activities) \ {{}}]
    /\ Spawned \in [Nodes -> SUBSET Nodes]
    /\ Flaky \subseteq Nodes /\ {Gate, Draft} \subseteq Nodes /\ Gate \notin Flaky
    /\ \A n \in Nodes : /\ Def[n].limits \subseteq {"checkpoint_timeout"}
                        /\ Def[n].compensation = NoActivity
    /\ \A n \in InitialNodes : Def[n].deps \subseteq InitialNodes \ {n}
    /\ \A v, w \in Workers : Def[Gate].activity \in Skills[v] \cap Skills[w] => v = w
    /\ \A m, n \in Flaky : m = n /\ Def[n].maxAttempts > 1
    /\ Closed # Empty /\ Closed \notin ExecutionStates /\ Empty \notin ExecutionStates
    /\ {MaxStalls, MaxForeign} \subseteq Nat

VARIABLES
    log,      \* the run's events, in the shared file
    memory,   \* the run in the engine of `grael start`
    worker,   \* worker[w]: where its loop is, and with what task
    approver, \* the approval loop
    other,    \* the run in the engine of the second process
    stalls, foreign,
    watched   \* history: the second process found the run unfinished

vars == <<log, memory, worker, approver, other, stalls, foreign, watched>>

E == INSTANCE Engine WITH
        st <- memory, up <- TRUE, crashes <- 0, ioErrors <- 0,
        registered <- {w \in Workers : worker[w].pc # "starting"},
        SpawnRequests <- {Spawned[n] : n \in Nodes} \cup {{}},
        MaxAttempt <- MaxStalls + 3, MaxDue <- 1, MaxCrashes <- 0, MaxIOErrors <- 0

Loop(pc) == [pc |-> pc, node |-> 0, attempt |-> 0]

Init ==
    /\ log = NewLog
    /\ memory = New
    /\ worker = [w \in Workers |-> Loop("starting")]
    /\ approver = "watching"
    /\ other = Closed
    /\ stalls = 0 /\ foreign = 0
    /\ watched = FALSE

-----------------------------------------------------------------------------
(* Handlers: the events that follow from a state *)

(* The run event that follows, if any.                                     *)
Advanced(s) ==
    LET next == E!NextRunState(s)
    IN  IF IsTerminal(s) \/ next = s.runState THEN << >>
        ELSE << Event(IF next = "COMPLETED" THEN "WorkflowCompleted" ELSE "WorkflowFailed") >>

AndAdvanced(s, events) == events \o Advanced(After(s, events))

Claimed(n, w, a) == << NodeEvent("LeaseGranted", n, w, a), NodeEvent("NodeStarted", n, w, a) >>

(* Mutation: a retryable failure is reconciled before its timer is set.    *)
FailedEagerly(s, n, w, a) ==
    LET failed == AndAdvanced(s, << [NodeEvent("NodeFailed", n, w, a) EXCEPT !.retryable = TRUE] >>)
    IN  IF Def[n].maxAttempts > a
          THEN failed \o << TimerEvent("TimerScheduled", E!Timer(n, "retry_backoff", a)) >>
          ELSE failed

(* Mutation: the last attempt is not made.                                 *)
FailedForGood(s, n, w, a) ==
    AndAdvanced(s, << [NodeEvent("NodeFailed", n, w, a) EXCEPT !.retryable = TRUE] >>)

Failed(s, n, w, a) ==
    LET failed == << [NodeEvent("NodeFailed", n, w, a) EXCEPT !.retryable = TRUE] >>
    IN  IF Def[n].maxAttempts > 1 /\ a < Def[n].maxAttempts
          THEN failed \o << TimerEvent("TimerScheduled", E!Timer(n, "retry_backoff", a)) >>
          ELSE AndAdvanced(s, failed)

Paused(n, a) ==
    LET reached == << NodeEvent("CheckpointReached", n, NoWorker, a) >>
    IN  IF "checkpoint_timeout" \in Def[n].limits
          THEN reached \o << TimerEvent("TimerScheduled", E!Timer(n, "checkpoint_timeout", a)) >>
          ELSE reached

Completed(s, n, w, a) ==
    AndAdvanced(s, << IF E!ValidSpawn(Spawned[n])
                        THEN [NodeEvent("NodeCompleted", n, w, a) EXCEPT !.spawned = Spawned[n]]
                        ELSE NodeEvent("NodeFailed", n, w, a) >>)

Expired(s, n) == AndAdvanced(s, << NodeEvent("LeaseExpired", n, NoWorker, s.node[n].attempt) >>)

Fired(s, t) ==
    LET fired == << TimerEvent("TimerFired", t) >>
        node  == s.node[t.node]
    IN  AndAdvanced(s, IF E!ShouldFailNode(After(s, fired), t)
                         THEN fired \o << NodeEvent("NodeFailed", t.node, node.worker, node.attempt) >>
                         ELSE fired)

Emit(events) ==
    /\ log' = Appended(log, events)
    /\ memory' = After(memory, events)

-----------------------------------------------------------------------------
(* `grael start` *)

StartRun ==
    /\ memory = New
    /\ Emit(<< Event("WorkflowStarted") >>)
    /\ UNCHANGED <<worker, approver, other, stalls, foreign, watched>>

(* harness.Start begins the loops once the run is started.                 *)
RegisterWorker(w) ==
    /\ memory # New
    /\ worker[w].pc = "starting"
    /\ worker' = [worker EXCEPT ![w] = Loop("polling")]
    /\ UNCHANGED <<log, memory, approver, other, stalls, foreign, watched>>

ReadyFor(w) == {n \in InState(memory, {"READY"}) : Def[n].activity \in Skills[w]}

CanClaim(w) == worker[w].pc = "polling" /\ ~IsTerminal(memory) /\ ReadyFor(w) # {}

ClaimTask(w) ==
    /\ CanClaim(w)
    /\ LET n == Min(ReadyFor(w))
           a == memory.node[n].attempt + 1
       IN  /\ Emit(Claimed(n, w, a))
           /\ worker' = [worker EXCEPT ![w] = [pc |-> "working", node |-> n, attempt |-> a]]
    /\ UNCHANGED <<approver, other, stalls, foreign, watched>>

(* executeTask, and what the SDK reports of its result.                    *)
Reported(s, n, w, a) ==
    IF n = Gate /\ a = 1 THEN Paused(n, a)
    ELSE IF n \in Flaky /\ a = 1 THEN Failed(s, n, w, a)
    ELSE Completed(s, n, w, a)

(* Mutation: a worker whose report is refused polls again.                 *)
ReportAnyway(w) ==
    /\ worker[w].pc = "working"
    /\ LET n == worker[w].node
           a == worker[w].attempt
       IN  Emit(IF E!Holds(w, n, a) THEN Reported(memory, n, w, a) ELSE << >>)
    /\ worker' = [worker EXCEPT ![w] = Loop("polling")]
    /\ UNCHANGED <<approver, other, stalls, foreign, watched>>

(* A refused report is an error that ends the loop, which nobody hears of. *)
Report(w) ==
    /\ worker[w].pc = "working"
    /\ LET n == worker[w].node
           a == worker[w].attempt
       IN  IF E!Holds(w, n, a)
             THEN /\ Emit(Reported(memory, n, w, a))
                  /\ worker' = [worker EXCEPT ![w] = Loop("polling")]
             ELSE /\ worker' = [worker EXCEPT ![w] = Loop("ended")]
                  /\ UNCHANGED <<log, memory>>
    /\ UNCHANGED <<approver, other, stalls, foreign, watched>>

(* Mutation: the approval does not wait for the draft.                     *)
ApproverAsksEarly ==
    /\ approver = "watching"
    /\ memory.node[Gate].state = "AWAITING_APPROVAL"
    /\ approver' = "approving"
    /\ UNCHANGED <<log, memory, worker, other, stalls, foreign, watched>>

CanAsk ==
    /\ approver = "watching"
    /\ memory.node[Gate].state = "AWAITING_APPROVAL"
    /\ memory.node[Draft].state = "COMPLETED"

(* maybeApproveCheckpoint: GetRun, and then, if it shows a gate that waits *)
(* and a draft that is done, ApproveCheckpoint; an error ends the loop.    *)
(* (So does a finished run, which needs no approval.)                      *)
ApproverAsks ==
    /\ CanAsk
    /\ approver' = "approving"
    /\ UNCHANGED <<log, memory, worker, other, stalls, foreign, watched>>

Approve ==
    /\ approver = "approving"
    /\ IF ~IsTerminal(memory) /\ memory.node[Gate].state = "AWAITING_APPROVAL"
         THEN /\ Emit(<< NodeEvent("CheckpointApproved", Gate, NoWorker, 0) >>)
              /\ approver' = "watching"
         ELSE /\ approver' = "ended"
              /\ UNCHANGED <<log, memory>>
    /\ UNCHANGED <<worker, other, stalls, foreign, watched>>

(* The lease monitor finds a lease overdue that its worker still works on: *)
(* its heartbeats were late.                                               *)
ExpireLease(n) ==
    /\ stalls < MaxStalls
    /\ memory.node[n].state = "RUNNING"
    /\ stalls' = stalls + 1
    /\ Emit(Expired(memory, n))
    /\ UNCHANGED <<worker, approver, other, foreign, watched>>

FireTimer(t) ==
    /\ t \in memory.pending
    /\ ~IsTerminal(memory)
    /\ Emit(Fired(memory, t))
    /\ UNCHANGED <<worker, approver, other, stalls, foreign, watched>>

-----------------------------------------------------------------------------
(* The second process *)

EmitOther(s, events) ==
    /\ events # << >> => foreign < MaxForeign
    /\ foreign' = IF events = << >> THEN foreign ELSE foreign + 1
    /\ log' = Appended(log, events)
    /\ other' = After(s, events)
    /\ UNCHANGED <<memory, worker, approver, stalls>>

(* loadPersistedRuns reads what the file holds, in the middle of a handler *)
(* of the first process perhaps, and reconciles it.                        *)
OpenOther ==
    /\ other = Closed
    /\ \E s \in log.recent :
        IF s = New
          THEN /\ other' = Empty
               /\ UNCHANGED <<log, memory, worker, approver, stalls, foreign, watched>>
          ELSE /\ EmitOther(s, Advanced(s))
               /\ watched' = (s.runState # "COMPLETED")

(* A first GetRun loads the run, and there it stays as it was.             *)
LookOther ==
    /\ other = Empty
    /\ other' \in log.recent \ {New}
    /\ watched' = (other'.runState # "COMPLETED")
    /\ UNCHANGED <<log, memory, worker, approver, stalls, foreign>>

Loaded == other \notin {Closed, Empty}

(* No heartbeat reaches the second process.                                *)
ExpireOther(n) ==
    /\ Loaded
    /\ other.node[n].state = "RUNNING"
    /\ EmitOther(other, Expired(other, n))
    /\ UNCHANGED watched

FireOther(t) ==
    /\ Loaded
    /\ ~IsTerminal(other)
    /\ t \in other.pending
    /\ EmitOther(other, Fired(other, t))
    /\ UNCHANGED watched

-----------------------------------------------------------------------------
RetryTimer(n) == E!Timer(n, "retry_backoff", 1)

ApprovalTimer(n) == E!Timer(n, "checkpoint_timeout", 1)

(* The steps that `grael start` takes by itself, and when it can take one. *)
Go ==
    \/ StartRun
    \/ \E w \in Workers : RegisterWorker(w) \/ ClaimTask(w) \/ Report(w)
    \/ ApproverAsks \/ Approve
    \/ \E n \in Nodes : FireTimer(RetryTimer(n))

CanGo ==
    \/ memory = New
    \/ \E w \in Workers : worker[w].pc \in {"starting", "working"} \/ CanClaim(w)
    \/ CanAsk \/ approver = "approving"
    \/ ~IsTerminal(memory) /\ \E n \in Nodes : RetryTimer(n) \in memory.pending

Next ==
    \/ Go
    \/ \E n \in Nodes : ExpireLease(n) \/ FireTimer(ApprovalTimer(n))
    \/ OpenOther \/ LookOther
    \/ \E n \in Nodes : ExpireOther(n) \/ FireOther(RetryTimer(n)) \/ FireOther(ApprovalTimer(n))

Spec == Init /\ [][Next]_vars

(* Some step of Go is taken while one can be: WF_vars(Go), with the        *)
(* guard CanGo for ENABLED.  One condition on all of them is enough, as    *)
(* each can be taken a bounded number of times.                            *)
FairSpec == Spec /\ ([]<>~CanGo \/ []<><<Go>>_vars)

-----------------------------------------------------------------------------
(* Properties *)

(* What the scripted run's engine does is what module Engine's does: each  *)
(* sequence of events has the effect of one of its actions, whatever the   *)
(* second process does meanwhile.                                          *)
ImplementsEngine == E!Spec

(* Nothing that waits for the gate starts unless the gate was approved,    *)
(* and it is approved with the draft done.  The script asks for approval   *)
(* on the first attempt only: were the first attempt's lease to expire and *)
(* the worker to go on polling, the second attempt would pass the gate     *)
(* unapproved (executeCoreDemoTask, Worker.Run, maybeApproveCheckpoint).   *)
NothingPublishedUnapproved ==
    LET approved == log.phases.checkpoint = "complete"
    IN  /\ approved => memory.node[Draft].state = "COMPLETED"
        /\ \A n \in InState(memory, {"RUNNING", "COMPLETED"}) : Gate \in Def[n].deps => approved

(* The state a node shows is the one its last event left it in, except     *)
(* that it got ready since, or was submitted and never leased, which       *)
(* WorkflowStarted does not date (analyzeEvents, eventNodeIDs): no event   *)
(* changes a node it does not name, and a spawned node is dated at once.   *)
TransitionsAreDated ==
    \A n \in Present(memory) :
        \/ log.shown[n] = memory.node[n].state
        \/ log.shown[n] = "PENDING" /\ memory.node[n].state = "READY"
        \/ log.shown[n] = "ABSENT" /\ n \in InitialNodes /\ memory.node[n].attempt = 0

(* The phases told from the events are those of the state.                 *)
PhasesAgree ==
    /\ (log.phases.spawn = "complete") = (Present(memory) \ InitialNodes # {})
    /\ (log.phases.complete = "complete") = (memory.runState = "COMPLETED")
    /\ log.phases.checkpoint = "active" =>
          memory.node[Gate].state \in {"AWAITING_APPROVAL", "FAILED"}
    /\ memory.node[Gate].state = "AWAITING_APPROVAL" => log.phases.checkpoint = "active"
    /\ (log.phases.retry = "active") = (\E t \in memory.pending : t.purpose = "retry_backoff")

(* Unless a second process found the run unfinished, the log is the state  *)
(* `grael start` decides on, and what the demo tells from the events is    *)
(* what that state says; a second process that comes after the run         *)
(* completed changes nothing.                                              *)
TimelineTellsTheRun ==
    watched \/ (log.state = memory /\ TransitionsAreDated /\ PhasesAgree)

(* A worker has ended that the run cannot do without.                      *)
Stranded ==
    \E n \in Present(memory) :
        /\ memory.node[n].state \in {"READY", "RUNNING"}
        /\ \A w \in Workers : Def[n].activity \in Skills[w] => worker[w].pc = "ended"

(* The demonstration completes: retries, spawned work and the approval all *)
(* take place, unless the approval came too late for the gate or a worker  *)
(* has ended that nobody replaces.                                         *)
DemoCompletes ==
    <>(memory.runState = "COMPLETED" \/ memory.node[Gate].state = "FAILED" \/ Stranded)

(* What is watched is only read (ADR 0012: the demo's "backend adapter     *)
(* must remain a read-only translation layer", and no demo may "weaken     *)
(* runtime guarantees"): the log replays to the state of the engine that   *)
(* runs the workflow.                                                      *)
WatchingIsReading == log.state = memory
=============================================================================
