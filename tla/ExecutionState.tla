--------------------------- MODULE ExecutionState ---------------------------
(***************************************************************************)
(* The derived state of one run (internal/state/state.go) and the effect   *)
(* of each persisted event on it.                                          *)
(*                                                                         *)
(* An event is an operator from a state to the state after Apply; the      *)
(* write-ahead log of a run is then the composition of the operators that  *)
(* were appended, and the state in memory is its value.                    *)
(*                                                                         *)
(* Kept: run state, cancel flag, each node's state, attempt and lease      *)
(* holder, the compensation stack with the active entry, and the timers.   *)
(* Left out: payloads (inputs, outputs, messages), wall-clock instants     *)
(* (a lease may be found overdue and a timer due whenever a monitor looks) *)
(* and LastSeq.  NodeReady is applied by the code but never emitted.       *)
(***************************************************************************)
EXTENDS Naturals, FiniteSets, Sequences

CONSTANTS
    Nodes,          \* node ids; naturals, because the engine walks them sorted
    InitialNodes,   \* the ids the submitted workflow definition declares
    Def,            \* Def[n]: the definition that goes with node id n
    Workers,        \* worker ids
    Activities,     \* activity types
    NoWorker,       \* the empty WorkerID
    NoActivity,     \* the empty CompensationActivity
    NoCompensation  \* a nil ActiveCompensation

Purposes == {"retry_backoff", "checkpoint_timeout",
             "node_exec_deadline", "node_abs_deadline"}

Definitions ==
    [deps         : SUBSET Nodes,
     activity     : Activities,
     maxAttempts  : Nat,                      \* 0: no retry policy
     compensation : Activities \cup {NoActivity},
     limits       : SUBSET (Purposes \ {"retry_backoff"})]  \* durations > 0

-----------------------------------------------------------------------------
(* Types *)

NodeStates == {"ABSENT", "PENDING", "READY", "RUNNING", "AWAITING_APPROVAL",
               "CANCELLED", "COMPLETED", "FAILED"}

TerminalRunStates == {"COMPLETED", "FAILED", "CANCELLED", "COMPENSATED"}

RunStates == {"NONE", "RUNNING", "COMPENSATING"} \cup TerminalRunStates

NodeRecords == [state : NodeStates, attempt : Nat, worker : Workers \cup {NoWorker}]

StackEntries == [node : Nodes, completed : BOOLEAN, attempt : Nat]

Compensations == [node : Nodes, worker : Workers, attempt : Nat]

Timers == [node : Nodes, purpose : Purposes, attempt : Nat]

ExecutionStates ==
    [runState        : RunStates,
     cancelRequested : BOOLEAN,
     node            : [Nodes -> NodeRecords],
     stack           : Seq(StackEntries),
     active          : Compensations \cup {NoCompensation},
     pending         : SUBSET Timers,
     fired           : SUBSET Timers]

ASSUME DefinitionAssumption ==
    /\ Nodes \subseteq Nat
    /\ IsFiniteSet(Nodes)
    /\ InitialNodes \subseteq Nodes
    /\ Def \in [Nodes -> Definitions]
    /\ NoWorker \notin Workers
    /\ NoActivity \notin Activities
    /\ NoCompensation \notin Compensations

(* "ABSENT" stands for an id that is not a key of Nodes, "NONE" for a run  *)
(* whose WorkflowStarted is not persisted yet.                             *)
New ==
    [runState        |-> "NONE",
     cancelRequested |-> FALSE,
     node            |-> [n \in Nodes |-> [state |-> "ABSENT", attempt |-> 0, worker |-> NoWorker]],
     stack           |-> << >>,
     active          |-> NoCompensation,
     pending         |-> {},
     fired           |-> {}]

Present(s) == {n \in Nodes : s.node[n].state # "ABSENT"}

InState(s, states) == {n \in Nodes : s.node[n].state \in states}

IsTerminal(s) == s.runState \in TerminalRunStates

-----------------------------------------------------------------------------
(* Readiness is derived: a pending node is ready once its dependencies are *)
(* all completed.                                                          *)

DependenciesCompleted(s, n) == Def[n].deps \subseteq InState(s, {"COMPLETED"})

MarkReadyNodes(s) ==
    [s EXCEPT !.node = [n \in Nodes |->
        IF s.node[n].state = "PENDING" /\ DependenciesCompleted(s, n)
          THEN [s.node[n] EXCEPT !.state = "READY"]
          ELSE s.node[n]]]

(* Mutation: spawned and submitted nodes do not wait.                      *)
AddReadyNodes(s, ids) ==
    [s EXCEPT !.node = [n \in Nodes |->
        IF n \in ids THEN [state |-> "READY", attempt |-> 0, worker |-> NoWorker]
                     ELSE s.node[n]]]

AddNodes(s, ids) ==
    [s EXCEPT !.node = [n \in Nodes |->
        IF n \in ids THEN [state |-> "PENDING", attempt |-> 0, worker |-> NoWorker]
                     ELSE s.node[n]]]

(* A node leaves its worker: WorkerID and LastHeartbeatAt are zeroed.      *)
Release(s, n, nodeState) ==
    [s EXCEPT !.node[n] = [@ EXCEPT !.state = nodeState, !.worker = NoWorker]]

-----------------------------------------------------------------------------
(* Node events *)

WorkflowStarted(s) ==
    MarkReadyNodes([AddNodes(s, InitialNodes) EXCEPT !.runState = "RUNNING"])

LeaseGranted(s, n, w, a) ==
    [s EXCEPT !.node[n] = [@ EXCEPT !.attempt = a, !.worker = w]]

NodeStarted(s, n, w, a) ==
    [s EXCEPT !.node[n] = [state |-> "RUNNING", attempt |-> a, worker |-> w]]

LeaseExpired(s, n) == Release(s, n, "READY")

CheckpointReached(s, n) == Release(s, n, "AWAITING_APPROVAL")

CheckpointApproved(s, n) ==
    IF s.node[n].state = "AWAITING_APPROVAL" THEN Release(s, n, "READY") ELSE s

NodeCancelled(s, n) == Release(s, n, "CANCELLED")

NodeFailed(s, n, w, a) ==
    [s EXCEPT !.node[n] = [state |-> "FAILED", attempt |-> a, worker |-> w]]

NodeCompleted(s, n, w, a, spawned) ==
    LET done   == [s EXCEPT !.node[n] = [state |-> "COMPLETED", attempt |-> a, worker |-> w]]
        pushed == IF Def[n].compensation = NoActivity
                    THEN done
                    ELSE [done EXCEPT !.stack =
                            Append(@, [node |-> n, completed |-> FALSE, attempt |-> 0])]
    IN  MarkReadyNodes(AddNodes(pushed, spawned))

-----------------------------------------------------------------------------
(* Run events *)

(* The events that only move the run: WorkflowCompleted, WorkflowFailed,   *)
(* CompensationStarted, CompensationCompleted, CancellationCompleted.      *)
SetRunState(s, runState) ==
    [s EXCEPT !.runState = runState,
              !.active = IF runState = "COMPENSATED" THEN NoCompensation ELSE @]

CancellationRequested(s) == [s EXCEPT !.cancelRequested = TRUE]

-----------------------------------------------------------------------------
(* Compensation events: each addresses the first entry with the node's id. *)

IsFirstEntry(s, n, i) ==
    /\ s.stack[i].node = n
    /\ \A j \in 1 .. i - 1 : s.stack[j].node # n

HasEntry(s, n) == \E i \in DOMAIN s.stack : s.stack[i].node = n

(* Mutation: the entry does not remember its attempt.                      *)
CompensationStartedUnrecorded(s, n, w, a) ==
    IF HasEntry(s, n) THEN [s EXCEPT !.active = [node |-> n, worker |-> w, attempt |-> a]]
                      ELSE s

CompensationTaskStarted(s, n, w, a) ==
    IF HasEntry(s, n)
      THEN [s EXCEPT !.active = [node |-> n, worker |-> w, attempt |-> a],
                     !.stack = [i \in DOMAIN s.stack |->
                        IF IsFirstEntry(s, n, i) THEN [s.stack[i] EXCEPT !.attempt = a]
                                                 ELSE s.stack[i]]]
      ELSE s

(* Mutation: a completed entry is popped.                                  *)
CompensationPopped(s, n) ==
    [s EXCEPT !.active = NoCompensation,
              !.stack = SelectSeq(@, LAMBDA entry : entry.node # n)]

CompensationTaskCompleted(s, n) ==
    [s EXCEPT !.active = NoCompensation,
              !.stack = [i \in DOMAIN s.stack |->
                 IF IsFirstEntry(s, n, i) THEN [s.stack[i] EXCEPT !.completed = TRUE]
                                          ELSE s.stack[i]]]

(* CompensationTaskExpired and CompensationTaskFailed: the entry stays.    *)
CompensationReleased(s) == [s EXCEPT !.active = NoCompensation]

-----------------------------------------------------------------------------
(* Timer events: scheduling overwrites the timer with the same id, firing  *)
(* a retry timer makes the failed attempt's node ready again.              *)

TimerScheduled(s, t) ==
    [s EXCEPT !.pending = @ \cup {t}, !.fired = @ \ {t}]

TimerFired(s, t) ==
    LET marked == [s EXCEPT !.pending = @ \ {t}, !.fired = @ \cup {t}]
    IN  IF /\ t.purpose = "retry_backoff"
           /\ s.node[t.node].state = "FAILED"
           /\ s.node[t.node].attempt = t.attempt
          THEN Release(marked, t.node, "READY")
          ELSE marked
=============================================================================
