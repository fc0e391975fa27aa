------------------------------ MODULE History ------------------------------
(***************************************************************************)
(* A run's log as the sequence of its events: what they replay to          *)
(* (internal/state/state.go), and what the demo adapter tells from them    *)
(* (demo/adapter/adapter.go).                                              *)
(*                                                                         *)
(* Covered: the events of runs without cancellation and compensation.      *)
(* Left out: HeartbeatRecorded, which moves only an instant, and whatever  *)
(* is wording: labels, families, edges and their order.                    *)
(***************************************************************************)
EXTENDS ExecutionState, FiniteSetsExt

NodeEvent(type, n, w, a) ==
    [type |-> type, node |-> n, worker |-> w, attempt |-> a, purpose |-> "", spawned |-> {},
     retryable |-> FALSE]

Event(type) == NodeEvent(type, 0, NoWorker, 0)

TimerEvent(type, t) == [NodeEvent(type, t.node, NoWorker, t.attempt) EXCEPT !.purpose = t.purpose]

TimerOf(e) == [node |-> e.node, purpose |-> e.purpose, attempt |-> e.attempt]

-----------------------------------------------------------------------------
Apply(s, e) ==
    CASE e.type = "WorkflowStarted"    -> WorkflowStarted(s)
      [] e.type = "LeaseGranted"       -> LeaseGranted(s, e.node, e.worker, e.attempt)
      [] e.type = "NodeStarted"        -> NodeStarted(s, e.node, e.worker, e.attempt)
      [] e.type = "LeaseExpired"       -> LeaseExpired(s, e.node)
      [] e.type = "CheckpointReached"  -> CheckpointReached(s, e.node)
      [] e.type = "CheckpointApproved" -> CheckpointApproved(s, e.node)
      [] e.type = "NodeFailed"         -> NodeFailed(s, e.node, e.worker, e.attempt)
      [] e.type = "NodeCompleted"      -> NodeCompleted(s, e.node, e.worker, e.attempt, e.spawned)
      [] e.type = "TimerScheduled"     -> TimerScheduled(s, TimerOf(e))
      [] e.type = "TimerFired"         -> TimerFired(s, TimerOf(e))
      [] e.type = "WorkflowCompleted"  -> SetRunState(s, "COMPLETED")
      [] e.type = "WorkflowFailed"     -> SetRunState(s, "FAILED")

After(s, events) ==
    LET replay[i \in 0 .. Len(events)] ==
            IF i = 0 THEN s ELSE Apply(replay[i - 1], events[i])
    IN  replay[Len(events)]

-----------------------------------------------------------------------------
(* analyzeEvents: what the live graph and each frame of the replay are     *)
(* decorated with.                                                         *)

(* Mutation: the nodes that are spawned are not counted.                   *)
OwnNodeID(e) == {e.node}

EventNodeIDs(e) == {e.node} \cup e.spawned

Begins(e) ==
    CASE e.type = "NodeFailed" /\ e.retryable -> {"retry"}
      [] e.type = "CheckpointReached"         -> {"checkpoint"}
      [] OTHER                                -> {}

Ends(e) ==
    CASE e.type = "NodeCompleted" /\ e.spawned # {}               -> {"spawn"}
      [] e.type = "TimerFired" /\ e.purpose = "retry_backoff"     -> {"retry"}
      [] e.type = "CheckpointApproved"                            -> {"checkpoint"}
      [] e.type = "WorkflowCompleted"                             -> {"complete"}
      [] OTHER                                                    -> {}

(* A phase is active once it began and complete once its end was seen.     *)
Marker(marker, phase, e) ==
    IF phase \in Ends(e) \/ marker = "complete" THEN "complete"
    ELSE IF phase \in Begins(e) THEN "active" ELSE marker

-----------------------------------------------------------------------------
(* A log, as what is made of it line by line: the state it replays to; for *)
(* each node the state in which its last event left it, which is what      *)
(* last_transition_seq dates; the phases; and the states a reader finds    *)
(* who reads while the last handler still writes.                          *)

NewLog ==
    [state  |-> New,
     shown  |-> [n \in Nodes |-> "ABSENT"],
     phases |-> [phase \in {"spawn", "retry", "checkpoint", "complete"} |-> "none"],
     recent |-> {New}]

AppendedEvent(log, e) ==
    LET after == Apply(log.state, e)
    IN  [state  |-> after,
         shown  |-> [n \in Nodes |-> IF n \in EventNodeIDs(e) THEN after.node[n].state
                                                             ELSE log.shown[n]],
         phases |-> [phase \in DOMAIN log.phases |-> Marker(log.phases[phase], phase, e)],
         recent |-> log.recent \cup {after}]

Appended(log, events) ==
    LET written[i \in 0 .. Len(events)] ==
            IF i = 0 THEN [log EXCEPT !.recent = {log.state}]
            ELSE AppendedEvent(written[i - 1], events[i])
    IN  IF events = << >> THEN log ELSE written[Len(events)]
=============================================================================
