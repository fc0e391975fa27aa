------------------------------- MODULE Engine -------------------------------
(***************************************************************************)
(* The orchestration engine (internal/engine/engine.go) on one run.        *)
(*                                                                         *)
(* Every handler and both monitors run under the engine mutex, so each is  *)
(* one action.  A handler appends a sequence of events and applies each to *)
(* the state in memory as soon as it is persisted: the state it leaves     *)
(* when an append fails, and the state a restart replays when the process  *)
(* dies inside it, is the effect of a prefix of that sequence.  Commit     *)
(* ranges over the whole sequence and its proper prefixes.                 *)
(*                                                                         *)
(* Covered: StartRun, RegisterWorker, the claim of PollTask, CompleteTask  *)
(* (completion, checkpoint, spawn, compensation), FailTask (retry, final,  *)
(* cancelled, compensation), CancelRun, ApproveCheckpoint, the lease and   *)
(* the timer monitor, crash, restart and reconciliation.                   *)
(* Requests carry any worker, node and attempt: a stale, repeated or       *)
(* misdirected report is one the guards refuse.                            *)
(* Not covered: other runs, admission, the log and snapshot files, clocks. *)
(***************************************************************************)
EXTENDS ExecutionState

CONSTANTS
    Skills,          \* Skills[w]: the activities worker w registers
    SpawnRequests,   \* the sets of node ids a completion may ask to spawn
    MaxAttempt,      \* bound: no lease expiry or checkpoint past this attempt
    MaxDue,          \* bound: timers one monitor pass finds due
    MaxCrashes,      \* bound: process crashes
    MaxIOErrors      \* bound: failed appends inside a handler

ASSUME EngineAssumption ==
    /\ Skills \in [Workers -> SUBSET Activities]
    /\ SpawnRequests \subseteq SUBSET Nodes
    /\ {MaxAttempt, MaxDue, MaxCrashes, MaxIOErrors} \subseteq Nat

VARIABLES
    st,          \* the run: in memory and, equally, the replay of its log
    up,          \* the engine process is running
    registered,  \* the worker registry, in memory only
    crashes,     \* crashes so far
    ioErrors     \* failed appends so far

vars == <<st, up, registered, crashes, ioErrors>>

(* The attempt numbers a report may carry; a claim cut short by a fault    *)
(* uses one up.                                                            *)
Attempts == 1 .. MaxAttempt + MaxCrashes + MaxIOErrors

-----------------------------------------------------------------------------
(* Predicates on a state *)

AllNodesIn(s, states) ==
    /\ Present(s) # {}
    /\ \A n \in Present(s) : s.node[n].state \in states

AllNodesCompleted(s) == AllNodesIn(s, {"COMPLETED"})

TerminalNodeStates == {"COMPLETED", "FAILED", "CANCELLED"}

AllNodesTerminal(s) == AllNodesIn(s, TerminalNodeStates)

Timer(n, purpose, a) == [node |-> n, purpose |-> purpose, attempt |-> a]

HasPendingRetryTimer(s, n, a) == Timer(n, "retry_backoff", a) \in s.pending

(* Mutation: any pending timer of the node counts.                         *)
HasAnyPendingTimer(s, n) == \E t \in s.pending : t.node = n

HasPendingAbsoluteDeadline(s, n) ==
    \E t \in s.pending : t.node = n /\ t.purpose = "node_abs_deadline"

HasUnrecoveredFailure(s) ==
    \E n \in InState(s, {"FAILED"}) : ~HasPendingRetryTimer(s, n, s.node[n].attempt)

IncompleteEntries(s) == {i \in DOMAIN s.stack : ~s.stack[i].completed}

HasCompensationWork(s) == IncompleteEntries(s) # {}

(* Mutation: oldest entry first.                                           *)
IsOldestCompensation(s, i) ==
    /\ s.active = NoCompensation
    /\ i \in IncompleteEntries(s)
    /\ \A j \in IncompleteEntries(s) : i <= j

(* The entry a worker is given next: the last one not completed.           *)
IsNextCompensation(s, i) ==
    /\ s.active = NoCompensation
    /\ i \in IncompleteEntries(s)
    /\ \A j \in IncompleteEntries(s) : j <= i

-----------------------------------------------------------------------------
(* Reconciliation: at most one run event follows from a state; a cancelled *)
(* run first cancels what has not been dispatched, in id order.            *)

(* Mutation: cancelling is a run state of its own.                         *)
NextRunStateCancelling(s) == IF s.cancelRequested THEN "CANCELLING" ELSE s.runState

(* Mutation: a cancelled run does not wait for what is running.            *)
NextRunStateForced(s) == IF s.cancelRequested THEN "CANCELLED" ELSE s.runState

NextRunState(s) ==
    CASE s.cancelRequested /\ AllNodesTerminal(s) -> "CANCELLED"
      [] /\ ~s.cancelRequested
         /\ s.runState = "COMPENSATING"
         /\ ~HasCompensationWork(s)
         /\ s.active = NoCompensation -> "COMPENSATED"
      [] /\ ~s.cancelRequested
         /\ s.runState = "RUNNING"
         /\ AllNodesCompleted(s) -> "COMPLETED"
      [] /\ ~s.cancelRequested
         /\ s.runState = "RUNNING"
         /\ HasUnrecoveredFailure(s) ->
            IF HasCompensationWork(s) THEN "COMPENSATING" ELSE "FAILED"
      [] OTHER -> s.runState

Advance(s) == IF IsTerminal(s) THEN s ELSE SetRunState(s, NextRunState(s))

Undispatched(s) == InState(s, {"PENDING", "READY", "AWAITING_APPROVAL"})

CancelNodes(s, ids) ==
    [s EXCEPT !.node = [n \in Nodes |->
        IF n \in ids THEN [s.node[n] EXCEPT !.state = "CANCELLED", !.worker = NoWorker]
                     ELSE s.node[n]]]

CancelEligibleNodes(s) == CancelNodes(s, Undispatched(s))

CancelCuts(s) ==
    {CancelNodes(s, {n \in Undispatched(s) : n <= k}) : k \in Undispatched(s)}

Reconcile(s) ==
    IF IsTerminal(s) THEN s
    ELSE IF s.cancelRequested THEN Advance(CancelEligibleNodes(s)) ELSE Advance(s)

ReconcileCuts(s) ==
    IF IsTerminal(s) \/ ~s.cancelRequested THEN {s} ELSE {s} \cup CancelCuts(s)

-----------------------------------------------------------------------------
(* How a handler that persists "final" through the prefixes "cuts" ends.   *)

Commit(cuts, final) ==
    \/ /\ st' = final
       /\ up' = TRUE
       /\ UNCHANGED <<registered, crashes, ioErrors>>
    \/ /\ ioErrors < MaxIOErrors
       /\ st' \in cuts \ {st, final}
       /\ up' = TRUE
       /\ ioErrors' = ioErrors + 1
       /\ UNCHANGED <<registered, crashes>>
    \/ /\ crashes < MaxCrashes
       /\ st' \in cuts \ {st, final}
       /\ up' = FALSE
       /\ registered' = {}
       /\ crashes' = crashes + 1
       /\ UNCHANGED ioErrors

Init ==
    /\ st = New
    /\ up = TRUE
    /\ registered = {}
    /\ crashes = 0
    /\ ioErrors = 0

Exists == st.runState # "NONE"

(* Normalize refuses unknown and self dependencies, but not cycles.        *)
NormalizedDefinition ==
    \A n \in InitialNodes : Def[n].deps \subseteq InitialNodes \ {n}

StartRun ==
    /\ up
    /\ ~Exists
    /\ NormalizedDefinition
    /\ Commit({}, WorkflowStarted(st))

RegisterWorker(w) ==
    /\ up
    /\ Skills[w] # {}
    /\ registered' = registered \cup {w}
    /\ UNCHANGED <<st, up, crashes, ioErrors>>

CanHandle(w, activity) == w \in registered /\ activity \in Skills[w]

-----------------------------------------------------------------------------
(* PollTask: claim the first ready node the worker can handle, or, while   *)
(* compensating, the next compensation.                                    *)

ScheduleLimit(s, n, purpose, a) ==
    IF purpose \in Def[n].limits THEN TimerScheduled(s, Timer(n, purpose, a)) ELSE s

ScheduleAbsoluteDeadline(s, n) ==
    IF HasPendingAbsoluteDeadline(s, n) THEN s
    ELSE ScheduleLimit(s, n, "node_abs_deadline", 0)

ReadyFor(w) == {n \in InState(st, {"READY"}) : CanHandle(w, Def[n].activity)}

(* Mutation: the cancel flag is not consulted.                             *)
ClaimableWhileCancelling == Exists /\ ~IsTerminal(st)

Claimable == Exists /\ ~IsTerminal(st) /\ ~st.cancelRequested

(* Mutation: only the first claim numbers the attempt.                     *)
SameAttempt(n) == IF st.node[n].attempt = 0 THEN 1 ELSE st.node[n].attempt

NextAttempt(n) == st.node[n].attempt + 1

ClaimReadyTask(w) ==
    /\ up
    /\ Claimable
    /\ st.runState # "COMPENSATING"
    /\ \E n \in ReadyFor(w) :
        /\ \A m \in ReadyFor(w) : n <= m
        /\ LET a       == NextAttempt(n)
               granted == LeaseGranted(st, n, w, a)
               started == NodeStarted(granted, n, w, a)
               limited == ScheduleLimit(started, n, "node_exec_deadline", a)
           IN  Commit({granted, started, limited}, ScheduleAbsoluteDeadline(limited, n))

ClaimCompensationTask(w) ==
    /\ up
    /\ Claimable
    /\ st.runState = "COMPENSATING"
    /\ \E i \in DOMAIN st.stack :
        /\ IsNextCompensation(st, i)
        /\ CanHandle(w, Def[st.stack[i].node].compensation)
        /\ Commit({}, CompensationTaskStarted(st, st.stack[i].node, w, st.stack[i].attempt + 1))

-----------------------------------------------------------------------------
(* CompleteTask *)

(* Mutation: it is not asked whose lease it is.                            *)
RunsAttempt(w, n, a) == st.node[n].state = "RUNNING" /\ st.node[n].attempt = a

(* The report comes from the holder of the node's current lease.           *)
Holds(w, n, a) == st.node[n] = [state |-> "RUNNING", attempt |-> a, worker |-> w]

Acyclic(ids) ==
    \A S \in SUBSET ids : S # {} => \E n \in S : Def[n].deps \cap S = {}

(* Mutation: an id already in the graph is accepted.                       *)
ValidSpawnOverExisting(spawned) ==
    LET graph == Present(st) \cup spawned
    IN  (\A n \in spawned : Def[n].deps \subseteq graph \ {n}) /\ Acyclic(graph)

ValidSpawn(spawned) ==
    LET graph == Present(st) \cup spawned
    IN  \/ spawned = {}
        \/ /\ spawned \cap Present(st) = {}
           /\ \A n \in spawned : Def[n].deps \subseteq graph \ {n}
           /\ Acyclic(graph)

(* Mutation: the run is not advanced after a completion.                   *)
CompleteTaskOnly(w, n, a, spawned) ==
    /\ up
    /\ Holds(w, n, a)
    /\ ~st.cancelRequested
    /\ ValidSpawn(spawned)
    /\ Commit({}, NodeCompleted(st, n, w, a, spawned))

CompleteTask(w, n, a, spawned) ==
    /\ up
    /\ Holds(w, n, a)
    /\ ~st.cancelRequested
    /\ LET ended == IF ValidSpawn(spawned) THEN NodeCompleted(st, n, w, a, spawned)
                                           ELSE NodeFailed(st, n, w, a)
       IN  Commit({ended}, Advance(ended))

ReachCheckpoint(w, n, a) ==
    /\ up
    /\ Holds(w, n, a)
    /\ ~st.cancelRequested
    /\ a < MaxAttempt
    /\ LET reached == CheckpointReached(st, n)
       IN  Commit({reached}, ScheduleLimit(reached, n, "checkpoint_timeout", a))

HoldsCompensation(w, n, a) == st.active = [node |-> n, worker |-> w, attempt |-> a]

(* Mutation: the run is not advanced after a compensation.                 *)
CompleteCompensationOnly(w, n, a) ==
    /\ up
    /\ HoldsCompensation(w, n, a)
    /\ Commit({}, CompensationTaskCompleted(st, n))

CompleteCompensationTask(w, n, a) ==
    /\ up
    /\ HoldsCompensation(w, n, a)
    /\ LET completed == CompensationTaskCompleted(st, n)
       IN  Commit({completed}, Advance(completed))

-----------------------------------------------------------------------------
(* FailTask *)

(* Mutation: one attempt too many.                                         *)
ScheduleRetryPastMaximum(s, n, a) ==
    IF Def[n].maxAttempts > 1 /\ a <= Def[n].maxAttempts
      THEN TimerScheduled(s, Timer(n, "retry_backoff", a))
      ELSE s

ScheduleRetry(s, n, a) ==
    IF Def[n].maxAttempts > 1 /\ a < Def[n].maxAttempts
      THEN TimerScheduled(s, Timer(n, "retry_backoff", a))
      ELSE s

FailTask(w, n, a, retryable) ==
    /\ up
    /\ Holds(w, n, a)
    /\ ~st.cancelRequested
    /\ LET failed  == NodeFailed(st, n, w, a)
           armed   == IF retryable THEN ScheduleRetry(failed, n, a) ELSE failed
           retried == retryable /\ HasPendingRetryTimer(armed, n, a)
       IN  Commit({failed}, IF retried THEN armed ELSE Advance(armed))

(* Mutation: the run is not advanced when the last node is cancelled.      *)
FailTaskCancelledOnly(w, n, a) ==
    /\ up
    /\ Holds(w, n, a)
    /\ Commit({}, NodeCancelled(st, n))

(* FailTask with Cancelled set: accepted whether or not the run is being   *)
(* cancelled.                                                              *)
FailTaskCancelled(w, n, a) ==
    /\ up
    /\ Holds(w, n, a)
    /\ LET cancelled == NodeCancelled(st, n)
       IN  Commit({cancelled}, Advance(cancelled))

(* A failed compensation ends the run, whatever state it is in.            *)
FailCompensationTask(w, n, a) ==
    /\ up
    /\ HoldsCompensation(w, n, a)
    /\ LET released == CompensationReleased(st)
       IN  Commit({released}, SetRunState(released, "FAILED"))

-----------------------------------------------------------------------------
(* CancelRun, ApproveCheckpoint *)

CancelRun ==
    /\ up
    /\ Exists
    /\ ~IsTerminal(st)
    /\ ~st.cancelRequested
    /\ LET requested == CancellationRequested(st)
       IN  Commit(ReconcileCuts(requested), Reconcile(requested))

ApproveCheckpoint(n) ==
    /\ up
    /\ ~IsTerminal(st)
    /\ st.node[n].state = "AWAITING_APPROVAL"
    /\ Commit({}, CheckpointApproved(st, n))

-----------------------------------------------------------------------------
(* The lease monitor: any set of leases may be overdue, in a finished run  *)
(* too.  MaxAttempt caps only expiries that lead to another claim.         *)

ExpireLeases(s, ids) ==
    [s EXCEPT !.node = [n \in Nodes |->
        IF n \in ids THEN [s.node[n] EXCEPT !.state = "READY", !.worker = NoWorker]
                     ELSE s.node[n]]]

MayRepeat(a) == a < MaxAttempt \/ ~Claimable

OverdueLeases == {n \in InState(st, {"RUNNING"}) : MayRepeat(st.node[n].attempt)}

ExpireOverdueLeases ==
    /\ up
    /\ \E ids \in SUBSET OverdueLeases, overdue \in BOOLEAN :
        /\ overdue => /\ st.active # NoCompensation
                      /\ MayRepeat(st.active.attempt)
        /\ ids # {} \/ overdue
        /\ LET expired  == ExpireLeases(st, ids)
               released == IF overdue THEN CompensationReleased(expired) ELSE expired
           IN  Commit({expired} \cup ReconcileCuts(released), Reconcile(released))

-----------------------------------------------------------------------------
(* The timer monitor: a pass handles the due timers in map order.          *)

(* Mutation: a deadline hits whatever attempt is current.                  *)
ShouldFailAnyAttempt(s, t) ==
    \/ t.purpose = "node_exec_deadline" /\ s.node[t.node].state = "RUNNING"
    \/ t.purpose = "checkpoint_timeout" /\ s.node[t.node].state = "AWAITING_APPROVAL"

ShouldFailNode(s, t) ==
    LET node == s.node[t.node]
    IN  \/ /\ t.purpose = "node_exec_deadline"
           /\ node.state = "RUNNING"
           /\ node.attempt = t.attempt
        \/ /\ t.purpose = "checkpoint_timeout"
           /\ node.state = "AWAITING_APPROVAL"
           /\ node.attempt = t.attempt
        \/ /\ t.purpose = "node_abs_deadline"
           /\ node.state \in {"RUNNING", "AWAITING_APPROVAL", "READY"}

TimeOutNode(s, n) == NodeFailed(s, n, s.node[n].worker, s.node[n].attempt)

(* timedOut: the append of NodeFailed succeeds.                            *)
FireTimer(s, t, timedOut) ==
    LET fired == TimerFired(s, t)
    IN  IF IsTerminal(s) THEN s
        ELSE IF ShouldFailNode(fired, t) /\ timedOut
               THEN Reconcile(TimeOutNode(fired, t.node))
               ELSE fired

FireTimerCuts(s, t) ==
    LET fired == TimerFired(s, t)
    IN  IF IsTerminal(s) THEN {}
        ELSE {fired} \cup (IF ShouldFailNode(fired, t)
                             THEN ReconcileCuts(TimeOutNode(fired, t.node)) ELSE {})

(* FirePass(s, order, lost)[i]: the state after the first i timers of the  *)
(* pass, when the append of NodeFailed fails for the timers in lost.       *)
FirePass(s, order, lost) ==
    LET pass[i \in 0 .. Len(order)] ==
            IF i = 0 THEN s ELSE FireTimer(pass[i - 1], order[i], order[i] \notin lost)
    IN  pass

DueOrders ==
    UNION {{order \in [1 .. k -> st.pending] :
                \A i, j \in 1 .. k : i # j => order[i] # order[j]} : k \in 1 .. MaxDue}

FireDueTimers ==
    /\ up
    /\ ~IsTerminal(st)
    /\ \E order \in DueOrders :
        LET pass == FirePass(st, order, {})
            last == pass[Len(order)]
            cuts == UNION {FireTimerCuts(pass[i - 1], order[i]) : i \in DOMAIN order}
        IN  Commit(cuts \cup ReconcileCuts(last), Reconcile(last))

(* The same pass when appends of NodeFailed fail: the timers are used up,  *)
(* the pass and its reconciliation go on.                                  *)
FireDueTimersLosingTimeouts ==
    /\ up
    /\ ~IsTerminal(st)
    /\ ioErrors < MaxIOErrors
    /\ \E order \in DueOrders :
        \E lost \in SUBSET {order[i] : i \in DOMAIN order} \ {{}} :
            st' = Reconcile(FirePass(st, order, lost)[Len(order)])
    /\ ioErrors' = ioErrors + 1
    /\ UNCHANGED <<up, registered, crashes>>

-----------------------------------------------------------------------------
(* Crash and restart: the log survives, the registry does not; startup     *)
(* replays the run and reconciles it.                                      *)

Crash ==
    /\ up
    /\ crashes < MaxCrashes
    /\ up' = FALSE
    /\ registered' = {}
    /\ crashes' = crashes + 1
    /\ UNCHANGED <<st, ioErrors>>

(* Mutation: startup replays without reconciling.                          *)
RestartOnly ==
    /\ ~up
    /\ Commit({}, st)

Restart ==
    /\ ~up
    /\ Commit(ReconcileCuts(st), Reconcile(st))

-----------------------------------------------------------------------------
ClaimTask(w) == ClaimReadyTask(w) \/ ClaimCompensationTask(w)

Report(w, n, a) ==
    \/ \E spawned \in SpawnRequests : CompleteTask(w, n, a, spawned)
    \/ ReachCheckpoint(w, n, a)
    \/ CompleteCompensationTask(w, n, a)
    \/ \E retryable \in BOOLEAN : FailTask(w, n, a, retryable)
    \/ FailTaskCancelled(w, n, a)
    \/ FailCompensationTask(w, n, a)

Next ==
    \/ StartRun
    \/ \E w \in Workers : RegisterWorker(w) \/ ClaimTask(w)
    \/ \E w \in Workers, n \in Nodes, a \in Attempts : Report(w, n, a)
    \/ CancelRun
    \/ \E n \in Nodes : ApproveCheckpoint(n)
    \/ ExpireOverdueLeases
    \/ FireDueTimers
    \/ FireDueTimersLosingTimeouts
    \/ Crash
    \/ Restart

Spec == Init /\ [][Next]_vars
=============================================================================
