-------------------------- MODULE EngineProperties --------------------------
(***************************************************************************)
(* What the engine promises of one run, as invariants, action properties   *)
(* and liveness of Engine.                                                 *)
(***************************************************************************)
EXTENDS Engine

(* The type invariant of the run, the process and the fault counters.      *)
TypeOK ==
    /\ st \in ExecutionStates
    /\ up \in BOOLEAN
    /\ registered \subseteq Workers
    /\ crashes \in 0 .. MaxCrashes
    /\ ioErrors \in 0 .. MaxIOErrors

-----------------------------------------------------------------------------
(* Safety *)

(* No handler leaves a run event undecided: while no append has failed, a  *)
(* running engine has nothing to reconcile, also right after a restart     *)
(* from any cut (engine.go, the advanceRunStateLocked call of every        *)
(* handler and reconcileRunLocked at startup).                             *)
NothingLeftToReconcile == (up /\ ioErrors = 0) => Reconcile(st) = st

(* A node that was ever made ready has all its dependencies completed, and *)
(* they stay so (markReadyNodes, and nothing takes COMPLETED back).        *)
DependenciesRespected ==
    \A n \in InState(st, {"READY", "RUNNING", "AWAITING_APPROVAL", "COMPLETED", "FAILED"}) :
        DependenciesCompleted(st, n)

(* The run's outcome is one its nodes justify, for as long as it stands: a *)
(* completed run has only completed nodes, a cancelled one was asked to    *)
(* cancel and has nothing in progress, and a failed or compensating one    *)
(* has a failed node no retry is pending for (advanceRunStateLocked).      *)
OutcomeJustified ==
    /\ st.runState = "COMPLETED" => AllNodesCompleted(st)
    /\ st.runState = "CANCELLED" => st.cancelRequested /\ AllNodesTerminal(st)
    /\ st.runState \in {"FAILED", "COMPENSATING", "COMPENSATED"} => HasUnrecoveredFailure(st)

(* The compensation stack is the ledger of completed compensable work:     *)
(* such a node has exactly one entry, and no other node has one (I-11; the *)
(* push in Apply of NodeCompleted).                                        *)
StackIsLedger ==
    /\ \A i, j \in DOMAIN st.stack : st.stack[i].node = st.stack[j].node => i = j
    /\ {st.stack[i].node : i \in DOMAIN st.stack} =
            {n \in InState(st, {"COMPLETED"}) : Def[n].compensation # NoActivity}

(* The active compensation is an entry not yet completed, on its latest    *)
(* attempt: a late report of an earlier attempt cannot settle it.          *)
ActiveCompensationSound ==
    st.active # NoCompensation =>
        \E i \in DOMAIN st.stack :
            /\ st.stack[i].node = st.active.node
            /\ st.stack[i].attempt = st.active.attempt
            /\ ~st.stack[i].completed

(* A pending retry timer belongs to the attempt that failed, the node      *)
(* waits for it in FAILED, and the policy allows another attempt           *)
(* (scheduleRetryTimerLocked, Apply of TimerFired).                        *)
RetryTimerSound ==
    \A t \in st.pending :
        t.purpose = "retry_backoff" =>
            /\ st.node[t.node].state = "FAILED"
            /\ st.node[t.node].attempt = t.attempt
            /\ t.attempt < Def[t.node].maxAttempts

(* Without faults no attempt runs, and no checkpoint waits, without the    *)
(* timers its definition asks for (claimReadyTaskLocked, CompleteTask).    *)
LimitsArmed ==
    crashes = 0 /\ ioErrors = 0 =>
        \A n \in InState(st, {"RUNNING", "AWAITING_APPROVAL"}) :
            LET a     == st.node[n].attempt
                armed == Def[n].limits
            IN  /\ "node_abs_deadline" \in armed => Timer(n, "node_abs_deadline", 0) \in st.pending
                /\ st.node[n].state = "RUNNING" /\ "node_exec_deadline" \in armed =>
                        Timer(n, "node_exec_deadline", a) \in st.pending
                /\ st.node[n].state = "AWAITING_APPROVAL" /\ "checkpoint_timeout" \in armed =>
                        Timer(n, "checkpoint_timeout", a) \in st.pending

-----------------------------------------------------------------------------
(* Action properties *)

(* A node starts running only from READY and on an attempt number it never *)
(* had: no two leases share an attempt, so a late report is told apart     *)
(* from the current one (I-6, claimReadyTaskLocked).                       *)
EveryStartIsANewAttempt ==
    [][\A n \in Nodes :
        st'.node[n].state = "RUNNING" /\ st'.node[n] # st.node[n] =>
            /\ st.node[n].state = "READY"
            /\ st'.node[n].attempt > st.node[n].attempt]_vars

(* A completion is settled: no late report, timer, expiry, cancellation or *)
(* restart takes it back, or takes its compensation entry away.            *)
CompletionIsFinal ==
    [][/\ \A n \in InState(st, {"COMPLETED"}) : st'.node[n] = st.node[n]
       /\ \A i \in DOMAIN st.stack :
            /\ i \in DOMAIN st'.stack
            /\ st'.stack[i].node = st.stack[i].node
            /\ st.stack[i].completed => st'.stack[i] = st.stack[i]]_vars

(* Compensation runs one entry at a time, newest first: when one is handed *)
(* out none is active and every entry above it is done.                    *)
CompensationIsLIFO ==
    [][st'.active # st.active /\ st'.active # NoCompensation =>
        /\ st.active = NoCompensation
        /\ \A i \in DOMAIN st.stack :
            st.stack[i].node = st'.active.node =>
                \A j \in i + 1 .. Len(st.stack) : st.stack[j].completed]_vars

(* A deadline or checkpoint timer left over from an earlier attempt does   *)
(* nothing to the current one when it fires (shouldFailNodeForTimer).      *)
StaleTimersAreHarmless ==
    [][\A n \in Nodes :
        LET firing == {t \in st.pending \ st'.pending : t.node = n}
        IN  /\ firing # {}
            /\ \A t \in firing : /\ t.purpose \in {"node_exec_deadline", "checkpoint_timeout"}
                                 /\ t.attempt # st.node[n].attempt
            => st'.node[n].state \in {st.node[n].state, "CANCELLED"}]_vars

(* After a cancellation request nothing is dispatched: no node and no      *)
(* compensation gets a new attempt, whatever timers, expiries and restarts *)
(* follow (ADR-0008).                                                      *)
NothingDispatchedAfterCancel ==
    [][st.cancelRequested =>
        /\ st'.cancelRequested
        /\ \A n \in Nodes : st'.node[n].attempt = st.node[n].attempt
        /\ st'.active \in {st.active, NoCompensation}]_vars
-----------------------------------------------------------------------------
(* What the documents say and the code does not keep *)

(* A run that reached a final state stays in it (GRAEL_RUNTIME_SPEC.md     *)
(* 6.3: "Terminal states are final"); failCompensationTaskLocked writes    *)
(* WorkflowFailed without asking whether the run is over.                  *)
TerminalStatesAreFinal ==
    [][IsTerminal(st) => st'.runState = st.runState]_vars

-----------------------------------------------------------------------------
(* Refinement *)

Ledger == INSTANCE TaskLedger WITH
    Tasks   <- Nodes,
    holder  <- [n \in Nodes |-> IF st.node[n].state = "RUNNING" THEN st.node[n].worker
                                                                ELSE NoWorker],
    attempt <- [n \in Nodes |-> st.node[n].attempt],
    doneBy  <- [n \in Nodes |-> IF st.node[n].state = "COMPLETED" THEN st.node[n].worker
                                                                  ELSE NoWorker]

(* The engine implements the ledger of leases: exclusive leases on fresh   *)
(* attempts, one completion per node, accepted only under its lease and    *)
(* recorded as its holder's, with every crash, failed append, expiry,      *)
(* timer and misdirected report in between.                                *)
ImplementsLedger == Ledger!Spec

-----------------------------------------------------------------------------
(* Liveness *)

(* The attempt that runs on n is reported by its worker, or its lease      *)
(* expires.                                                                *)
Answer(n) ==
    /\ st.node[n].state = "RUNNING"
    /\ \/ \E w \in Workers, a \in Attempts : Report(w, n, a)
       \/ ExpireOverdueLeases
    /\ st'.node[n].state # "RUNNING"

AnswerCompensation ==
    /\ st.active # NoCompensation
    /\ \/ \E w \in Workers, n \in Nodes, a \in Attempts :
                CompleteCompensationTask(w, n, a) \/ FailCompensationTask(w, n, a)
       \/ ExpireOverdueLeases
    /\ st'.active = NoCompensation

(* The process is restarted, workers register again and keep polling, the  *)
(* timer monitor ticks, and no worker sits on a task and keeps its lease.  *)
Fairness ==
    /\ WF_vars(Restart)
    /\ \A w \in Workers : WF_vars(RegisterWorker(w)) /\ WF_vars(ClaimTask(w))
    /\ WF_vars(FireDueTimers)
    /\ \A n \in Nodes : WF_vars(Answer(n))
    /\ WF_vars(AnswerCompensation)

FairSpec == Spec /\ Fairness

(* A checkpoint without a timeout, for which the run waits.                *)
AwaitsHuman ==
    \E n \in InState(st, {"AWAITING_APPROVAL"}) :
        "checkpoint_timeout" \notin Def[n].limits

(* A worker gave up a node of a run nobody cancelled.                      *)
Declined == ~st.cancelRequested /\ InState(st, {"CANCELLED"}) # {}

(* A started run ends, for good, in a final state, or it is in the one of  *)
(* the two situations the engine does not leave on its own: through        *)
(* crashes, retries, expiries and compensation nothing else makes it wait  *)
(* forever.                                                                *)
EventuallySettles ==
    Exists ~> [](IsTerminal(st) \/ AwaitsHuman \/ Declined)

(* A cancellation request is carried through: once nothing runs, the run   *)
(* is over, whatever was pending when it arrived (ADR-0008).               *)
CancellationEnds == st.cancelRequested ~> IsTerminal(st)
=============================================================================
