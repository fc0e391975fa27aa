---------------------------- MODULE EngineProofs ----------------------------
(***************************************************************************)
(* Theorems about Engine, for every workflow definition, set of workers    *)
(* and bound.                                                              *)
(*                                                                         *)
(* Every step is a chain of the moves of EngineMoves (StepsAreMoves).      *)
(* Each invariant is a set of states, shown to hold the initial state and  *)
(* to be closed under the moves, one at a time.                            *)
(***************************************************************************)
EXTENDS EngineMoves, NaturalLemmas, SequenceTheorems, TLAPS

-----------------------------------------------------------------------------
(* Chains of moves *)

(* Arming a limit is a move, or nothing; reconciliation is a cancellation  *)
(* of nodes and an advance, whole or cut short.                            *)
LEMMA ReconcileMoves ==
  ASSUME NEW P, ClosedUnderHandling(P), NEW s \in P
  PROVE  /\ \A n \in Nodes, a \in Nat : \A purpose \in Purposes \ {"retry_backoff"} :
               ScheduleLimit(s, n, purpose, a) \in P
         /\ \A n \in Nodes : ScheduleAbsoluteDeadline(s, n) \in P
         /\ Advance(s) \in P
         /\ Reconcile(s) \in P
         /\ ReconcileCuts(s) \subseteq P
<1>1. \A x \in P : Advance(x) \in P
  BY DEF ClosedUnderHandling, ClosedUnderAdvance
<1>2. ASSUME ~IsTerminal(s), s.cancelRequested, NEW ids \in SUBSET Undispatched(s)
      PROVE  CancelNodes(s, ids) \in P
  BY <1>2 DEF ClosedUnderHandling, ClosedUnderCancellation
<1>3. Reconcile(s) \in P
  BY <1>1, <1>2 DEF Reconcile, CancelEligibleNodes
<1>4. ReconcileCuts(s) \subseteq P
  BY <1>2 DEF ReconcileCuts, CancelCuts
<1>5. \A n \in Nodes, a \in Nat : \A purpose \in Purposes \ {"retry_backoff"} :
        ScheduleLimit(s, n, purpose, a) \in P
  BY DEF ClosedUnderHandling, ClosedUnderScheduling, ScheduleLimit
<1>6. \A n \in Nodes : ScheduleAbsoluteDeadline(s, n) \in P
  <2>1. "node_abs_deadline" \in Purposes \ {"retry_backoff"}
    BY DEF Purposes
  <2> QED BY <1>5, <2>1 DEF ScheduleAbsoluteDeadline
<1> QED
  BY <1>1, <1>3, <1>4, <1>5, <1>6

(* A pending timer that fires is a chain of moves, whole or cut short.     *)
LEMMA FireTimerMoves ==
  ASSUME NEW P \in SUBSET ExecutionStates, ClosedUnderUpkeep(P), NEW s \in P, NEW t \in s.pending,
         NEW timedOut
  PROVE  /\ FireTimer(s, t, timedOut) \in P
         /\ FireTimerCuts(s, t) \subseteq P
         /\ s.pending \ {t} \subseteq FireTimer(s, t, timedOut).pending
<1> DEFINE fired == TimerFired(s, t)
           out   == TimeOutNode(fired, t.node)
<1>1. t \in Timers /\ t.node \in Nodes /\ s \in ExecutionStates
  BY DEF ExecutionStates, Timers
<1>2. CASE IsTerminal(s)
  BY <1>2 DEF FireTimer, FireTimerCuts
<1>3. CASE ~IsTerminal(s)
  <2>1. fired \in P
    BY <1>3 DEF ClosedUnderUpkeep, ClosedUnderFiring
  <2>2. fired.pending = s.pending \ {t}
    BY <1>1 DEF TimerFired, Release, ExecutionStates
  <2> HIDE DEF fired
  <2>3. ShouldFailNode(fired, t) => out \in P
    BY <1>1, <2>1
    DEF ShouldFailNode, TimeOutNode, ClosedUnderUpkeep, ClosedUnderHandling, ClosedUnderFailure
  <2>4. out.pending = fired.pending
    BY <1>1, <2>1 DEF TimeOutNode, NodeFailed, ExecutionStates
  <2> HIDE DEF out
  <2>5. ASSUME NEW x \in P PROVE Reconcile(x).pending = x.pending
    <3>1. \A y \in ExecutionStates : Advance(y).pending = y.pending
      BY DEF Advance, SetRunState, ExecutionStates
    <3>2. CancelEligibleNodes(x) \in ExecutionStates \/ IsTerminal(x) \/ ~x.cancelRequested
      BY <2>5
      DEF CancelEligibleNodes, ClosedUnderUpkeep, ClosedUnderHandling, ClosedUnderCancellation
    <3>3. CancelEligibleNodes(x).pending = x.pending
      BY DEF CancelEligibleNodes, CancelNodes, ExecutionStates
    <3> QED BY <3>1, <3>2, <3>3 DEF Reconcile
  <2>6. FireTimer(s, t, timedOut) =
            IF ShouldFailNode(fired, t) /\ timedOut THEN Reconcile(out) ELSE fired
    BY <1>3 DEF FireTimer, fired, out
  <2>7. FireTimerCuts(s, t) =
            {fired} \cup (IF ShouldFailNode(fired, t) THEN ReconcileCuts(out) ELSE {})
    BY <1>3 DEF FireTimerCuts, fired, out
  <2> QED BY <2>1, <2>2, <2>3, <2>4, <2>5, <2>6, <2>7, ReconcileMoves DEF ClosedUnderUpkeep
<1> QED
  BY <1>2, <1>3

(* An order of a pass is a finite sequence of distinct pending timers.     *)
(* What the firing of a pending timer keeps holds all the way through the  *)
(* pass, and the timers still to come are pending.                         *)
LEMMA FirePassKeeps ==
  ASSUME NEW order \in DueOrders
  PROVE  /\ Len(order) \in Nat \ {0}
         /\ DOMAIN order = 1 .. Len(order)
         /\ \A i \in 1 .. Len(order) : order[i] \in st.pending
         /\ \A i, j \in 1 .. Len(order) : i # j => order[i] # order[j]
         /\ \A P, lost :
              st \in P /\ (\A s \in P : \A t \in s.pending :
                             /\ FireTimer(s, t, t \notin lost) \in P
                             /\ s.pending \ {t} \subseteq FireTimer(s, t, t \notin lost).pending)
              => \A i \in 0 .. Len(order) :
                   /\ FirePass(st, order, lost)[i] \in P
                   /\ \A j \in i + 1 .. Len(order) :
                        order[j] \in FirePass(st, order, lost)[i].pending
<1>1. /\ Len(order) \in Nat \ {0}
      /\ DOMAIN order = 1 .. Len(order)
      /\ \A i \in 1 .. Len(order) : order[i] \in st.pending
      /\ \A i, j \in 1 .. Len(order) : i # j => order[i] # order[j]
  <2>1. PICK k \in 1 .. MaxDue :
          order \in [1 .. k -> st.pending] /\ \A i, j \in 1 .. k : i # j => order[i] # order[j]
    BY DEF DueOrders
  <2>2. k \in Nat \ {0}
    BY <2>1, EngineAssumption
  <2>3. order \in Seq(st.pending) /\ Len(order) = k
    BY <2>1, <2>2, SeqDef, LenProperties
  <2> QED BY <2>1, <2>2, <2>3
<1>2. ASSUME NEW P, st \in P, NEW lost,
             \A s \in P : \A t \in s.pending :
                 /\ FireTimer(s, t, t \notin lost) \in P
                 /\ s.pending \ {t} \subseteq FireTimer(s, t, t \notin lost).pending
      PROVE  \A i \in 0 .. Len(order) :
                /\ FirePass(st, order, lost)[i] \in P
                /\ \A j \in i + 1 .. Len(order) : order[j] \in FirePass(st, order, lost)[i].pending
  <2> DEFINE pass == FirePass(st, order, lost)
             Ahead(i) == \A j \in i + 1 .. Len(order) : order[j] \in pass[i].pending
             Kept == {i \in Nat : i <= Len(order) => pass[i] \in P /\ Ahead(i)}
  <2>1. /\ Len(order) \in Nat
        /\ \A i \in 1 .. Len(order) : order[i] \in st.pending
        /\ \A i, j \in 1 .. Len(order) : i # j => order[i] # order[j]
    BY <1>1
  <2>2. \A i \in 0 .. Len(order) :
          pass[i] = IF i = 0 THEN st ELSE FireTimer(pass[i - 1], order[i], order[i] \notin lost)
    <3> DEFINE IsPass(f, k) ==
                 f = [i \in 0 .. k |->
                        IF i = 0 THEN st ELSE FireTimer(f[i - 1], order[i], order[i] \notin lost)]
               Reached == {k \in Nat : \E f : IsPass(f, k)}
    <3>1. 0 \in Reached
      <4>1. IsPass([i \in 0 .. 0 |-> st], 0)
        OBVIOUS
      <4> QED BY <4>1
    <3>2. ASSUME NEW k \in Reached PROVE k + 1 \in Reached
      <4>1. PICK f : IsPass(f, k)
        OBVIOUS
      <4> DEFINE g == [i \in 0 .. k + 1 |->
                         IF i <= k THEN f[i]
                         ELSE FireTimer(f[k], order[k + 1], order[k + 1] \notin lost)]
      <4>2. IsPass(g, k + 1)
        <5>1. \A i \in 0 .. k :
                f[i] = IF i = 0 THEN st ELSE FireTimer(f[i - 1], order[i], order[i] \notin lost)
          BY <4>1
        <5>2. \A i \in 0 .. k + 1 :
                g[i] = IF i = 0 THEN st ELSE FireTimer(g[i - 1], order[i], order[i] \notin lost)
          BY <5>1
        <5> QED BY <5>2
      <4>3. k + 1 \in Nat /\ \E h : IsPass(h, k + 1)
        <5> HIDE DEF g, IsPass
        <5> QED BY <4>2
      <4> QED BY <4>3
    <3>3. Len(order) \in Reached
      <4>1. Reached = Nat
        <5> HIDE DEF Reached
        <5>1. Reached \in SUBSET Nat
          BY DEF Reached
        <5> QED BY <3>1, <3>2, <5>1, SetInduction
      <4> QED BY <2>1, <4>1
    <3>4. PICK f : IsPass(f, Len(order))
      BY <3>3
    <3> QED
      BY <3>4 DEF FirePass
  <2> HIDE DEF pass
  <2>3. 0 \in Kept
    BY <1>2, <2>1, <2>2
  <2>4. ASSUME NEW i \in Kept PROVE i + 1 \in Kept
    <3> SUFFICES ASSUME i + 1 <= Len(order) PROVE pass[i + 1] \in P /\ Ahead(i + 1)
      OBVIOUS
    <3>1. i \in Nat /\ pass[i] \in P /\ Ahead(i) /\ i + 1 \in 1 .. Len(order)
      BY <2>1
    <3>2. pass[i + 1] = FireTimer(pass[i], order[i + 1], order[i + 1] \notin lost)
      BY <2>1, <2>2, <3>1
    <3>3. order[i + 1] \in pass[i].pending
      BY <2>1, <3>1
    <3>4. pass[i + 1] \in P /\ pass[i].pending \ {order[i + 1]} \subseteq pass[i + 1].pending
      BY <1>2, <3>1, <3>2, <3>3
    <3>5. ASSUME NEW j \in i + 2 .. Len(order) PROVE order[j] \in pass[i + 1].pending
      <4>1. j \in i + 1 .. Len(order) /\ j \in 1 .. Len(order) /\ j # i + 1
        BY <2>1, <3>1
      <4> QED BY <2>1, <3>1, <3>4, <4>1
    <3> QED BY <2>1, <3>1, <3>4, <3>5
  <2>5. Kept = Nat
    <3>1. Kept \in SUBSET Nat
      OBVIOUS
    <3> HIDE DEF Kept
    <3> QED BY <2>3, <2>4, <3>1, SetInduction
  <2> QED
    BY <2>1, <2>5 DEF pass
<1> QED
  BY <1>1, <1>2

-----------------------------------------------------------------------------
(* Steps *)

(* A claim is a chain of moves.                                            *)
LEMMA ClaimMoves ==
  ASSUME NEW P \in SUBSET ExecutionStates, ClosedUnderHandling(P), ClosedUnderClaims(P),
         ClosedUnderHandout(P), st \in P, NEW w \in Workers, ClaimTask(w)
  PROVE  st' \in P
<1>1. CASE ClaimReadyTask(w)
  <2>1. PICK n \in ReadyFor(w) :
          LET a       == NextAttempt(n)
              granted == LeaseGranted(st, n, w, a)
              started == NodeStarted(granted, n, w, a)
              limited == ScheduleLimit(started, n, "node_exec_deadline", a)
          IN  Commit({granted, started, limited}, ScheduleAbsoluteDeadline(limited, n))
    BY <1>1 DEF ClaimReadyTask
  <2> DEFINE a       == NextAttempt(n)
             granted == LeaseGranted(st, n, w, a)
             started == NodeStarted(granted, n, w, a)
             limited == ScheduleLimit(started, n, "node_exec_deadline", a)
  <2>2. n \in Nodes /\ st.node[n].state = "READY"
    BY DEF ReadyFor, InState
  <2>3. a \in Nat
    BY <2>2 DEF NextAttempt, ExecutionStates, NodeRecords
  <2>4. granted \in P /\ started \in P
    BY <1>1, <2>2
    DEF ClaimReadyTask, Claimable, Exists, IsTerminal, NextAttempt, ClosedUnderClaims
  <2>5. Commit({granted, started, limited}, ScheduleAbsoluteDeadline(limited, n))
    BY <2>1
  <2> HIDE DEF a, granted, started
  <2>6. limited \in P
    BY <2>2, <2>3, <2>4, ReconcileMoves DEF Purposes
  <2> HIDE DEF limited
  <2>7. ScheduleAbsoluteDeadline(limited, n) \in P
    BY <2>2, <2>3, <2>6, ReconcileMoves DEF Purposes
  <2> QED BY <2>4, <2>5, <2>6, <2>7 DEF Commit
<1>2. CASE ClaimCompensationTask(w)
  <2>1. PICK i \in DOMAIN st.stack :
          /\ IsNextCompensation(st, i)
          /\ Commit({}, CompensationTaskStarted(st, st.stack[i].node, w, st.stack[i].attempt + 1))
    BY <1>2 DEF ClaimCompensationTask
  <2>2. CompensationTaskStarted(st, st.stack[i].node, w, st.stack[i].attempt + 1) \in P
    BY <1>2, <2>1 DEF ClaimCompensationTask, Claimable, ClosedUnderHandout
  <2> QED BY <2>1, <2>2 DEF Commit
<1> QED
  BY <1>1, <1>2 DEF ClaimTask

(* A report is a chain of moves, of which only an accepted completion is   *)
(* none of upkeep.                                                         *)
LEMMA ReportMoves ==
  ASSUME NEW P \in SUBSET ExecutionStates, ClosedUnderHandling(P), st \in P,
         NEW w \in Workers, NEW n \in Nodes, NEW a \in Attempts, Report(w, n, a),
         \/ ClosedUnderCompletion(P)
         \/ ~ \E spawned \in SpawnRequests : CompleteTask(w, n, a, spawned)
  PROVE  st' \in P
<1>1. a \in Nat
  BY EngineAssumption DEF Attempts
<1>2. Holds(w, n, a) =>
        st.node[n].state = "RUNNING" /\ st.node[n].attempt = a /\ st.node[n].worker = w
  BY DEF Holds
<1>3. Holds(w, n, a) => NodeFailed(st, n, w, a) \in P
  BY <1>2 DEF ClosedUnderHandling, ClosedUnderFailure
<1>4. ASSUME NEW spawned \in SpawnRequests, CompleteTask(w, n, a, spawned)
      PROVE  st' \in P
  <2> DEFINE ended == IF ValidSpawn(spawned) THEN NodeCompleted(st, n, w, a, spawned)
                                             ELSE NodeFailed(st, n, w, a)
  <2>1. Commit({ended}, Advance(ended)) /\ Holds(w, n, a) /\ ~st.cancelRequested
    BY <1>4 DEF CompleteTask
  <2>2. spawned \in SUBSET Nodes
    BY EngineAssumption
  <2>3. ValidSpawn(spawned) => spawned \cap Present(st) = {}
    BY DEF ValidSpawn
  <2>4. ValidSpawn(spawned) => NodeCompleted(st, n, w, a, spawned) \in P
    BY <1>2, <1>4, <2>1, <2>2, <2>3 DEF ClosedUnderCompletion
  <2>5. ended \in P
    BY <1>3, <2>1, <2>4
  <2> HIDE DEF ended
  <2> QED BY <2>1, <2>5, ReconcileMoves DEF Commit
<1>5. CASE ReachCheckpoint(w, n, a)
  <2> DEFINE reached == CheckpointReached(st, n)
  <2>1. Commit({reached}, ScheduleLimit(reached, n, "checkpoint_timeout", a)) /\ Holds(w, n, a)
    BY <1>5 DEF ReachCheckpoint
  <2>2. reached \in P
    BY <1>2, <2>1 DEF CheckpointReached, ClosedUnderHandling, ClosedUnderRelease
  <2> HIDE DEF reached
  <2>3. ScheduleLimit(reached, n, "checkpoint_timeout", a) \in P
    BY <1>1, <2>2, ReconcileMoves DEF Purposes
  <2> QED BY <2>1, <2>2, <2>3 DEF Commit
<1>6. HoldsCompensation(w, n, a) => st.active # NoCompensation /\ st.active.node = n
  BY <1>1, DefinitionAssumption DEF HoldsCompensation, Compensations
<1>7. CASE CompleteCompensationTask(w, n, a)
  <2> DEFINE completed == CompensationTaskCompleted(st, n)
  <2>1. Commit({completed}, Advance(completed))
    BY <1>7 DEF CompleteCompensationTask
  <2>2. completed \in P
    BY <1>6, <1>7 DEF CompleteCompensationTask, ClosedUnderHandling, ClosedUnderCompensation
  <2> HIDE DEF completed
  <2> QED BY <2>1, <2>2, ReconcileMoves DEF Commit
<1>8. ASSUME NEW retryable \in BOOLEAN, FailTask(w, n, a, retryable)
      PROVE  st' \in P
  <2> DEFINE failed  == NodeFailed(st, n, w, a)
             armed   == IF retryable THEN ScheduleRetry(failed, n, a) ELSE failed
             retried == retryable /\ HasPendingRetryTimer(armed, n, a)
  <2>1. Commit({failed}, IF retried THEN armed ELSE Advance(armed)) /\ Holds(w, n, a)
    BY <1>8 DEF FailTask
  <2>2. failed \in P
    BY <1>3, <2>1
  <2>3. armed \in P
    BY <1>2, <2>1, <2>2 DEF ScheduleRetry, ClosedUnderHandling, ClosedUnderFailure
  <2> HIDE DEF failed, armed, retried
  <2>4. (IF retried THEN armed ELSE Advance(armed)) \in P
    BY <2>3, ReconcileMoves
  <2> QED BY <2>1, <2>2, <2>4 DEF Commit
<1>9. CASE FailTaskCancelled(w, n, a)
  <2> DEFINE cancelled == NodeCancelled(st, n)
  <2>1. Commit({cancelled}, Advance(cancelled)) /\ Holds(w, n, a)
    BY <1>9 DEF FailTaskCancelled
  <2>2. cancelled \in P
    BY <1>2, <2>1 DEF NodeCancelled, ClosedUnderHandling, ClosedUnderRelease
  <2> HIDE DEF cancelled
  <2> QED BY <2>1, <2>2, ReconcileMoves DEF Commit
<1>10. CASE FailCompensationTask(w, n, a)
  <2> DEFINE released == CompensationReleased(st)
  <2>1. Commit({released}, SetRunState(released, "FAILED"))
    BY <1>10 DEF FailCompensationTask
  <2>2. released \in P /\ SetRunState(released, "FAILED") \in P
    BY <1>6, <1>10 DEF FailCompensationTask, ClosedUnderHandling, ClosedUnderCompensation
  <2> HIDE DEF released
  <2> QED BY <2>1, <2>2 DEF Commit
<1> QED
  BY <1>4, <1>5, <1>7, <1>8, <1>9, <1>10 DEF Report

(* A pass of the timer monitor stays within what the firing of a pending   *)
(* timer and reconciliation keep.                                          *)
LEMMA PassMoves ==
  ASSUME NEW P, st \in P, FireDueTimers \/ FireDueTimersLosingTimeouts,
         \A s \in P : \A t \in s.pending : \A timedOut \in BOOLEAN :
             /\ FireTimer(s, t, timedOut) \in P
             /\ FireTimerCuts(s, t) \subseteq P
             /\ s.pending \ {t} \subseteq FireTimer(s, t, timedOut).pending,
         \A s \in P : Reconcile(s) \in P /\ ReconcileCuts(s) \subseteq P
  PROVE  st' \in P
<1>1. CASE FireDueTimers
  <2>1. PICK order \in DueOrders :
          LET pass == FirePass(st, order, {})
              last == pass[Len(order)]
              cuts == UNION {FireTimerCuts(pass[i - 1], order[i]) : i \in DOMAIN order}
          IN  Commit(cuts \cup ReconcileCuts(last), Reconcile(last))
    BY <1>1 DEF FireDueTimers
  <2> DEFINE pass == FirePass(st, order, {})
             last == pass[Len(order)]
             cuts == UNION {FireTimerCuts(pass[i - 1], order[i]) : i \in DOMAIN order}
  <2>2. Commit(cuts \cup ReconcileCuts(last), Reconcile(last))
    BY <2>1
  <2>3. \A i \in 0 .. Len(order) :
            pass[i] \in P /\ \A j \in i + 1 .. Len(order) : order[j] \in pass[i].pending
    BY FirePassKeeps
  <2> HIDE DEF pass
  <2>4. last \in P
    BY <2>3, FirePassKeeps
  <2>5. \A i \in DOMAIN order : FireTimerCuts(pass[i - 1], order[i]) \subseteq P
    <3> TAKE i \in DOMAIN order
    <3>1. i - 1 \in 0 .. Len(order) /\ i \in (i - 1) + 1 .. Len(order)
      BY FirePassKeeps
    <3>2. pass[i - 1] \in P /\ order[i] \in pass[i - 1].pending
      BY <2>3, <3>1
    <3> QED BY <3>2
  <2>6. cuts \subseteq P
    BY <2>5
  <2> HIDE DEF last, cuts
  <2>7. cuts \cup ReconcileCuts(last) \in SUBSET P /\ Reconcile(last) \in P
    BY <2>4, <2>6
  <2> QED BY <2>2, <2>7 DEF Commit
<1>2. CASE FireDueTimersLosingTimeouts
  <2>1. PICK order \in DueOrders :
          \E lost : st' = Reconcile(FirePass(st, order, lost)[Len(order)])
    BY <1>2 DEF FireDueTimersLosingTimeouts
  <2>2. PICK lost : st' = Reconcile(FirePass(st, order, lost)[Len(order)])
    BY <2>1
  <2>3. \A s \in P : \A t \in s.pending :
            /\ FireTimer(s, t, t \notin lost) \in P
            /\ s.pending \ {t} \subseteq FireTimer(s, t, t \notin lost).pending
    OBVIOUS
  <2>4. \A i \in 0 .. Len(order) : FirePass(st, order, lost)[i] \in P
    BY <2>3, FirePassKeeps
  <2>5. FirePass(st, order, lost)[Len(order)] \in P
    BY <2>4, FirePassKeeps
  <2> QED BY <2>2, <2>5
<1> QED
  BY <1>1, <1>2

(* A step that hands nothing out and accepts no completion is a chain of   *)
(* moves of upkeep, and only a pass of the timer monitor uses timers up.   *)
THEOREM UpkeepMoves ==
  ASSUME NEW P \in SUBSET ExecutionStates, ClosedUnderHandling(P), st \in P, [Next]_vars,
         ClosedUnderFiring(P) \/ ~(FireDueTimers \/ FireDueTimersLosingTimeouts),
         ~ \E w \in Workers : ClaimTask(w),
         ~ \E w \in Workers, n \in Nodes, a \in Attempts, spawned \in SpawnRequests :
               CompleteTask(w, n, a, spawned)
  PROVE  st' \in P
<1>1. CASE StartRun
  <2>1. WorkflowStarted(st) \in P
    BY <1>1 DEF StartRun, Exists, ClosedUnderHandling, ClosedUnderStart
  <2> QED BY <1>1, <2>1 DEF Commit, StartRun
<1>2. ASSUME NEW w \in Workers, RegisterWorker(w) PROVE st' \in P
  BY <1>2 DEF RegisterWorker
<1>3. ASSUME NEW w \in Workers, NEW n \in Nodes, NEW a \in Attempts, Report(w, n, a)
      PROVE  st' \in P
  BY <1>3, ReportMoves
<1>4. CASE CancelRun
  <2> DEFINE requested == CancellationRequested(st)
  <2>1. Commit(ReconcileCuts(requested), Reconcile(requested))
    BY <1>4 DEF CancelRun
  <2>2. requested \in P
    BY <1>4 DEF CancelRun, Exists, ClosedUnderHandling, ClosedUnderCancellation
  <2> HIDE DEF requested
  <2> QED BY <2>1, <2>2, ReconcileMoves DEF Commit
<1>5. ASSUME NEW n \in Nodes, ApproveCheckpoint(n) PROVE st' \in P
  <2>1. CheckpointApproved(st, n) \in P
    BY <1>5 DEF ApproveCheckpoint, CheckpointApproved, ClosedUnderHandling, ClosedUnderRelease
  <2> QED BY <1>5, <2>1 DEF Commit, ApproveCheckpoint
<1>6. CASE ExpireOverdueLeases
  <2>1. PICK ids \in SUBSET OverdueLeases, overdue \in BOOLEAN :
          /\ overdue => st.active # NoCompensation
          /\ LET expired  == ExpireLeases(st, ids)
                 released == IF overdue THEN CompensationReleased(expired) ELSE expired
             IN  Commit({expired} \cup ReconcileCuts(released), Reconcile(released))
    BY <1>6 DEF ExpireOverdueLeases
  <2> DEFINE expired  == ExpireLeases(st, ids)
             released == IF overdue THEN CompensationReleased(expired) ELSE expired
  <2>2. expired \in P
    BY DEF OverdueLeases, InState, ClosedUnderHandling, ClosedUnderRelease
  <2>3. expired.active = st.active
    BY DEF ExpireLeases, ExecutionStates
  <2>4. Commit({expired} \cup ReconcileCuts(released), Reconcile(released))
    BY <2>1
  <2> HIDE DEF expired
  <2>5. released \in P
    BY <2>1, <2>2, <2>3 DEF ClosedUnderHandling, ClosedUnderCompensation
  <2> HIDE DEF released
  <2>6. {expired} \cup ReconcileCuts(released) \in SUBSET P /\ Reconcile(released) \in P
    BY <2>2, <2>5, ReconcileMoves
  <2> QED BY <2>4, <2>6 DEF Commit
<1>7. CASE FireDueTimers \/ FireDueTimersLosingTimeouts
  BY <1>7, PassMoves, FireTimerMoves, ReconcileMoves DEF ClosedUnderUpkeep
<1>8. CASE Crash
  BY <1>8 DEF Crash
<1>9. CASE Restart
  BY <1>9, ReconcileMoves DEF Commit, Restart
<1>10. CASE UNCHANGED vars
  BY <1>10 DEF vars
<1> QED
  BY <1>1, <1>2, <1>3, <1>4, <1>5, <1>6, <1>7, <1>8, <1>9, <1>10 DEF Next

(* A step never leaves a set of states closed under moves.                 *)
THEOREM StepsAreMoves ==
  ASSUME NEW P \in SUBSET ExecutionStates, Closed(P), st \in P, [Next]_vars
  PROVE  st' \in P
<1>1. ASSUME NEW w \in Workers, ClaimTask(w) PROVE st' \in P
  BY <1>1, ClaimMoves DEF Closed, ClosedUnderUpkeep
<1>2. ASSUME NEW w \in Workers, NEW n \in Nodes, NEW a \in Attempts, NEW spawned \in SpawnRequests,
             CompleteTask(w, n, a, spawned)
      PROVE  st' \in P
  BY <1>2, ReportMoves DEF Closed, ClosedUnderUpkeep, Report
<1> QED
  BY <1>1, <1>2, UpkeepMoves DEF Closed, ClosedUnderUpkeep

-----------------------------------------------------------------------------
(* Type correctness of the events *)

(* What happens to a node, or to many at once, yields a state.             *)
LEMMA NodeEventsType ==
  ASSUME NEW s \in ExecutionStates, NEW ids
  PROVE  /\ AddNodes(s, ids) \in ExecutionStates
         /\ MarkReadyNodes(s) \in ExecutionStates
         /\ CancelNodes(s, ids) \in ExecutionStates
         /\ ExpireLeases(s, ids) \in ExecutionStates
         /\ \A n \in Nodes, nodeState \in NodeStates : Release(s, n, nodeState) \in ExecutionStates
         /\ \A n \in Nodes, w \in Workers \cup {NoWorker}, a \in Nat :
                /\ LeaseGranted(s, n, w, a) \in ExecutionStates
                /\ NodeStarted(s, n, w, a) \in ExecutionStates
                /\ NodeFailed(s, n, w, a) \in ExecutionStates
<1>1. s.node \in [Nodes -> NodeRecords]
  BY DEF ExecutionStates
<1>2. AddNodes(s, ids) \in ExecutionStates /\ MarkReadyNodes(s) \in ExecutionStates
  <2>1. AddNodes(s, ids) \in ExecutionStates
    BY DEF AddNodes, ExecutionStates, NodeRecords, NodeStates
  <2>2. MarkReadyNodes(s) \in ExecutionStates
    <3>1. \A r \in NodeRecords : [r EXCEPT !.state = "READY"] \in NodeRecords
      BY DEF NodeRecords, NodeStates
    <3> QED BY <1>1, <3>1 DEF MarkReadyNodes, ExecutionStates
  <2> QED BY <2>1, <2>2
<1>3. \A n \in Nodes, nodeState \in NodeStates :
        [s.node[n] EXCEPT !.state = nodeState, !.worker = NoWorker] \in NodeRecords
  BY DEF ExecutionStates, NodeRecords
<1>4. "CANCELLED" \in NodeStates /\ "READY" \in NodeStates
  BY DEF NodeStates
<1>5. CancelNodes(s, ids) \in ExecutionStates /\ ExpireLeases(s, ids) \in ExecutionStates
  <2>1. CancelNodes(s, ids) \in ExecutionStates
    BY <1>1, <1>3, <1>4 DEF CancelNodes, ExecutionStates
  <2>2. ExpireLeases(s, ids) \in ExecutionStates
    BY <1>1, <1>3, <1>4 DEF ExpireLeases, ExecutionStates
  <2> QED BY <2>1, <2>2
<1>6. \A n \in Nodes, nodeState \in NodeStates : Release(s, n, nodeState) \in ExecutionStates
  BY <1>1, <1>3 DEF Release, ExecutionStates
<1>7. ASSUME NEW n \in Nodes, NEW w \in Workers \cup {NoWorker}, NEW a \in Nat
      PROVE  /\ LeaseGranted(s, n, w, a) \in ExecutionStates
             /\ NodeStarted(s, n, w, a) \in ExecutionStates
             /\ NodeFailed(s, n, w, a) \in ExecutionStates
  <2> DEFINE held == [s.node[n] EXCEPT !.attempt = a, !.worker = w]
  <2>1. held \in NodeRecords
    BY <1>1 DEF NodeRecords
  <2>2. LeaseGranted(s, n, w, a) = [s EXCEPT !.node = [@ EXCEPT ![n] = held]]
    BY DEF LeaseGranted
  <2> HIDE DEF held
  <2>3. LeaseGranted(s, n, w, a) \in ExecutionStates
    <3>1. [s.node EXCEPT ![n] = held] \in [Nodes -> NodeRecords]
      BY <1>1, <2>1
    <3> QED BY <2>2, <3>1 DEF ExecutionStates
  <2>4. NodeStarted(s, n, w, a) \in ExecutionStates /\ NodeFailed(s, n, w, a) \in ExecutionStates
    BY DEF NodeStarted, NodeFailed, ExecutionStates, NodeRecords, NodeStates
  <2> QED BY <2>3, <2>4
<1> QED
  BY <1>2, <1>5, <1>6, <1>7

Entry(n) == [node |-> n, completed |-> FALSE, attempt |-> 0]

(* A completion before nodes are spawned and readiness is recomputed.      *)
Done(s, n, w, a) ==
    LET done == [s EXCEPT !.node[n] = [state |-> "COMPLETED", attempt |-> a, worker |-> w]]
    IN  IF Def[n].compensation = NoActivity
          THEN done
          ELSE [done EXCEPT !.stack = Append(@, Entry(n))]

(* It is a state, with the entry it may push, and else the state before.   *)
LEMMA CompletionParts ==
  ASSUME NEW s \in ExecutionStates, NEW n \in Nodes,
         NEW w \in Workers \cup {NoWorker}, NEW a \in Nat
  PROVE  /\ Done(s, n, w, a) \in ExecutionStates
         /\ Done(s, n, w, a).node[n].state = "COMPLETED" /\ Done(s, n, w, a).node[n].attempt = a
         /\ Done(s, n, w, a).node[n].worker = w
         /\ \A m \in Nodes \ {n} : Done(s, n, w, a).node[m] = s.node[m]
         /\ Done(s, n, w, a).stack = IF Def[n].compensation = NoActivity THEN s.stack
                                      ELSE Append(s.stack, Entry(n))
         /\ Done(s, n, w, a).runState = s.runState
         /\ Done(s, n, w, a).cancelRequested = s.cancelRequested
         /\ Done(s, n, w, a).active = s.active
         /\ Done(s, n, w, a).pending = s.pending
<1> DEFINE done  == [s EXCEPT !.node[n] = [state |-> "COMPLETED", attempt |-> a, worker |-> w]]
           entry == Entry(n)
           pushed == [done EXCEPT !.stack = Append(@, entry)]
<1>1. done \in ExecutionStates
  BY DEF ExecutionStates, NodeRecords, NodeStates
<1>2. entry \in StackEntries
  BY DEF StackEntries, Entry
<1>3. Append(done.stack, entry) \in Seq(StackEntries)
  BY <1>1, <1>2, AppendProperties DEF ExecutionStates
<1>4. pushed \in ExecutionStates
  <2> HIDE DEF done, entry
  <2> QED BY <1>1, <1>3 DEF ExecutionStates
<1>5. /\ done.node[n].state = "COMPLETED" /\ done.node[n].attempt = a /\ done.node[n].worker = w
      /\ \A m \in Nodes \ {n} : done.node[m] = s.node[m]
      /\ done.stack = s.stack /\ done.active = s.active /\ done.pending = s.pending
      /\ done.runState = s.runState /\ done.cancelRequested = s.cancelRequested
  BY DEF ExecutionStates
<1>6. /\ pushed.stack = Append(s.stack, entry)
      /\ pushed.node = done.node /\ pushed.active = done.active /\ pushed.pending = done.pending
      /\ pushed.runState = done.runState /\ pushed.cancelRequested = done.cancelRequested
  <2> HIDE DEF done, entry
  <2> QED BY <1>1, <1>5 DEF ExecutionStates
<1>7. Done(s, n, w, a) = IF Def[n].compensation = NoActivity THEN done ELSE pushed
  BY DEF Done
<1> HIDE DEF done, pushed
<1> QED BY <1>1, <1>4, <1>5, <1>6, <1>7

(* Scheduling and firing a timer, handing out a compensation, and its end, *)
(* good or bad, yield states; no entry appears, moves or goes.             *)
LEMMA TimerAndCompensationEventsType ==
  ASSUME NEW s \in ExecutionStates
  PROVE  /\ \A t \in Timers : /\ TimerScheduled(s, t) \in ExecutionStates
                             /\ TimerFired(s, t) \in ExecutionStates
         /\ CompensationReleased(s) \in ExecutionStates
         /\ \A n : /\ CompensationTaskCompleted(s, n) \in ExecutionStates
                   /\ DOMAIN CompensationTaskCompleted(s, n).stack = DOMAIN s.stack
         /\ \A n \in Nodes, w \in Workers, a \in Nat :
                   /\ CompensationTaskStarted(s, n, w, a) \in ExecutionStates
                   /\ DOMAIN CompensationTaskStarted(s, n, w, a).stack = DOMAIN s.stack
<1>1. s.stack \in Seq(StackEntries) /\ Len(s.stack) \in Nat /\ DOMAIN s.stack = 1 .. Len(s.stack)
  BY LenProperties DEF ExecutionStates
<1>2. \A i \in DOMAIN s.stack : s.stack[i] \in StackEntries
  BY <1>1, ElementOfSeq
<1>3. \A q \in [DOMAIN s.stack -> StackEntries] : q \in Seq(StackEntries)
  BY <1>1, SeqDef
<1>4. ASSUME NEW n
      PROVE  /\ CompensationTaskCompleted(s, n) \in ExecutionStates
             /\ DOMAIN CompensationTaskCompleted(s, n).stack = DOMAIN s.stack
  <2> DEFINE q == [i \in DOMAIN s.stack |->
                     IF IsFirstEntry(s, n, i) THEN [s.stack[i] EXCEPT !.completed = TRUE]
                                              ELSE s.stack[i]]
  <2>1. q \in [DOMAIN s.stack -> StackEntries]
    BY <1>2 DEF StackEntries
  <2>2. CompensationTaskCompleted(s, n) = [s EXCEPT !.active = NoCompensation, !.stack = q]
    BY DEF CompensationTaskCompleted
  <2> HIDE DEF q
  <2> QED BY <1>3, <2>1, <2>2 DEF ExecutionStates
<1>5. ASSUME NEW n \in Nodes, NEW w \in Workers, NEW a \in Nat
      PROVE  /\ CompensationTaskStarted(s, n, w, a) \in ExecutionStates
             /\ DOMAIN CompensationTaskStarted(s, n, w, a).stack = DOMAIN s.stack
  <2> DEFINE q == [i \in DOMAIN s.stack |->
                     IF IsFirstEntry(s, n, i) THEN [s.stack[i] EXCEPT !.attempt = a]
                                              ELSE s.stack[i]]
  <2>1. q \in [DOMAIN s.stack -> StackEntries]
    BY <1>2 DEF StackEntries
  <2>2. [node |-> n, worker |-> w, attempt |-> a] \in Compensations
    BY DEF Compensations
  <2>3. CompensationTaskStarted(s, n, w, a) =
          IF HasEntry(s, n)
            THEN [s EXCEPT !.active = [node |-> n, worker |-> w, attempt |-> a], !.stack = q]
            ELSE s
    BY DEF CompensationTaskStarted
  <2> HIDE DEF q
  <2> QED BY <1>3, <2>1, <2>2, <2>3 DEF ExecutionStates
<1>6. CompensationReleased(s) \in ExecutionStates
  BY DEF CompensationReleased, ExecutionStates
<1>7. ASSUME NEW t \in Timers
      PROVE  TimerScheduled(s, t) \in ExecutionStates /\ TimerFired(s, t) \in ExecutionStates
  <2> DEFINE marked == [s EXCEPT !.pending = @ \ {t}, !.fired = @ \cup {t}]
  <2>1. TimerScheduled(s, t) \in ExecutionStates
    BY DEF TimerScheduled, ExecutionStates
  <2>2. marked \in ExecutionStates /\ t.node \in Nodes
    BY DEF ExecutionStates, Timers
  <2>3. Release(marked, t.node, "READY") \in ExecutionStates
    <3> HIDE DEF marked
    <3> QED BY <2>2, NodeEventsType DEF NodeStates
  <2> QED BY <2>1, <2>2, <2>3 DEF TimerFired
<1> QED
  BY <1>4, <1>5, <1>6, <1>7

-----------------------------------------------------------------------------
(* Type correctness of the moves and of the specification *)

(* The empty state of New is well typed, and a well-typed state stays so   *)
(* under every move.                                                       *)
LEMMA TypesClosed == New \in ExecutionStates /\ Closed(ExecutionStates)
<1> DEFINE ES == ExecutionStates
<1>1. \A s \in ES, n \in Nodes :
        /\ s.node[n].attempt \in Nat
        /\ s.node[n].worker \in Workers \cup {NoWorker}
  BY DEF ExecutionStates, NodeRecords
<1>2. \A n \in Nodes, p \in Purposes, a \in Nat : Timer(n, p, a) \in Timers
  BY DEF Timer, Timers
<1>3. "retry_backoff" \in Purposes
  BY DEF Purposes
<1>4. ClosedUnderStart(ES)
  <2> SUFFICES ASSUME NEW s \in ES PROVE WorkflowStarted(s) \in ES
    BY DEF ClosedUnderStart
  <2> DEFINE added == [AddNodes(s, InitialNodes) EXCEPT !.runState = "RUNNING"]
  <2>1. added \in ES
    BY NodeEventsType DEF ExecutionStates, RunStates
  <2> QED BY <2>1, NodeEventsType DEF WorkflowStarted
<1>5. ClosedUnderClaims(ES)
  <2> SUFFICES ASSUME NEW s \in ES, NEW n \in Nodes, NEW w \in Workers, NEW a \in Nat
               PROVE  /\ LeaseGranted(s, n, w, a) \in ES
                      /\ NodeStarted(LeaseGranted(s, n, w, a), n, w, a) \in ES
    BY <1>1 DEF ClosedUnderClaims
  <2> QED BY NodeEventsType
<1>6. ClosedUnderCompletion(ES)
  <2>1. ASSUME NEW s \in ES, NEW n \in Nodes, NEW w \in Workers \cup {NoWorker}, NEW a \in Nat,
               NEW spawned
        PROVE  NodeCompleted(s, n, w, a, spawned) \in ES
    <3>1. Done(s, n, w, a) \in ES
      BY CompletionParts
    <3>2. NodeCompleted(s, n, w, a, spawned) = MarkReadyNodes(AddNodes(Done(s, n, w, a), spawned))
      BY DEF NodeCompleted, Done, Entry
    <3>3. AddNodes(Done(s, n, w, a), spawned) \in ES
      BY <3>1, NodeEventsType
    <3> QED BY <3>2, <3>3, NodeEventsType
  <2> QED BY <1>1, <2>1 DEF ClosedUnderCompletion
<1>7. ClosedUnderFailure(ES)
  <2> SUFFICES ASSUME NEW s \in ES, NEW n \in Nodes, NEW w \in Workers \cup {NoWorker}, NEW a \in Nat
               PROVE  /\ NodeFailed(s, n, w, a) \in ES
                      /\ TimerScheduled(NodeFailed(s, n, w, a), Timer(n, "retry_backoff", a)) \in ES
    BY <1>1 DEF ClosedUnderFailure
  <2>1. NodeFailed(s, n, w, a) \in ES
    BY NodeEventsType
  <2>2. Timer(n, "retry_backoff", a) \in Timers
    BY <1>2, <1>3
  <2> QED BY <2>1, <2>2, TimerAndCompensationEventsType
<1>8. ClosedUnderRelease(ES)
  <2>1. \A s \in ES, n \in Nodes, nodeState \in NodeStates : Release(s, n, nodeState) \in ES
    BY NodeEventsType
  <2>2. \A s \in ES : \A ids : ExpireLeases(s, ids) \in ES
    BY NodeEventsType
  <2> QED BY <2>1, <2>2 DEF ClosedUnderRelease, NodeStates
<1>9. ClosedUnderTimers(ES)
  <2>1. \A s \in ES : s.pending \subseteq Timers
    BY DEF ExecutionStates
  <2> QED BY <1>2, <2>1, TimerAndCompensationEventsType DEF ClosedUnderTimers, ClosedUnderScheduling, ClosedUnderFiring
<1>10. ClosedUnderCancellation(ES)
  <2>1. \A s \in ES : CancellationRequested(s) \in ES
    BY DEF CancellationRequested, ExecutionStates
  <2> QED BY <2>1, NodeEventsType DEF ClosedUnderCancellation
<1>11. ClosedUnderAdvance(ES)
  <2> SUFFICES ASSUME NEW s \in ES PROVE Advance(s) \in ES
    BY DEF ClosedUnderAdvance
  <2>1. NextRunState(s) \in RunStates
    BY DEF NextRunState, ExecutionStates, RunStates, TerminalRunStates
  <2> QED BY <2>1 DEF Advance, SetRunState, ExecutionStates
<1>12. ClosedUnderCompensation(ES)
  <2> SUFFICES ASSUME NEW s \in ES
               PROVE  SetRunState(CompensationReleased(s), "FAILED") \in ES
    BY TimerAndCompensationEventsType DEF ClosedUnderCompensation
  <2> QED BY TimerAndCompensationEventsType DEF SetRunState, ExecutionStates, RunStates, TerminalRunStates
<1>13. ClosedUnderHandout(ES)
  <2> SUFFICES ASSUME NEW s \in ES, NEW i \in DOMAIN s.stack, NEW w \in Workers
               PROVE  CompensationTaskStarted(s, s.stack[i].node, w, s.stack[i].attempt + 1) \in ES
    BY DEF ClosedUnderHandout
  <2>1. s.stack[i] \in StackEntries
    BY ElementOfSeq, LenProperties DEF ExecutionStates
  <2> QED BY <2>1, TimerAndCompensationEventsType DEF StackEntries
<1>14. New \in ES
  BY DefinitionAssumption, EmptySeq
  DEF New, ExecutionStates, NodeRecords, NodeStates, RunStates
<1> QED
  BY <1>4, <1>5, <1>6, <1>7, <1>8, <1>9, <1>10, <1>11, <1>12, <1>13, <1>14
    DEF Closed, ClosedUnderUpkeep, ClosedUnderHandling, ClosedUnderTimers

(* Whatever requests, reports, timers, expiries, failed appends, crashes   *)
(* and restarts occur, the run and the process stay well typed: handlers   *)
(* persist only node states, run states, entries and timers that exist.    *)
THEOREM TypeCorrect == Spec => []TypeOK
<1>1. Init => TypeOK
  BY TypesClosed, EngineAssumption DEF Init, TypeOK
<1>2. TypeOK /\ [Next]_vars => TypeOK'
  <2> SUFFICES ASSUME TypeOK, [Next]_vars PROVE TypeOK'
    OBVIOUS
  <2>1. st' \in ExecutionStates
    BY TypesClosed, StepsAreMoves DEF TypeOK
  <2>2. MaxCrashes \in Nat /\ MaxIOErrors \in Nat
    BY EngineAssumption
  <2> DEFINE ProcessOK == /\ up' \in BOOLEAN
                          /\ registered' \subseteq Workers
                          /\ crashes' \in 0 .. MaxCrashes
                          /\ ioErrors' \in 0 .. MaxIOErrors
  <2>3. ASSUME NEW cuts, NEW final, Commit(cuts, final) PROVE ProcessOK
    <3>1. up' \in BOOLEAN
      BY <2>3, Zenon DEF Commit
    <3>2. registered' \subseteq Workers
      BY <2>3 DEF Commit, TypeOK
    <3>3. \/ crashes' = crashes /\ ioErrors' = ioErrors
          \/ ioErrors < MaxIOErrors /\ ioErrors' = ioErrors + 1 /\ crashes' = crashes
          \/ crashes < MaxCrashes /\ crashes' = crashes + 1 /\ ioErrors' = ioErrors
      BY <2>3, Zenon DEF Commit
    <3>4. crashes' \in 0 .. MaxCrashes /\ ioErrors' \in 0 .. MaxIOErrors
      BY <2>2, <3>3 DEF TypeOK
    <3> QED BY <3>1, <3>2, <3>4
  <2>4. CASE \E cuts, final : Commit(cuts, final)
    BY <2>1, <2>3, <2>4 DEF TypeOK
  <2>5. ASSUME NEW w \in Workers, RegisterWorker(w) PROVE TypeOK'
    BY <2>5 DEF RegisterWorker, TypeOK
  <2>6. CASE FireDueTimersLosingTimeouts
    BY <2>1, <2>2, <2>6 DEF FireDueTimersLosingTimeouts, TypeOK
  <2>7. CASE Crash
    <3>1. registered' \subseteq Workers /\ ioErrors' \in 0 .. MaxIOErrors
      BY <2>7 DEF Crash, TypeOK
    <3>2. up' \in BOOLEAN
      BY <2>7, Zenon DEF Crash
    <3>3. crashes' \in 0 .. MaxCrashes
      BY <2>2, <2>7, SMT DEF Crash, TypeOK
    <3> QED BY <2>1, <3>1, <3>2, <3>3 DEF TypeOK
  <2>8. CASE UNCHANGED vars
    BY <2>8 DEF vars, TypeOK
  <2>9. ASSUME NEW w \in Workers, ClaimTask(w) PROVE \E cuts, final : Commit(cuts, final)
    BY <2>9 DEF ClaimTask, ClaimReadyTask, ClaimCompensationTask
  <2>10. ASSUME NEW w \in Workers, NEW n \in Nodes, NEW a \in Attempts, Report(w, n, a)
         PROVE  \E cuts, final : Commit(cuts, final)
    BY <2>10 DEF Report, CompleteTask, ReachCheckpoint, CompleteCompensationTask, FailTask,
                 FailTaskCancelled, FailCompensationTask
  <2>11. CASE StartRun \/ CancelRun \/ ExpireOverdueLeases \/ FireDueTimers \/ Restart
              \/ \E n \in Nodes : ApproveCheckpoint(n)
    <3>1. \E cuts, final : Commit(cuts, final)
      BY <2>11
      DEF StartRun, CancelRun, ExpireOverdueLeases, FireDueTimers, Restart, ApproveCheckpoint
    <3> QED BY <2>4, <3>1
  <2> QED
    BY <2>4, <2>5, <2>6, <2>7, <2>8, <2>9, <2>10, <2>11 DEF Next
<1> QED
  BY <1>1, <1>2, PTL DEF Spec

-----------------------------------------------------------------------------
(* Safety *)

(* What is not about nodes leaves them alone.                              *)
LEMMA NodesAlone ==
  ASSUME NEW s \in ExecutionStates
  PROVE  /\ \A t : TimerScheduled(s, t).node = s.node
         /\ CancellationRequested(s).node = s.node
         /\ Advance(s).node = s.node
         /\ CompensationReleased(s).node = s.node
         /\ SetRunState(CompensationReleased(s), "FAILED").node = s.node
         /\ \A n : CompensationTaskCompleted(s, n).node = s.node
         /\ \A n, w, a : CompensationTaskStarted(s, n, w, a).node = s.node
<1>1. /\ \A t : TimerScheduled(s, t).node = s.node
      /\ CancellationRequested(s).node = s.node
      /\ Advance(s).node = s.node
  BY DEF TimerScheduled, CancellationRequested, Advance, SetRunState, ExecutionStates
<1>2. /\ CompensationReleased(s).node = s.node
      /\ SetRunState(CompensationReleased(s), "FAILED").node = s.node
      /\ \A n : CompensationTaskCompleted(s, n).node = s.node
      /\ \A n, w, a : CompensationTaskStarted(s, n, w, a).node = s.node
  BY DEF CompensationReleased, SetRunState, CompensationTaskCompleted, CompensationTaskStarted,
         ExecutionStates
<1> QED
  BY <1>1, <1>2

-----------------------------------------------------------------------------
(* Before the start *)

(* The states in which a run that has not started has no nodes, and is not *)
(* cancelled.                                                              *)
Sound == {s \in ExecutionStates : s.runState = "NONE" => Present(s) = {} /\ ~s.cancelRequested}

(* Nothing happens to a run before it started.                             *)
LEMMA SoundClosed == Closed(Sound)
<1> USE DEF Sound
<1>1. ClosedUnderStart(Sound)
  <2> SUFFICES ASSUME NEW s \in ExecutionStates PROVE WorkflowStarted(s).runState = "RUNNING"
    BY TypesClosed DEF Closed, ClosedUnderUpkeep, ClosedUnderHandling, ClosedUnderStart
  <2> QED BY DEF WorkflowStarted, AddNodes, MarkReadyNodes, ExecutionStates
<1>2. ClosedUnderClaims(Sound)
  <2> SUFFICES ASSUME NEW s \in ExecutionStates, NEW n \in Nodes, NEW w, NEW a
               PROVE  /\ LeaseGranted(s, n, w, a).runState = s.runState
                      /\ NodeStarted(LeaseGranted(s, n, w, a), n, w, a).runState = s.runState
    BY TypesClosed DEF Closed, ClosedUnderClaims
  <2> QED BY DEF LeaseGranted, NodeStarted, ExecutionStates
<1>3. ClosedUnderCompletion(Sound)
  <2> SUFFICES ASSUME NEW s \in Sound, NEW n \in Nodes, NEW spawned,
                      s.node[n].state = "RUNNING", NEW w, NEW a
               PROVE  NodeCompleted(s, n, w, a, spawned).runState # "NONE"
    BY TypesClosed DEF Closed, ClosedUnderCompletion
  <2>1. s.runState # "NONE"
    BY DEF Present
  <2> QED BY <2>1 DEF NodeCompleted, AddNodes, MarkReadyNodes, ExecutionStates
<1>4. ClosedUnderFailure(Sound)
  <2> SUFFICES ASSUME NEW s \in Sound, NEW n \in Nodes, s.node[n].state # "ABSENT", NEW w, NEW a, NEW t
               PROVE  /\ NodeFailed(s, n, w, a).runState # "NONE"
                      /\ TimerScheduled(NodeFailed(s, n, w, a), t).runState # "NONE"
    BY TypesClosed DEF Closed, ClosedUnderUpkeep, ClosedUnderHandling, ClosedUnderFailure
  <2>1. s.runState # "NONE"
    BY DEF Present
  <2> QED BY <2>1 DEF NodeFailed, TimerScheduled, ExecutionStates
<1>5. ClosedUnderRelease(Sound)
  <2>1. ASSUME NEW s \in Sound, NEW n \in Nodes, s.node[n].state # "ABSENT", NEW to
        PROVE  Release(s, n, to).runState # "NONE"
    <3>1. s.runState # "NONE"
      BY <2>1 DEF Present
    <3> QED BY <3>1 DEF Release, ExecutionStates
  <2>2. ASSUME NEW s \in Sound, NEW ids \in SUBSET InState(s, {"RUNNING"}),
               ExpireLeases(s, ids).runState = "NONE"
        PROVE  Present(ExpireLeases(s, ids)) = {} /\ ~ExpireLeases(s, ids).cancelRequested
    <3>1. s.runState = "NONE" /\ Present(s) = {} /\ ~s.cancelRequested
      BY <2>2 DEF ExpireLeases, ExecutionStates
    <3> QED BY <3>1 DEF ExpireLeases, Present, InState, ExecutionStates
  <2> QED BY <2>1, <2>2, TypesClosed
    DEF Closed, ClosedUnderUpkeep, ClosedUnderHandling, ClosedUnderRelease
<1>6. ClosedUnderTimers(Sound)
  <2>1. ASSUME NEW s \in Sound, NEW t
        PROVE  /\ TimerScheduled(s, t).runState = s.runState
               /\ TimerScheduled(s, t).cancelRequested = s.cancelRequested
    BY DEF TimerScheduled, ExecutionStates
  <2>2. ASSUME NEW s \in Sound, NEW t \in s.pending
        PROVE  TimerFired(s, t).runState = "NONE" =>
                  Present(TimerFired(s, t)) = {} /\ ~TimerFired(s, t).cancelRequested
    <3>1. t.node \in Nodes
      BY DEF ExecutionStates, Timers
    <3> QED BY <3>1 DEF TimerFired, Release, Present, ExecutionStates
  <2>3. ClosedUnderScheduling(Sound)
    <3>1. ASSUME NEW s \in Sound, NEW t, TimerScheduled(s, t) \in ExecutionStates
          PROVE  TimerScheduled(s, t) \in Sound
      BY <2>1, <3>1, NodesAlone DEF Present
    <3> QED BY <3>1, TypesClosed
      DEF Closed, ClosedUnderUpkeep, ClosedUnderHandling, ClosedUnderScheduling
  <2>4. ClosedUnderFiring(Sound)
    <3>1. ASSUME NEW s \in Sound, NEW t \in s.pending, TimerFired(s, t) \in ExecutionStates
          PROVE  TimerFired(s, t) \in Sound
      BY <2>2, <3>1
    <3> QED BY <3>1, TypesClosed DEF Closed, ClosedUnderUpkeep, ClosedUnderFiring
  <2> QED BY <2>3, <2>4 DEF ClosedUnderTimers
<1>7. ClosedUnderCancellation(Sound)
  <2>1. ASSUME NEW s \in Sound PROVE CancellationRequested(s).runState = s.runState
    BY DEF CancellationRequested, ExecutionStates
  <2>2. ASSUME NEW s \in Sound, NEW ids \in SUBSET Undispatched(s)
        PROVE  CancelNodes(s, ids).runState = "NONE" =>
                  Present(CancelNodes(s, ids)) = {} /\ ~CancelNodes(s, ids).cancelRequested
    BY DEF CancelNodes, Undispatched, InState, Present, ExecutionStates
  <2> QED
    BY <2>1, <2>2, NodesAlone, TypesClosed
    DEF Closed, ClosedUnderUpkeep, ClosedUnderHandling, ClosedUnderCancellation, Present
<1>8. ClosedUnderAdvance(Sound)
  <2>1. ASSUME NEW s \in Sound
        PROVE  /\ Advance(s).runState = "NONE" => s.runState = "NONE"
               /\ Advance(s).cancelRequested = s.cancelRequested
    BY DEF Advance, SetRunState, NextRunState, ExecutionStates
  <2> QED
    BY <2>1, NodesAlone, TypesClosed
    DEF Closed, ClosedUnderUpkeep, ClosedUnderHandling, ClosedUnderAdvance, Present
<1>9. ClosedUnderCompensation(Sound) /\ ClosedUnderHandout(Sound)
  <2>1. ASSUME NEW s \in Sound
        PROVE  /\ CompensationReleased(s).runState = s.runState
               /\ CompensationReleased(s).cancelRequested = s.cancelRequested
               /\ SetRunState(CompensationReleased(s), "FAILED").runState = "FAILED"
               /\ \A n : /\ CompensationTaskCompleted(s, n).runState = s.runState
                         /\ CompensationTaskCompleted(s, n).cancelRequested = s.cancelRequested
               /\ \A n, w, a : CompensationTaskStarted(s, n, w, a).runState = s.runState
    BY DEF CompensationReleased, SetRunState, CompensationTaskCompleted, CompensationTaskStarted,
           ExecutionStates
  <2> QED
    BY <2>1, NodesAlone, TypesClosed
    DEF Closed, ClosedUnderUpkeep, ClosedUnderHandling, ClosedUnderCompensation,
        ClosedUnderHandout, Present
<1> QED
  BY <1>1, <1>2, <1>3, <1>4, <1>5, <1>6, <1>7, <1>8, <1>9
    DEF Closed, ClosedUnderUpkeep, ClosedUnderHandling, ClosedUnderTimers

-----------------------------------------------------------------------------
(* Dependencies *)

Started == {"READY", "RUNNING", "AWAITING_APPROVAL", "COMPLETED", "FAILED"}

DependenciesHold(s) == \A n \in InState(s, Started) : DependenciesCompleted(s, n)

Orderly == {s \in Sound : DependenciesHold(s)}

OrderlyRun == st \in Orderly

(* A node that was ever made ready has all its dependencies completed, and *)
(* they stay so, in every workflow and whatever fails: completed nodes are *)
(* left alone, and only the recomputation of readiness makes a node ready  *)
(* for the first time.                                                     *)
THEOREM DependenciesAreRespected == Spec => []DependenciesRespected
<1>1. ASSUME NEW s \in ExecutionStates, DependenciesHold(s), NEW x,
             InState(s, {"COMPLETED"}) \subseteq InState(x, {"COMPLETED"}),
             \A n \in InState(x, Started) : n \in InState(s, Started) \/ DependenciesCompleted(x, n)
      PROVE  DependenciesHold(x)
  BY <1>1 DEF DependenciesHold, DependenciesCompleted, InState
<1>2. ASSUME NEW s \in ExecutionStates, DependenciesHold(s)
      PROVE  DependenciesHold(MarkReadyNodes(s))
  <2> DEFINE x == MarkReadyNodes(s)
  <2>1. \A n \in Nodes :
          x.node[n].state = IF s.node[n].state = "PENDING" /\ DependenciesCompleted(s, n)
                              THEN "READY" ELSE s.node[n].state
    BY DEF MarkReadyNodes, ExecutionStates, NodeRecords
  <2> HIDE DEF x
  <2>2. InState(x, {"COMPLETED"}) = InState(s, {"COMPLETED"})
    BY <2>1 DEF InState
  <2>3. ASSUME NEW n \in InState(x, Started)
        PROVE  n \in InState(s, Started) \/ DependenciesCompleted(x, n)
    <3>1. CASE s.node[n].state = x.node[n].state
      BY <3>1 DEF InState
    <3>2. CASE s.node[n].state # x.node[n].state
      <4>1. DependenciesCompleted(s, n)
        BY <2>1, <3>2 DEF InState
      <4> QED BY <2>2, <4>1 DEF DependenciesCompleted
    <3> QED BY <3>1, <3>2
  <2> QED
    BY <1>1, <1>2, <2>2, <2>3 DEF x
<1>3. Closed(Orderly)
  <2> USE DEF Orderly
  <2>1. ClosedUnderStart(Orderly)
    <3> SUFFICES ASSUME NEW s \in Orderly, s.runState = "NONE"
                 PROVE  DependenciesHold(WorkflowStarted(s))
      BY SoundClosed DEF Closed, ClosedUnderUpkeep, ClosedUnderHandling, ClosedUnderStart
    <3> DEFINE added == [AddNodes(s, InitialNodes) EXCEPT !.runState = "RUNNING"]
    <3>1. added \in ExecutionStates
      BY NodeEventsType DEF Sound, ExecutionStates, RunStates
    <3>2. \A n \in Nodes : added.node[n].state \in {"ABSENT", "PENDING"}
      BY DEF Sound, Present, AddNodes, ExecutionStates
    <3>3. WorkflowStarted(s) = MarkReadyNodes(added)
      BY DEF WorkflowStarted
    <3> HIDE DEF added
    <3>4. DependenciesHold(added)
      BY <3>2 DEF DependenciesHold, InState, Started
    <3> QED BY <3>1, <3>3, <3>4, <1>2
  <2>2. ClosedUnderClaims(Orderly)
    <3> SUFFICES ASSUME NEW s \in Orderly, NEW n \in Nodes, s.node[n].state = "READY", NEW w, NEW a
                 PROVE  /\ DependenciesHold(LeaseGranted(s, n, w, a))
                        /\ DependenciesHold(NodeStarted(LeaseGranted(s, n, w, a), n, w, a))
      BY SoundClosed DEF Closed, ClosedUnderClaims
    <3>1. DependenciesHold(LeaseGranted(s, n, w, a))
      BY <1>1 DEF LeaseGranted, InState, Sound, ExecutionStates, NodeRecords, Started
    <3>2. DependenciesHold(NodeStarted(LeaseGranted(s, n, w, a), n, w, a))
      BY <1>1, ZenonT(30)
      DEF LeaseGranted, NodeStarted, InState, Sound, ExecutionStates, NodeRecords, Started
    <3> QED BY <3>1, <3>2
  <2>3. ClosedUnderCompletion(Orderly)
    <3> SUFFICES ASSUME NEW s \in Orderly, NEW n \in Nodes, NEW spawned \in SUBSET Nodes,
                        s.node[n].state = "RUNNING", spawned \cap Present(s) = {}
                 PROVE  DependenciesHold(
                          NodeCompleted(s, n, s.node[n].worker, s.node[n].attempt, spawned))
      BY SoundClosed DEF Closed, ClosedUnderCompletion
    <3> DEFINE done  == Done(s, n, s.node[n].worker, s.node[n].attempt)
               added == AddNodes(done, spawned)
    <3>1. s \in ExecutionStates
      BY DEF Sound
    <3>2. /\ done \in ExecutionStates
          /\ \A m \in Nodes : done.node[m].state = IF m = n THEN "COMPLETED" ELSE s.node[m].state
      <4>1. s.node[n].worker \in Workers \cup {NoWorker} /\ s.node[n].attempt \in Nat
        BY <3>1 DEF ExecutionStates, NodeRecords
      <4>2. ASSUME NEW w \in Workers \cup {NoWorker}, NEW b \in Nat
            PROVE  /\ Done(s, n, w, b) \in ExecutionStates
                   /\ \A m \in Nodes : Done(s, n, w, b).node[m].state =
                                          IF m = n THEN "COMPLETED" ELSE s.node[m].state
        BY <3>1, CompletionParts
      <4> QED BY <4>1, <4>2
    <3>3. NodeCompleted(s, n, s.node[n].worker, s.node[n].attempt, spawned) = MarkReadyNodes(added)
      BY DEF NodeCompleted, Done, Entry
    <3> HIDE DEF done
    <3>4. \A m \in Nodes : added.node[m].state = IF m \in spawned THEN "PENDING" ELSE done.node[m].state
      BY <3>2 DEF AddNodes, ExecutionStates
    <3>5. added \in ExecutionStates
      BY <3>2, NodeEventsType
    <3> HIDE DEF added
    <3>6. \A m \in Nodes : m \in spawned => s.node[m].state = "ABSENT"
      BY DEF Present
    <3>7. DependenciesHold(added)
      BY <3>1, <3>2, <3>4, <3>6, <1>1 DEF InState, Started
    <3> QED BY <3>3, <3>5, <3>7, <1>2
  <2>4. ClosedUnderFailure(Orderly)
    <3> SUFFICES ASSUME NEW s \in Orderly, NEW n \in Nodes, NEW w, NEW a, NEW t,
                        s.node[n].state \in {"READY", "RUNNING", "AWAITING_APPROVAL"}
                 PROVE  /\ DependenciesHold(NodeFailed(s, n, w, a))
                        /\ DependenciesHold(TimerScheduled(NodeFailed(s, n, w, a), t))
      BY SoundClosed DEF Closed, ClosedUnderUpkeep, ClosedUnderHandling, ClosedUnderFailure
    <3>1. DependenciesHold(NodeFailed(s, n, w, a))
      BY <1>1 DEF NodeFailed, InState, Sound, ExecutionStates, Started
    <3>2. TimerScheduled(NodeFailed(s, n, w, a), t).node = NodeFailed(s, n, w, a).node
      BY DEF TimerScheduled, NodeFailed, Sound, ExecutionStates
    <3> QED BY <3>1, <3>2 DEF DependenciesHold, DependenciesCompleted, InState
  <2>5. ClosedUnderRelease(Orderly)
    <3>1. ASSUME NEW s \in Orderly, NEW n \in Nodes, NEW to \in {"READY", "AWAITING_APPROVAL", "CANCELLED"},
                 s.node[n].state \in {"RUNNING", "AWAITING_APPROVAL"}
          PROVE  DependenciesHold(Release(s, n, to))
      BY <3>1, <1>1 DEF Release, InState, Sound, ExecutionStates, NodeRecords, Started
    <3>2. ASSUME NEW s \in Orderly, NEW ids \in SUBSET InState(s, {"RUNNING"})
          PROVE  DependenciesHold(ExpireLeases(s, ids))
      BY <3>2, <1>1
      DEF ExpireLeases, InState, Sound, ExecutionStates, NodeRecords, Started
    <3> QED BY <3>1, <3>2, SoundClosed
      DEF Closed, ClosedUnderUpkeep, ClosedUnderHandling, ClosedUnderRelease
  <2>6. ClosedUnderTimers(Orderly)
    <3>1. ASSUME NEW s \in Orderly, NEW t
          PROVE  DependenciesHold(TimerScheduled(s, t))
      BY NodesAlone DEF DependenciesHold, DependenciesCompleted, InState, Sound
    <3>2. ASSUME NEW s \in Orderly, NEW t \in s.pending
          PROVE  DependenciesHold(TimerFired(s, t))
      <4>1. t.node \in Nodes
        BY DEF Sound, ExecutionStates, Timers
      <4> DEFINE x == TimerFired(s, t)
      <4>2. ASSUME NEW n \in Nodes
            PROVE  \/ x.node[n].state = s.node[n].state
                   \/ s.node[n].state = "FAILED" /\ x.node[n].state = "READY"
        BY <4>1 DEF TimerFired, Release, Sound, ExecutionStates, NodeRecords
      <4> HIDE DEF x
      <4>3. InState(s, {"COMPLETED"}) \subseteq InState(x, {"COMPLETED"})
        BY <4>2 DEF InState
      <4>4. InState(x, Started) \subseteq InState(s, Started)
        BY <4>2 DEF InState, Started
      <4>5. s \in ExecutionStates /\ DependenciesHold(s)
        BY DEF Sound
      <4>6. DependenciesHold(x)
        BY <1>1, <4>3, <4>4, <4>5
      <4> QED BY <4>6 DEF x
    <3> QED BY <3>1, <3>2, SoundClosed
      DEF Closed, ClosedUnderUpkeep, ClosedUnderHandling, ClosedUnderTimers, ClosedUnderScheduling,
          ClosedUnderFiring
  <2>7. ClosedUnderCancellation(Orderly)
    <3>1. ASSUME NEW s \in Orderly PROVE DependenciesHold(CancellationRequested(s))
      BY NodesAlone DEF DependenciesHold, DependenciesCompleted, InState, Sound
    <3>2. ASSUME NEW s \in Orderly, NEW ids \in SUBSET Undispatched(s)
          PROVE  DependenciesHold(CancelNodes(s, ids))
      <4> DEFINE x == CancelNodes(s, ids)
      <4>1. \A n \in Nodes : x.node[n].state = IF n \in ids THEN "CANCELLED" ELSE s.node[n].state
        BY DEF CancelNodes, Sound, ExecutionStates, NodeRecords
      <4> HIDE DEF x
      <4>2. InState(s, {"COMPLETED"}) \subseteq InState(x, {"COMPLETED"})
        BY <4>1 DEF Undispatched, InState
      <4>3. InState(x, Started) \subseteq InState(s, Started)
        BY <4>1 DEF InState, Started
      <4> QED BY <4>2, <4>3, <1>1 DEF x, Sound
    <3> QED BY <3>1, <3>2, SoundClosed
      DEF Closed, ClosedUnderUpkeep, ClosedUnderHandling, ClosedUnderCancellation
  <2>8. ClosedUnderAdvance(Orderly) /\ ClosedUnderCompensation(Orderly) /\ ClosedUnderHandout(Orderly)
    <3>1. ASSUME NEW s \in Orderly, NEW x, x.node = s.node PROVE DependenciesHold(x)
      BY <3>1 DEF DependenciesHold, DependenciesCompleted, InState
    <3>2. Orderly \subseteq Sound /\ Sound \subseteq ExecutionStates
      BY DEF Sound
    <3>3. ASSUME NEW s \in Orderly
          PROVE  /\ DependenciesHold(Advance(s))
                 /\ DependenciesHold(CompensationReleased(s))
                 /\ DependenciesHold(SetRunState(CompensationReleased(s), "FAILED"))
                 /\ \A n : DependenciesHold(CompensationTaskCompleted(s, n))
                 /\ \A n, w, a : DependenciesHold(CompensationTaskStarted(s, n, w, a))
      BY <3>1, <3>2, NodesAlone
    <3>4. ClosedUnderAdvance(Sound) /\ ClosedUnderCompensation(Sound) /\ ClosedUnderHandout(Sound)
      BY SoundClosed DEF Closed, ClosedUnderUpkeep, ClosedUnderHandling
    <3> QED BY <3>2, <3>3, <3>4
      DEF ClosedUnderAdvance, ClosedUnderCompensation, ClosedUnderHandout
  <2> QED
    BY <2>1, <2>2, <2>3, <2>4, <2>5, <2>6, <2>7, <2>8
      DEF Closed, ClosedUnderUpkeep, ClosedUnderHandling, ClosedUnderTimers
<1>4. Init => OrderlyRun
  BY TypesClosed
  DEF Init, New, OrderlyRun, Orderly, Sound, Present, DependenciesHold, InState, Started
<1>5. OrderlyRun /\ [Next]_vars => OrderlyRun'
  BY <1>3, StepsAreMoves DEF OrderlyRun, Orderly, Sound
<1>6. OrderlyRun => DependenciesRespected
  BY DEF OrderlyRun, Orderly, DependenciesHold, DependenciesRespected, Started
<1> QED
  BY <1>4, <1>5, <1>6, PTL DEF Spec
-----------------------------------------------------------------------------
(* Retries *)

RetryTimers(s) == {t \in s.pending : t.purpose = "retry_backoff"}

RetriesHold(s) ==
    \A t \in RetryTimers(s) : /\ s.node[t.node].state = "FAILED"
                              /\ s.node[t.node].attempt = t.attempt
                              /\ t.attempt < Def[t.node].maxAttempts

Timed == {s \in Sound : RetriesHold(s)}

TimedRun == st \in Timed

(* A pending retry timer belongs to the attempt that failed and allows the *)
(* next one, for every retry policy and however late timers and reports    *)
(* arrive: a failed node is left alone by every move but the firing of its *)
(* timer.                                                                  *)
THEOREM RetryTimersAreSound == Spec => []RetryTimerSound
<1>1. ASSUME NEW s \in Timed, NEW x, RetryTimers(x) \subseteq RetryTimers(s),
             \A n \in Nodes : s.node[n].state = "FAILED" => x.node[n] = s.node[n]
      PROVE  RetriesHold(x)
  <2>1. \A t \in RetryTimers(s) : t.node \in Nodes
    BY DEF Timed, Sound, ExecutionStates, Timers, RetryTimers
  <2> QED
    BY <1>1, <2>1 DEF Timed, RetriesHold
<1>2. Closed(Timed)
  <2>1. Timed \subseteq Sound /\ Sound \subseteq ExecutionStates
    BY DEF Timed, Sound
  <2>2. \A s : s \in Sound /\ RetriesHold(s) => s \in Timed
    BY DEF Timed
  <2>3. ClosedUnderStart(Timed)
    <3> SUFFICES ASSUME NEW s \in Timed, s.runState = "NONE" PROVE RetriesHold(WorkflowStarted(s))
      BY <2>1, <2>2, SoundClosed
        DEF Closed, ClosedUnderUpkeep, ClosedUnderHandling, ClosedUnderStart
    <3>1. RetryTimers(s) = {}
      <4>1. \A t \in RetryTimers(s) : t.node \in Nodes /\ s.node[t.node].state = "FAILED"
        BY DEF Timed, RetriesHold, RetryTimers, Sound, ExecutionStates, Timers
      <4> QED BY <4>1 DEF Timed, Sound, Present
    <3>2. WorkflowStarted(s).pending = s.pending
      BY <2>1 DEF WorkflowStarted, AddNodes, MarkReadyNodes, ExecutionStates
    <3> QED BY <3>1, <3>2 DEF RetriesHold, RetryTimers
  <2>4. ClosedUnderClaims(Timed)
    <3> SUFFICES ASSUME NEW s \in Timed, NEW n \in Nodes, s.node[n].state = "READY", NEW w, NEW a
                 PROVE  /\ RetriesHold(LeaseGranted(s, n, w, a))
                        /\ RetriesHold(NodeStarted(LeaseGranted(s, n, w, a), n, w, a))
      BY <2>1, <2>2, SoundClosed DEF Closed, ClosedUnderClaims
    <3>1. RetriesHold(LeaseGranted(s, n, w, a))
      BY <2>1, <1>1 DEF LeaseGranted, RetryTimers, ExecutionStates
    <3>2. RetriesHold(NodeStarted(LeaseGranted(s, n, w, a), n, w, a))
      <4> DEFINE x == NodeStarted(LeaseGranted(s, n, w, a), n, w, a)
      <4>1. x.pending = s.pending
        BY <2>1 DEF LeaseGranted, NodeStarted, ExecutionStates
      <4>2. \A m \in Nodes \ {n} : x.node[m] = s.node[m]
        BY <2>1 DEF LeaseGranted, NodeStarted, ExecutionStates
      <4> HIDE DEF x
      <4>3. \A m \in Nodes : s.node[m].state = "FAILED" => x.node[m] = s.node[m]
        BY <4>2
      <4>4. RetryTimers(x) \subseteq RetryTimers(s)
        BY <4>1 DEF RetryTimers
      <4>5. RetriesHold(x)
        BY <4>3, <4>4, <1>1
      <4> QED BY <4>5 DEF x
    <3> QED BY <3>1, <3>2
  <2>5. ClosedUnderCompletion(Timed)
    <3> SUFFICES ASSUME NEW s \in Timed, NEW n \in Nodes, NEW spawned \in SUBSET Nodes,
                        s.node[n].state = "RUNNING", spawned \cap Present(s) = {}
                 PROVE  RetriesHold(
                          NodeCompleted(s, n, s.node[n].worker, s.node[n].attempt, spawned))
      BY <2>1, <2>2, SoundClosed DEF Closed, ClosedUnderCompletion
    <3> DEFINE x == NodeCompleted(s, n, s.node[n].worker, s.node[n].attempt, spawned)
    <3>1. x.pending = s.pending
      BY <2>1 DEF NodeCompleted, AddNodes, MarkReadyNodes, ExecutionStates
    <3>2. ASSUME NEW m \in Nodes, s.node[m].state = "FAILED" PROVE x.node[m] = s.node[m]
      <4>1. m # n /\ m \notin spawned
        BY <3>2 DEF Present
      <4> QED BY <2>1, <3>2, <4>1 DEF NodeCompleted, AddNodes, MarkReadyNodes, ExecutionStates
    <3> QED BY <3>1, <3>2, <1>1 DEF RetryTimers
  <2>6. ClosedUnderFailure(Timed)
    <3>1. ASSUME NEW s \in Timed, NEW n \in Nodes, NEW w, NEW a,
                 s.node[n].state \in {"READY", "RUNNING", "AWAITING_APPROVAL"}
          PROVE  RetriesHold(NodeFailed(s, n, w, a))
      BY <2>1, <3>1, <1>1 DEF NodeFailed, RetryTimers, ExecutionStates
    <3>2. ASSUME NEW s \in Timed, NEW n \in Nodes, NEW w, NEW a \in Nat, a < Def[n].maxAttempts,
                 s.node[n].state = "RUNNING"
          PROVE  RetriesHold(TimerScheduled(NodeFailed(s, n, w, a), Timer(n, "retry_backoff", a)))
      <4> DEFINE x == TimerScheduled(NodeFailed(s, n, w, a), Timer(n, "retry_backoff", a))
      <4>1. x.pending = s.pending \cup {Timer(n, "retry_backoff", a)}
        BY <2>1 DEF NodeFailed, TimerScheduled, ExecutionStates
      <4>2. x.node[n].state = "FAILED" /\ x.node[n].attempt = a
        BY <2>1 DEF NodeFailed, TimerScheduled, ExecutionStates
      <4>3. \A m \in Nodes \ {n} : x.node[m] = s.node[m]
        BY <2>1 DEF NodeFailed, TimerScheduled, ExecutionStates
      <4>4. \A t \in RetryTimers(s) : t.node \in Nodes \ {n}
        BY <3>2 DEF Timed, RetriesHold, RetryTimers, Sound, ExecutionStates, Timers
      <4> HIDE DEF x
      <4>5. \A t \in RetryTimers(x) : t \in RetryTimers(s) \/ t = Timer(n, "retry_backoff", a)
        BY <4>1 DEF RetryTimers
      <4>6. ASSUME NEW t \in RetryTimers(s)
            PROVE  /\ x.node[t.node].state = "FAILED"
                   /\ x.node[t.node].attempt = t.attempt
                   /\ t.attempt < Def[t.node].maxAttempts
        BY <4>3, <4>4 DEF Timed, RetriesHold
      <4>7. /\ Timer(n, "retry_backoff", a).node = n
            /\ Timer(n, "retry_backoff", a).attempt = a
        BY DEF Timer
      <4>8. RetriesHold(x)
        BY <3>2, <4>2, <4>5, <4>6, <4>7 DEF RetriesHold
      <4> QED BY <4>8 DEF x
    <3>3. \A s \in Timed, n \in Nodes : s.node[n].attempt \in Nat
      BY <2>1 DEF ExecutionStates, NodeRecords
    <3> QED
      BY <2>1, <2>2, <3>1, <3>2, <3>3, SoundClosed
      DEF Closed, ClosedUnderUpkeep, ClosedUnderHandling, ClosedUnderFailure
  <2>7. ClosedUnderRelease(Timed)
    <3>1. ASSUME NEW s \in Timed, NEW n \in Nodes, NEW to,
                 s.node[n].state \in {"RUNNING", "AWAITING_APPROVAL"}
          PROVE  RetriesHold(Release(s, n, to))
      BY <2>1, <3>1, <1>1 DEF Release, RetryTimers, ExecutionStates
    <3>2. ASSUME NEW s \in Timed, NEW ids \in SUBSET InState(s, {"RUNNING"})
          PROVE  RetriesHold(ExpireLeases(s, ids))
      BY <2>1, <3>2, <1>1 DEF ExpireLeases, InState, RetryTimers, ExecutionStates
    <3> QED BY <2>1, <2>2, <3>1, <3>2, SoundClosed
      DEF Closed, ClosedUnderUpkeep, ClosedUnderHandling, ClosedUnderRelease
  <2>8. ClosedUnderTimers(Timed)
    <3>1. ASSUME NEW s \in Timed, NEW n, NEW purpose \in Purposes \ {"retry_backoff"}, NEW a
          PROVE  RetriesHold(TimerScheduled(s, Timer(n, purpose, a)))
      <4>1. RetryTimers(TimerScheduled(s, Timer(n, purpose, a))) \subseteq RetryTimers(s)
        BY <2>1 DEF TimerScheduled, RetryTimers, Timer, ExecutionStates
      <4> QED BY <2>1, <4>1, NodesAlone, <1>1
    <3>2. ASSUME NEW s \in Timed, NEW t \in s.pending PROVE RetriesHold(TimerFired(s, t))
      <4> DEFINE x == TimerFired(s, t)
      <4>1. t \in Timers /\ t.node \in Nodes /\ \A u \in s.pending : u \in Timers /\ u.node \in Nodes
        BY <2>1 DEF ExecutionStates, Timers
      <4>2. x.pending = s.pending \ {t}
        BY <2>1 DEF TimerFired, Release, ExecutionStates
      <4>3. CASE t.purpose # "retry_backoff"
        <5>1. x.node = s.node
          BY <2>1, <4>3 DEF TimerFired, ExecutionStates
        <5> QED BY <4>2, <5>1, <1>1 DEF RetryTimers
      <4>4. CASE t.purpose = "retry_backoff"
        <5>1. \A m \in Nodes \ {t.node} : x.node[m] = s.node[m]
          BY <2>1, <4>1 DEF TimerFired, Release, ExecutionStates
        <5>2. ASSUME NEW u \in RetryTimers(x) PROVE u \in RetryTimers(s) /\ u.node # t.node
          <6>1. u \in RetryTimers(s) /\ t \in RetryTimers(s) /\ u # t
            BY <4>2, <4>4 DEF RetryTimers
          <6>2. u.node = t.node => u.attempt = t.attempt /\ u.purpose = t.purpose
            BY <6>1 DEF Timed, RetriesHold, RetryTimers
          <6>3. u \in Timers /\ t \in Timers
            BY <4>1, <6>1 DEF RetryTimers
          <6> QED BY <6>1, <6>2, <6>3 DEF Timers
        <5> QED BY <4>1, <5>1, <5>2 DEF Timed, RetriesHold, RetryTimers
      <4> QED BY <4>3, <4>4
    <3> QED BY <2>1, <2>2, <3>1, <3>2, SoundClosed
      DEF Closed, ClosedUnderUpkeep, ClosedUnderHandling, ClosedUnderTimers, ClosedUnderScheduling,
          ClosedUnderFiring
  <2>9. ClosedUnderCancellation(Timed)
    <3>1. ASSUME NEW s \in Timed PROVE RetriesHold(CancellationRequested(s))
      BY <2>1, NodesAlone, <1>1 DEF CancellationRequested, RetryTimers, ExecutionStates
    <3>2. ASSUME NEW s \in Timed, NEW ids \in SUBSET Undispatched(s)
          PROVE  RetriesHold(CancelNodes(s, ids))
      BY <2>1, <3>2, <1>1 DEF CancelNodes, Undispatched, InState, RetryTimers, ExecutionStates
    <3> QED
      BY <2>1, <2>2, <3>1, <3>2, SoundClosed
      DEF Closed, ClosedUnderUpkeep, ClosedUnderHandling, ClosedUnderCancellation
  <2>10. ClosedUnderAdvance(Timed) /\ ClosedUnderCompensation(Timed) /\ ClosedUnderHandout(Timed)
    <3>1. ASSUME NEW s \in Timed, NEW x, x.node = s.node, x.pending = s.pending
          PROVE  RetriesHold(x)
      BY <3>1, <1>1 DEF RetryTimers
    <3>2. ASSUME NEW s \in Timed
          PROVE  /\ Advance(s).pending = s.pending
                 /\ CompensationReleased(s).pending = s.pending
                 /\ SetRunState(CompensationReleased(s), "FAILED").pending = s.pending
                 /\ \A n : CompensationTaskCompleted(s, n).pending = s.pending
                 /\ \A n, w, a : CompensationTaskStarted(s, n, w, a).pending = s.pending
      BY <2>1 DEF Advance, CompensationReleased, SetRunState, CompensationTaskCompleted,
                  CompensationTaskStarted, ExecutionStates
    <3>3. ASSUME NEW s \in Timed
          PROVE  /\ RetriesHold(Advance(s))
                 /\ RetriesHold(CompensationReleased(s))
                 /\ RetriesHold(SetRunState(CompensationReleased(s), "FAILED"))
                 /\ \A n : RetriesHold(CompensationTaskCompleted(s, n))
                 /\ \A n, w, a : RetriesHold(CompensationTaskStarted(s, n, w, a))
      BY <2>1, <3>1, <3>2, NodesAlone
    <3>4. ClosedUnderAdvance(Sound) /\ ClosedUnderCompensation(Sound) /\ ClosedUnderHandout(Sound)
      BY SoundClosed DEF Closed, ClosedUnderUpkeep, ClosedUnderHandling
    <3> QED BY <2>1, <2>2, <3>3, <3>4
      DEF ClosedUnderAdvance, ClosedUnderCompensation, ClosedUnderHandout
  <2> QED
    BY <2>3, <2>4, <2>5, <2>6, <2>7, <2>8, <2>9, <2>10
      DEF Closed, ClosedUnderUpkeep, ClosedUnderHandling, ClosedUnderTimers
<1>3. Init => TimedRun
  BY TypesClosed DEF Init, New, TimedRun, Timed, Sound, Present, RetriesHold, RetryTimers
<1>4. TimedRun /\ [Next]_vars => TimedRun'
  BY <1>2, StepsAreMoves DEF TimedRun, Timed, Sound
<1>5. TimedRun => RetryTimerSound
  BY DEF TimedRun, Timed, RetriesHold, RetryTimers, RetryTimerSound
<1> QED
  BY <1>3, <1>4, <1>5, PTL DEF Spec
=============================================================================
