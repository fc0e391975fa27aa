---------------------------- MODULE EngineSafety ----------------------------
(***************************************************************************)
(* What Engine keeps of completed work, of attempts and of compensations,  *)
(* and what it decides about the run as a whole and the limits it arms,    *)
(* for every workflow definition, set of workers and bound.                *)
(*                                                                         *)
(* Whatever the handlers, the monitors, a crash or a restart do, a step is *)
(* one of four kinds: a claim, the handing out of a compensation, an       *)
(* accepted completion, or upkeep, which gives nobody anything.  The       *)
(* invariants and the action properties follow from what the kinds keep.   *)
(* The outcome of the run and the limits depend on more than the kind of a *)
(* step: these are sets of states closed under the moves, as in            *)
(* EngineProofs.                                                           *)
(***************************************************************************)
EXTENDS EngineProofs

-----------------------------------------------------------------------------
(* The kinds of a step from s to x *)

(* Upkeep of nodes: no attempt is numbered, starts or completes, and what  *)
(* is completed is left alone.                                             *)
NodesUpkept(s, x) ==
    \A n \in Nodes :
        /\ x.node[n].attempt = s.node[n].attempt
        /\ x.node[n].state = "ABSENT" => s.node[n].state = "ABSENT"
        /\ x.node[n].state = "RUNNING" => x.node[n] = s.node[n]
        /\ x.node[n].state = "COMPLETED" => x.node[n] = s.node[n]
        /\ s.node[n].state = "COMPLETED" => x.node[n] = s.node[n]

(* Upkeep of the run: the active compensation goes on or ends, entries are *)
(* completed but neither pushed nor moved, a cancellation stands.          *)
Upkept(s, x) ==
    /\ NodesUpkept(s, x)
    /\ \/ x.active = s.active /\ x.stack = s.stack
       \/ x.active = NoCompensation
    /\ DOMAIN x.stack = DOMAIN s.stack
    /\ \A i \in DOMAIN s.stack : /\ x.stack[i].node = s.stack[i].node
                                 /\ s.stack[i].completed => x.stack[i] = s.stack[i]
    /\ s.cancelRequested => x.cancelRequested

(* Only node n gets an attempt, which may not get past its lease.          *)
Claimed(s, x, n, w) ==
    /\ s.node[n].state = "READY"
    /\ ~s.cancelRequested
    /\ x.node[n].attempt = s.node[n].attempt + 1
    /\ x.node[n].state \in {"READY", "RUNNING"}
    /\ x.node[n].worker = w
    /\ \A m \in Nodes \ {n} : x.node[m] = s.node[m]
    /\ x.stack = s.stack /\ x.active = s.active /\ x.cancelRequested = s.cancelRequested

(* Entry i is handed out on its next attempt.                              *)
Handed(s, x, i) ==
    /\ IsNextCompensation(s, i)
    /\ ~s.cancelRequested
    /\ x.active # NoCompensation
    /\ x.active.node = s.stack[i].node
    /\ DOMAIN x.stack = DOMAIN s.stack
    /\ \A j \in DOMAIN s.stack \ {i} : x.stack[j] = s.stack[j]
    /\ x.stack[i].node = s.stack[i].node
    /\ x.stack[i].attempt = x.active.attempt
    /\ ~x.stack[i].completed
    /\ x.node = s.node /\ x.cancelRequested = s.cancelRequested

(* The attempt that runs on n is completed and leaves its entry.           *)
Completed(s, x, n) ==
    /\ s.node[n].state = "RUNNING"
    /\ ~s.cancelRequested
    /\ x.node[n].state = "COMPLETED" /\ x.node[n].worker = s.node[n].worker
    /\ \A m \in Nodes : x.node[m].attempt = s.node[m].attempt
    /\ \A m \in Nodes \ {n} :
        /\ x.node[m].state = "ABSENT" => s.node[m].state = "ABSENT"
        /\ x.node[m].state = "RUNNING" => x.node[m] = s.node[m]
        /\ x.node[m].state = "COMPLETED" => x.node[m] = s.node[m]
        /\ s.node[m].state \in {"RUNNING", "COMPLETED"} => x.node[m] = s.node[m]
    /\ x.stack = IF Def[n].compensation = NoActivity THEN s.stack ELSE Append(s.stack, Entry(n))
    /\ x.active \in {s.active, NoCompensation}
    /\ x.cancelRequested = s.cancelRequested

-----------------------------------------------------------------------------
(* An absent node has used no attempt, a running one has a worker.         *)
NodesHold(s) ==
    \A n \in Nodes : /\ s.node[n].state = "ABSENT" => s.node[n].attempt = 0
                     /\ s.node[n].state = "RUNNING" => s.node[n].worker \in Workers

Known == {s \in Sound : NodesHold(s)}

-----------------------------------------------------------------------------
(* Every step is of one of the kinds *)

EntriesUnique(s) ==
    \A i, j \in DOMAIN s.stack : s.stack[i].node = s.stack[j].node => i = j

(* What upkeep reaches from the state is a set that upkeep does not leave, *)
(* so it is closed under the moves of upkeep; the other handlers are each  *)
(* of their own kind.                                                      *)
LEMMA StepKinds ==
  ASSUME st \in Known, EntriesUnique(st), [Next]_vars
  PROVE  \/ Upkept(st, st')
         \/ \E n \in Nodes, w \in Workers : Claimed(st, st', n, w)
         \/ \E i \in DOMAIN st.stack : Handed(st, st', i)
         \/ \E n \in Nodes : Completed(st, st', n)
<1> DEFINE P == {x \in Known : Upkept(st, x)}
<1>1. st \in ExecutionStates /\ st \in Known
  BY DEF Known, Sound
<1>2. P \in SUBSET ExecutionStates /\ ClosedUnderUpkeep(P) /\ st \in P
  <2>1. P \in SUBSET Known /\ st \in P /\ \A s \in P, x \in Sound : Upkept(s, x) => x \in P
    <3>1. ASSUME NEW s \in P, NEW x \in Sound, Upkept(s, x) PROVE x \in P
      <4>1. NodesHold(x)
        BY <3>1 DEF Known, NodesHold, Upkept, NodesUpkept
      <4>2. NodesUpkept(st, x)
        BY <3>1 DEF Upkept, NodesUpkept
      <4>3. Upkept(st, x)
        BY <3>1, <4>2 DEF Upkept
      <4> QED BY <3>1, <4>1, <4>3 DEF Known
    <3>2. st \in P
      BY <1>1 DEF Upkept, NodesUpkept
    <3> QED BY <3>1, <3>2
  <2> HIDE DEF P
  <2>2. ClosedUnderUpkeep(P)
    <3>1. P \subseteq Sound /\ Sound \subseteq ExecutionStates
      BY <2>1 DEF Known, Sound
    <3>2. ASSUME NEW s \in P, NEW x \in Sound, NodesUpkept(s, x), x.stack = s.stack,
                 x.active \in {s.active, NoCompensation}, s.cancelRequested => x.cancelRequested
          PROVE  x \in P
      BY <2>1, <3>2 DEF Upkept
    <3>3. ClosedUnderStart(P)
      <4> SUFFICES ASSUME NEW s \in P, s.runState = "NONE" PROVE WorkflowStarted(s) \in P
        BY DEF ClosedUnderStart
      <4> DEFINE x == WorkflowStarted(s)
      <4>1. x \in Sound
        BY <3>1, SoundClosed DEF Closed, ClosedUnderUpkeep, ClosedUnderHandling, ClosedUnderStart
      <4>2. \A n \in Nodes : s.node[n].state = "ABSENT" /\ s.node[n].attempt = 0
        BY <2>1 DEF Known, Sound, NodesHold, Present
      <4>3. /\ x.stack = s.stack /\ x.active = s.active /\ x.cancelRequested = s.cancelRequested
            /\ \A n \in Nodes : x.node[n].attempt = 0 /\ x.node[n].state \in {"ABSENT", "PENDING", "READY"}
        BY <3>1, <4>2 DEF WorkflowStarted, AddNodes, MarkReadyNodes, ExecutionStates, NodeRecords
      <4> HIDE DEF x
      <4>4. NodesUpkept(s, x)
        BY <4>2, <4>3 DEF NodesUpkept
      <4> QED BY <3>2, <4>1, <4>3, <4>4 DEF x
    <3>4. ClosedUnderFailure(P)
      <4>1. ASSUME NEW s \in P, NEW n \in Nodes, s.node[n].state \in {"READY", "RUNNING", "AWAITING_APPROVAL"},
                   NEW x \in Sound, NEW t,
                   \/ x = NodeFailed(s, n, s.node[n].worker, s.node[n].attempt)
                   \/ x = TimerScheduled(NodeFailed(s, n, s.node[n].worker, s.node[n].attempt), t)
            PROVE  x \in P
        <5>1. /\ x.stack = s.stack /\ x.active = s.active /\ x.cancelRequested = s.cancelRequested
              /\ x.node[n].state = "FAILED" /\ x.node[n].attempt = s.node[n].attempt
              /\ \A m \in Nodes \ {n} : x.node[m] = s.node[m]
          <6>1. CASE x = NodeFailed(s, n, s.node[n].worker, s.node[n].attempt)
            BY <3>1, <6>1 DEF NodeFailed, ExecutionStates
          <6>2. CASE x = TimerScheduled(NodeFailed(s, n, s.node[n].worker, s.node[n].attempt), t)
            BY <3>1, <6>2 DEF NodeFailed, TimerScheduled, ExecutionStates
          <6> QED BY <4>1, <6>1, <6>2
        <5>2. NodesUpkept(s, x)
          BY <4>1, <5>1 DEF NodesUpkept
        <5> QED BY <3>2, <5>1, <5>2
      <4> QED BY <3>1, <4>1, SoundClosed
        DEF Closed, ClosedUnderUpkeep, ClosedUnderHandling, ClosedUnderFailure
    <3>5. ClosedUnderRelease(P)
      <4>1. ASSUME NEW s \in P, NEW n \in Nodes, s.node[n].state \in {"RUNNING", "AWAITING_APPROVAL"},
                   NEW to \in {"AWAITING_APPROVAL", "CANCELLED", "READY"}, Release(s, n, to) \in Sound
            PROVE  Release(s, n, to) \in P
        <5> DEFINE x == Release(s, n, to)
        <5>1. /\ x.stack = s.stack /\ x.active = s.active /\ x.cancelRequested = s.cancelRequested
              /\ x.node[n].state = to /\ x.node[n].attempt = s.node[n].attempt
              /\ \A m \in Nodes \ {n} : x.node[m] = s.node[m]
          BY <3>1 DEF Release, ExecutionStates, NodeRecords
        <5> HIDE DEF x
        <5>2. NodesUpkept(s, x)
          BY <4>1, <5>1 DEF NodesUpkept
        <5> QED BY <3>2, <4>1, <5>1, <5>2 DEF x
      <4>2. ASSUME NEW s \in P, NEW ids \in SUBSET InState(s, {"RUNNING"}), ExpireLeases(s, ids) \in Sound
            PROVE  ExpireLeases(s, ids) \in P
        <5> DEFINE x == ExpireLeases(s, ids)
        <5>1. /\ x.stack = s.stack /\ x.active = s.active /\ x.cancelRequested = s.cancelRequested
              /\ \A m \in Nodes \cap ids : x.node[m].state = "READY" /\ x.node[m].attempt = s.node[m].attempt
              /\ \A m \in Nodes \ ids : x.node[m] = s.node[m]
          <6>1. \A m \in Nodes : s.node[m] \in NodeRecords
            BY <3>1 DEF ExecutionStates
          <6>2. x.node = [m \in Nodes |->
                            IF m \in ids THEN [s.node[m] EXCEPT !.state = "READY", !.worker = NoWorker]
                                         ELSE s.node[m]]
            BY <3>1 DEF ExpireLeases, ExecutionStates
          <6>3. x.stack = s.stack /\ x.active = s.active /\ x.cancelRequested = s.cancelRequested
            BY <3>1 DEF ExpireLeases, ExecutionStates
          <6> HIDE DEF x
          <6> QED BY <6>1, <6>2, <6>3 DEF NodeRecords
        <5> HIDE DEF x
        <5>2. NodesUpkept(s, x)
          BY <4>2, <5>1 DEF NodesUpkept, InState
        <5> QED BY <3>2, <4>2, <5>1, <5>2 DEF x
      <4> QED BY <3>1, <4>1, <4>2, SoundClosed
        DEF Closed, ClosedUnderUpkeep, ClosedUnderHandling, ClosedUnderRelease
    <3>6. ASSUME NEW s \in P, NEW x \in Sound, x.node = s.node, x.stack = s.stack,
                 x.active \in {s.active, NoCompensation}, s.cancelRequested => x.cancelRequested
          PROVE  x \in P
      BY <3>2, <3>6 DEF NodesUpkept
    <3>7. ClosedUnderTimers(P)
      <4>1. ASSUME NEW s \in P, NEW t, TimerScheduled(s, t) \in Sound PROVE TimerScheduled(s, t) \in P
        BY <3>1, <3>6, <4>1 DEF TimerScheduled, ExecutionStates
      <4>2. ASSUME NEW s \in P, NEW t \in s.pending, TimerFired(s, t) \in Sound PROVE TimerFired(s, t) \in P
        <5> DEFINE x == TimerFired(s, t)
        <5>1. t.node \in Nodes
          BY <3>1 DEF ExecutionStates, Timers
        <5>2. /\ x.stack = s.stack /\ x.active = s.active /\ x.cancelRequested = s.cancelRequested
              /\ \A m \in Nodes \ {t.node} : x.node[m] = s.node[m]
          BY <3>1 DEF TimerFired, Release, ExecutionStates
        <5>3. \/ x.node[t.node] = s.node[t.node]
              \/ /\ s.node[t.node].state = "FAILED" /\ x.node[t.node].state = "READY"
                 /\ x.node[t.node].attempt = s.node[t.node].attempt
          BY <3>1, <5>1 DEF TimerFired, Release, ExecutionStates, NodeRecords
        <5> HIDE DEF x
        <5>4. NodesUpkept(s, x)
          BY <5>1, <5>2, <5>3 DEF NodesUpkept
        <5> QED BY <3>2, <4>2, <5>2, <5>4 DEF x
      <4> QED BY <3>1, <4>1, <4>2, SoundClosed
        DEF Closed, ClosedUnderUpkeep, ClosedUnderHandling, ClosedUnderTimers, ClosedUnderScheduling,
            ClosedUnderFiring
    <3>8. ClosedUnderCancellation(P)
      <4>1. ASSUME NEW s \in P, CancellationRequested(s) \in Sound PROVE CancellationRequested(s) \in P
        BY <3>1, <3>6, <4>1 DEF CancellationRequested, ExecutionStates
      <4>2. ASSUME NEW s \in P, NEW ids \in SUBSET Undispatched(s), CancelNodes(s, ids) \in Sound
            PROVE  CancelNodes(s, ids) \in P
        <5> DEFINE x == CancelNodes(s, ids)
        <5>1. /\ x.stack = s.stack /\ x.active = s.active /\ x.cancelRequested = s.cancelRequested
              /\ \A m \in Nodes \cap ids : x.node[m].state = "CANCELLED" /\ x.node[m].attempt = s.node[m].attempt
              /\ \A m \in Nodes \ ids : x.node[m] = s.node[m]
          <6>1. \A m \in Nodes : s.node[m] \in NodeRecords
            BY <3>1 DEF ExecutionStates
          <6>2. x.node = [m \in Nodes |->
                            IF m \in ids THEN [s.node[m] EXCEPT !.state = "CANCELLED", !.worker = NoWorker]
                                         ELSE s.node[m]]
            BY <3>1 DEF CancelNodes, ExecutionStates
          <6>3. x.stack = s.stack /\ x.active = s.active /\ x.cancelRequested = s.cancelRequested
            BY <3>1 DEF CancelNodes, ExecutionStates
          <6> HIDE DEF x
          <6> QED BY <6>1, <6>2, <6>3 DEF NodeRecords
        <5> HIDE DEF x
        <5>2. NodesUpkept(s, x)
          BY <4>2, <5>1 DEF NodesUpkept, Undispatched, InState
        <5> QED BY <3>2, <4>2, <5>1, <5>2 DEF x
      <4> QED BY <3>1, <4>1, <4>2, SoundClosed
        DEF Closed, ClosedUnderUpkeep, ClosedUnderHandling, ClosedUnderCancellation
    <3>9. ClosedUnderAdvance(P)
      <4>1. ASSUME NEW s \in P, Advance(s) \in Sound PROVE Advance(s) \in P
        BY <3>1, <3>6, <4>1 DEF Advance, SetRunState, ExecutionStates
      <4> QED BY <3>1, <4>1, SoundClosed
        DEF Closed, ClosedUnderUpkeep, ClosedUnderHandling, ClosedUnderAdvance
    <3>10. ClosedUnderCompensation(P)
      <4>1. ASSUME NEW s \in P, NEW x \in Sound,
                   \/ x = CompensationReleased(s)
                   \/ x = SetRunState(CompensationReleased(s), "FAILED")
            PROVE  x \in P
        <5>1. /\ x.node = s.node /\ x.stack = s.stack /\ x.active = NoCompensation
              /\ x.cancelRequested = s.cancelRequested
          BY <3>1, <4>1 DEF CompensationReleased, SetRunState, ExecutionStates
        <5> QED BY <3>6, <5>1
      <4>2. ASSUME NEW s \in P, NEW n, CompensationTaskCompleted(s, n) \in Sound
            PROVE  CompensationTaskCompleted(s, n) \in P
        <5> DEFINE x == CompensationTaskCompleted(s, n)
        <5>1. \A i \in DOMAIN s.stack : s.stack[i] \in StackEntries
          BY <3>1, ElementOfSeq, LenProperties DEF ExecutionStates
        <5>2. x.stack = [i \in DOMAIN s.stack |->
                           IF IsFirstEntry(s, n, i) THEN [s.stack[i] EXCEPT !.completed = TRUE]
                                                    ELSE s.stack[i]]
          BY <3>1 DEF CompensationTaskCompleted, ExecutionStates
        <5>3. DOMAIN x.stack = DOMAIN s.stack
          BY <5>2
        <5>4. ASSUME NEW i \in DOMAIN s.stack
              PROVE  x.stack[i].node = s.stack[i].node /\ (s.stack[i].completed => x.stack[i] = s.stack[i])
          <6>1. \A e \in StackEntries : LET c == [e EXCEPT !.completed = TRUE]
                                        IN  c.node = e.node /\ (e.completed => c = e)
            BY DEF StackEntries
          <6> HIDE DEF x
          <6>2. \/ x.stack[i] = s.stack[i]
                \/ x.stack[i] = [s.stack[i] EXCEPT !.completed = TRUE]
            BY <5>2
          <6>3. s.stack[i] \in StackEntries
            BY <5>1
          <6> QED BY <6>1, <6>2, <6>3
        <5>5. x.node = s.node /\ x.active = NoCompensation /\ x.cancelRequested = s.cancelRequested
          BY <3>1 DEF CompensationTaskCompleted, ExecutionStates
        <5> HIDE DEF x
        <5>6. Upkept(s, x)
          BY <5>3, <5>4, <5>5 DEF Upkept, NodesUpkept
        <5> QED BY <2>1, <4>2, <5>6 DEF x
      <4> QED BY <3>1, <4>1, <4>2, SoundClosed
        DEF Closed, ClosedUnderUpkeep, ClosedUnderHandling, ClosedUnderCompensation
    <3> QED
      BY <3>3, <3>4, <3>5, <3>7, <3>8, <3>9, <3>10
        DEF ClosedUnderUpkeep, ClosedUnderHandling, ClosedUnderTimers
  <2> QED BY <2>1, <2>2 DEF Known, Sound
<1>3. ASSUME NEW w \in Workers, ClaimReadyTask(w)
      PROVE  \E n \in Nodes : Claimed(st, st', n, w)
  <2>1. PICK n \in ReadyFor(w) :
          LET a       == NextAttempt(n)
              granted == LeaseGranted(st, n, w, a)
              started == NodeStarted(granted, n, w, a)
              limited == ScheduleLimit(started, n, "node_exec_deadline", a)
          IN  Commit({granted, started, limited}, ScheduleAbsoluteDeadline(limited, n))
    BY <1>3 DEF ClaimReadyTask
  <2> DEFINE a       == st.node[n].attempt + 1
             granted == LeaseGranted(st, n, w, a)
             started == NodeStarted(granted, n, w, a)
             limited == ScheduleLimit(started, n, "node_exec_deadline", a)
             final   == ScheduleAbsoluteDeadline(limited, n)
  <2>2. n \in Nodes /\ st.node[n].state = "READY" /\ ~st.cancelRequested /\ a \in Nat
    BY <1>1, <1>3 DEF ReadyFor, InState, ClaimReadyTask, Claimable, ExecutionStates, NodeRecords
  <2>3. st' \in {granted, started, limited, final}
    BY <2>1 DEF Commit, NextAttempt
  <2>4. Claimed(st, granted, n, w)
    BY <1>1, <2>2 DEF Claimed, LeaseGranted, ExecutionStates, NodeRecords
  <2>5. Claimed(st, started, n, w) /\ started \in ExecutionStates
    <3>1. Claimed(st, started, n, w)
      BY <1>1, <2>2 DEF Claimed, LeaseGranted, NodeStarted, ExecutionStates
    <3>2. granted \in ExecutionStates
      BY <1>1, <2>2, NodeEventsType
    <3> HIDE DEF granted
    <3>3. started \in ExecutionStates
      BY <2>2, <3>2, NodeEventsType
    <3> QED BY <3>1, <3>3
  <2>6. ASSUME NEW x \in ExecutionStates, Claimed(st, x, n, w), NEW purpose \in Purposes, NEW b \in Nat
        PROVE  /\ ScheduleLimit(x, n, purpose, b) \in ExecutionStates
               /\ Claimed(st, ScheduleLimit(x, n, purpose, b), n, w)
    <3>1. Timer(n, purpose, b) \in Timers
      BY <2>2 DEF Timer, Timers
    <3>2. LET y == TimerScheduled(x, Timer(n, purpose, b))
          IN  /\ y \in ExecutionStates
              /\ y.node = x.node /\ y.stack = x.stack /\ y.active = x.active
              /\ y.cancelRequested = x.cancelRequested
      BY <3>1, TimerAndCompensationEventsType DEF TimerScheduled, ExecutionStates
    <3> QED BY <2>6, <3>2 DEF ScheduleLimit, Claimed
  <2> HIDE DEF granted, started
  <2>7. limited \in ExecutionStates /\ Claimed(st, limited, n, w)
    BY <2>2, <2>5, <2>6 DEF Purposes
  <2> HIDE DEF limited
  <2>8. Claimed(st, final, n, w)
    BY <2>6, <2>7 DEF ScheduleAbsoluteDeadline, Purposes
  <2> QED BY <2>2, <2>3, <2>4, <2>5, <2>7, <2>8
<1>4. ASSUME NEW w \in Workers, ClaimCompensationTask(w)
      PROVE  \E i \in DOMAIN st.stack : Handed(st, st', i)
  <2>1. PICK i \in DOMAIN st.stack :
          /\ IsNextCompensation(st, i)
          /\ Commit({}, CompensationTaskStarted(st, st.stack[i].node, w, st.stack[i].attempt + 1))
    BY <1>4 DEF ClaimCompensationTask
  <2> DEFINE n == st.stack[i].node
             a == st.stack[i].attempt + 1
  <2>2. st.stack[i] \in StackEntries /\ n \in Nodes /\ a \in Nat
    <3>1. st.stack[i] \in StackEntries
      BY <1>1, ElementOfSeq, LenProperties DEF ExecutionStates
    <3> QED BY <3>1 DEF StackEntries
  <2>3. DOMAIN st.stack = 1 .. Len(st.stack) /\ Len(st.stack) \in Nat
    BY <1>1, LenProperties DEF ExecutionStates
  <2>4. \A j \in DOMAIN st.stack : IsFirstEntry(st, n, j) <=> j = i
    <3>1. \A j \in 1 .. i - 1 : j \in DOMAIN st.stack /\ j # i
      BY <2>3
    <3> QED BY <3>1 DEF IsFirstEntry, EntriesUnique
  <2>5. st' = CompensationTaskStarted(st, n, w, a)
    BY <2>1 DEF Commit
  <2> DEFINE q == [j \in DOMAIN st.stack |->
                     IF IsFirstEntry(st, n, j) THEN [st.stack[j] EXCEPT !.attempt = a] ELSE st.stack[j]]
             c == [node |-> n, worker |-> w, attempt |-> a]
  <2>6. CompensationTaskStarted(st, n, w, a) = [st EXCEPT !.active = c, !.stack = q]
    BY DEF CompensationTaskStarted, HasEntry
  <2>7. c # NoCompensation /\ c.node = n /\ c.attempt = a
    BY <2>2, DefinitionAssumption DEF Compensations
  <2>8. /\ DOMAIN q = DOMAIN st.stack
        /\ \A j \in DOMAIN st.stack \ {i} : q[j] = st.stack[j]
        /\ q[i] = [st.stack[i] EXCEPT !.attempt = a]
    BY <2>4
  <2>9. q[i].node = n /\ q[i].attempt = a /\ q[i].completed = st.stack[i].completed
    BY <2>2, <2>8 DEF StackEntries
  <2>10. ~st.stack[i].completed /\ ~st.cancelRequested
    BY <1>4, <2>1 DEF IsNextCompensation, IncompleteEntries, ClaimCompensationTask, Claimable
  <2> HIDE DEF q, c
  <2>11. st'.active = c /\ st'.stack = q /\ st'.node = st.node
         /\ st'.cancelRequested = st.cancelRequested
    BY <1>1, <2>5, <2>6 DEF ExecutionStates
  <2> QED BY <2>1, <2>7, <2>8, <2>9, <2>10, <2>11 DEF Handed
<1>5. ASSUME NEW w \in Workers, NEW n \in Nodes, NEW a \in Attempts, NEW spawned \in SpawnRequests,
             CompleteTask(w, n, a, spawned)
      PROVE  Upkept(st, st') \/ Completed(st, st', n)
  <2>1. /\ st.node[n].state = "RUNNING" /\ st.node[n].attempt = a /\ st.node[n].worker = w
        /\ ~st.cancelRequested
    BY <1>5 DEF CompleteTask, Holds
  <2>2. CASE ~ValidSpawn(spawned)
    <3> DEFINE failed == NodeFailed(st, n, w, a)
    <3>1. Commit({failed}, Advance(failed))
      BY <1>5, <2>2 DEF CompleteTask
    <3>2. failed \in P
      BY <1>2, <2>1 DEF ClosedUnderUpkeep, ClosedUnderHandling, ClosedUnderFailure
    <3> HIDE DEF failed, P
    <3>3. st' \in P
      BY <1>2, <3>1, <3>2, ReconcileMoves DEF Commit, ClosedUnderUpkeep
    <3> QED BY <3>3 DEF P
  <2>3. CASE ValidSpawn(spawned)
    <3> DEFINE done  == Done(st, n, w, a)
               ended == NodeCompleted(st, n, w, a, spawned)
    <3>1. st' \in {ended, Advance(ended)}
      BY <1>5, <2>3 DEF CompleteTask, Commit
    <3>2. a \in Nat /\ spawned \in SUBSET Nodes
      BY EngineAssumption DEF Attempts
    <3>3. \A m \in spawned : m \in Nodes \ {n} /\ st.node[m].state = "ABSENT" /\ st.node[m].attempt = 0
      BY <2>1, <2>3, <3>2 DEF ValidSpawn, Present, Known, NodesHold
    <3>4. done \in ExecutionStates
      BY <1>1, <3>2, CompletionParts
    <3>5. /\ done.node[n].state = "COMPLETED" /\ done.node[n].attempt = a /\ done.node[n].worker = w
          /\ \A m \in Nodes \ {n} : done.node[m] = st.node[m]
          /\ done.stack = IF Def[n].compensation = NoActivity THEN st.stack
                          ELSE Append(st.stack, Entry(n))
          /\ done.cancelRequested = st.cancelRequested /\ done.active = st.active
      BY <1>1, <3>2, CompletionParts
    <3>6. ended = MarkReadyNodes(AddNodes(done, spawned))
      BY DEF NodeCompleted, Done, Entry
    <3> HIDE DEF done
    <3> DEFINE added == AddNodes(done, spawned)
    <3>7. /\ added \in ExecutionStates
          /\ \A m \in spawned : added.node[m].state = "PENDING" /\ added.node[m].attempt = 0
          /\ \A m \in Nodes \ spawned : added.node[m] = done.node[m]
          /\ added.stack = done.stack /\ added.active = done.active
          /\ added.cancelRequested = done.cancelRequested
      <4>1. added \in ExecutionStates
        BY <3>4, NodeEventsType
      <4>2. /\ added.node = [m \in Nodes |->
                               IF m \in spawned
                                 THEN [state |-> "PENDING", attempt |-> 0, worker |-> NoWorker]
                                 ELSE done.node[m]]
            /\ added.stack = done.stack /\ added.active = done.active
            /\ added.cancelRequested = done.cancelRequested
        BY <3>4 DEF AddNodes, ExecutionStates
      <4> HIDE DEF added
      <4> QED BY <3>2, <4>1, <4>2
    <3> HIDE DEF added
    <3>8. /\ ended \in ExecutionStates
          /\ \A m \in Nodes : /\ ended.node[m].attempt = added.node[m].attempt
                              /\ \/ ended.node[m] = added.node[m]
                                 \/ added.node[m].state = "PENDING" /\ ended.node[m].state = "READY"
          /\ ended.stack = added.stack /\ ended.active = added.active
          /\ ended.cancelRequested = added.cancelRequested
      <4>1. MarkReadyNodes(added) \in ExecutionStates
        BY <3>7, NodeEventsType
      <4>2. ended = MarkReadyNodes(added)
        BY <3>6 DEF added
      <4> HIDE DEF ended
      <4> QED BY <3>7, <4>1, <4>2 DEF MarkReadyNodes, ExecutionStates, NodeRecords
    <3> HIDE DEF ended
    <3>9. ASSUME NEW m \in Nodes \ {n}
          PROVE  /\ ended.node[m].attempt = st.node[m].attempt
                 /\ ended.node[m].state = "ABSENT" => st.node[m].state = "ABSENT"
                 /\ ended.node[m].state \in {"RUNNING", "COMPLETED"} => ended.node[m] = st.node[m]
                 /\ st.node[m].state \in {"RUNNING", "COMPLETED"} => ended.node[m] = st.node[m]
      <4>1. CASE m \in spawned
        BY <3>3, <3>7, <3>8, <4>1
      <4>2. CASE m \notin spawned
        <5>1. added.node[m] = st.node[m]
          BY <3>5, <3>7, <4>2
        <5> QED BY <3>8, <5>1
      <4> QED BY <4>1, <4>2
    <3>10. n \notin spawned
      BY <3>3
    <3>11. /\ ended.node[n].state = "COMPLETED" /\ ended.node[n].attempt = st.node[n].attempt
           /\ ended.node[n].worker = st.node[n].worker
      BY <2>1, <3>5, <3>7, <3>8, <3>10
    <3>12. /\ Advance(ended).node = ended.node /\ Advance(ended).stack = ended.stack
           /\ Advance(ended).active \in {ended.active, NoCompensation}
           /\ Advance(ended).cancelRequested = ended.cancelRequested
      BY <3>8 DEF Advance, SetRunState, ExecutionStates
    <3>13. /\ st'.node = ended.node /\ st'.stack = ended.stack
           /\ st'.active \in {ended.active, NoCompensation}
           /\ st'.cancelRequested = ended.cancelRequested
      BY <3>1, <3>12
    <3>14. /\ st'.active \in {st.active, NoCompensation}
           /\ st'.cancelRequested = st.cancelRequested
           /\ st'.stack = IF Def[n].compensation = NoActivity THEN st.stack
                         ELSE Append(st.stack, Entry(n))
      BY <3>5, <3>7, <3>8, <3>13
    <3> QED BY <2>1, <3>9, <3>11, <3>13, <3>14 DEF Completed
  <2> QED BY <2>2, <2>3
<1>6. CASE \E w \in Workers : ClaimTask(w)
  BY <1>3, <1>4, <1>6 DEF ClaimTask
<1>7. CASE \E w \in Workers, n \in Nodes, a \in Attempts, spawned \in SpawnRequests :
               CompleteTask(w, n, a, spawned)
  BY <1>5, <1>7
<1>8. CASE /\ ~ \E w \in Workers : ClaimTask(w)
           /\ ~ \E w \in Workers, n \in Nodes, a \in Attempts, spawned \in SpawnRequests :
                  CompleteTask(w, n, a, spawned)
  <2> HIDE DEF P
  <2>1. st' \in P
    BY <1>2, <1>8, UpkeepMoves DEF ClosedUnderUpkeep
  <2> QED BY <2>1 DEF P
<1> QED
  BY <1>6, <1>7, <1>8

-----------------------------------------------------------------------------
(* The compensation stack *)

Compensable(s) == {n \in InState(s, {"COMPLETED"}) : Def[n].compensation # NoActivity}

StackNodes(s) == {s.stack[i].node : i \in DOMAIN s.stack}

ActiveIsEntry(s) ==
    s.active # NoCompensation =>
        \E i \in DOMAIN s.stack :
            /\ s.stack[i].node = s.active.node
            /\ s.stack[i].attempt = s.active.attempt
            /\ ~s.stack[i].completed

LedgeredRun ==
    /\ st \in Known
    /\ EntriesUnique(st)
    /\ StackNodes(st) = Compensable(st)
    /\ ActiveIsEntry(st)

(* The compensation stack is the ledger of completed compensable work, in  *)
(* every workflow: each such node has one entry and no other has one.  The *)
(* stack and the completed nodes stay in step, whatever kind of step is    *)
(* taken: a node has no entry before it completes, and one after.          *)
THEOREM StackIsALedger == Spec => [](LedgeredRun /\ StackIsLedger)
<1>1. Init => LedgeredRun
  BY TypesClosed, EmptySeq
  DEF Init, New, LedgeredRun, Known, Sound, NodesHold, Present, EntriesUnique, StackNodes,
      Compensable, InState, ActiveIsEntry
<1>2. LedgeredRun /\ [Next]_vars => LedgeredRun'
  <2> SUFFICES ASSUME LedgeredRun, [Next]_vars PROVE LedgeredRun'
    OBVIOUS
  <2> USE DEF LedgeredRun
  <2>1. st' \in Sound
    BY SoundClosed, StepsAreMoves DEF Known, Sound
  <2>2. /\ st.stack \in Seq(StackEntries)
        /\ Len(st.stack) \in Nat /\ DOMAIN st.stack = 1 .. Len(st.stack)
    BY LenProperties DEF Known, Sound, ExecutionStates
  <2>3. \A s : s \in Known <=> s \in Sound /\ NodesHold(s)
    BY DEF Known
  <2>4. CASE Upkept(st, st')
    <3>1. NodesHold(st')
      BY <2>3, <2>4 DEF NodesHold, Upkept, NodesUpkept
    <3>2. EntriesUnique(st') /\ StackNodes(st') = StackNodes(st)
      BY <2>4 DEF EntriesUnique, StackNodes, Upkept
    <3>3. Compensable(st') = Compensable(st)
      BY <2>4 DEF Compensable, InState, Upkept, NodesUpkept
    <3>4. ActiveIsEntry(st')
      BY <2>4 DEF ActiveIsEntry, Upkept
    <3> QED BY <2>1, <2>3, <3>1, <3>2, <3>3, <3>4
  <2>5. ASSUME NEW n \in Nodes, NEW w \in Workers, Claimed(st, st', n, w) PROVE LedgeredRun'
    <3>1. NodesHold(st')
      BY <2>3, <2>5 DEF NodesHold, Claimed
    <3>2. EntriesUnique(st') /\ StackNodes(st') = StackNodes(st) /\ ActiveIsEntry(st')
      BY <2>5 DEF EntriesUnique, StackNodes, ActiveIsEntry, Claimed
    <3>3. Compensable(st') = Compensable(st)
      BY <2>5 DEF Compensable, InState, Claimed
    <3> QED BY <2>1, <2>3, <3>1, <3>2, <3>3
  <2>6. ASSUME NEW i \in DOMAIN st.stack, Handed(st, st', i) PROVE LedgeredRun'
    <3>1. NodesHold(st') /\ Compensable(st') = Compensable(st)
      BY <2>3, <2>6 DEF NodesHold, Compensable, InState, Handed
    <3>2. /\ DOMAIN st'.stack = DOMAIN st.stack
          /\ \A j \in DOMAIN st.stack : st'.stack[j].node = st.stack[j].node
      BY <2>6 DEF Handed
    <3>3. EntriesUnique(st') /\ StackNodes(st') = StackNodes(st)
      BY <3>2 DEF EntriesUnique, StackNodes
    <3>4. ActiveIsEntry(st')
      BY <2>6 DEF ActiveIsEntry, Handed
    <3> QED BY <2>1, <2>3, <3>1, <3>3, <3>4
  <2>7. ASSUME NEW n \in Nodes, Completed(st, st', n) PROVE LedgeredRun'
    <3>1. NodesHold(st')
      BY <2>3, <2>7 DEF NodesHold, Completed
    <3>2. InState(st', {"COMPLETED"}) = InState(st, {"COMPLETED"}) \cup {n}
          /\ n \notin InState(st, {"COMPLETED"})
      BY <2>7 DEF InState, Completed
    <3>3. CASE Def[n].compensation = NoActivity
      <4>1. st'.stack = st.stack /\ st'.active \in {st.active, NoCompensation}
        BY <2>7, <3>3 DEF Completed
      <4>2. Compensable(st') = Compensable(st)
        BY <3>2, <3>3 DEF Compensable
      <4> QED BY <2>1, <2>3, <3>1, <4>1, <4>2 DEF EntriesUnique, StackNodes, ActiveIsEntry
    <3>4. CASE Def[n].compensation # NoActivity
      <4>1. st'.stack = Append(st.stack, Entry(n)) /\ st'.active \in {st.active, NoCompensation}
        BY <2>7, <3>4 DEF Completed
      <4>2. /\ Entry(n).node = n /\ Entry(n) \in StackEntries
        BY DEF Entry, StackEntries
      <4>3. /\ DOMAIN st'.stack = 1 .. Len(st.stack) + 1
            /\ \A i \in DOMAIN st.stack : st'.stack[i] = st.stack[i]
            /\ st'.stack[Len(st.stack) + 1] = Entry(n)
        BY <2>2, <4>1, <4>2, AppendProperties
      <4>4. n \notin StackNodes(st)
        BY <3>2 DEF Compensable
      <4>5. EntriesUnique(st')
        BY <2>2, <4>2, <4>3, <4>4, SMTT(30) DEF EntriesUnique, StackNodes
      <4>6. StackNodes(st') = StackNodes(st) \cup {n}
        BY <2>2, <4>2, <4>3 DEF StackNodes
      <4>7. Compensable(st') = Compensable(st) \cup {n}
        BY <3>2, <3>4 DEF Compensable
      <4>8. ActiveIsEntry(st')
        BY <2>2, <4>1, <4>3 DEF ActiveIsEntry
      <4> QED BY <2>1, <2>3, <3>1, <4>5, <4>6, <4>7, <4>8
    <3> QED BY <3>3, <3>4
  <2> QED BY <2>4, <2>5, <2>6, <2>7, StepKinds
<1>3. LedgeredRun => StackIsLedger
  BY DEF LedgeredRun, StackIsLedger, EntriesUnique, StackNodes, Compensable
<1> QED
  BY <1>1, <1>2, <1>3, PTL DEF Spec

(* The active compensation is always an entry not yet completed, on its    *)
(* latest attempt.                                                         *)
THEOREM ActiveCompensationIsSound == Spec => []ActiveCompensationSound
<1>1. LedgeredRun => ActiveCompensationSound
  BY DEF LedgeredRun, ActiveCompensationSound, ActiveIsEntry
<1> QED
  BY <1>1, StackIsALedger, PTL

-----------------------------------------------------------------------------
(* What no step does *)

(* A completion is settled: its node and its entry stay what they are.     *)
THEOREM CompletionsAreFinal == Spec => CompletionIsFinal
<1> DEFINE Settled ==
             /\ \A n \in InState(st, {"COMPLETED"}) : st'.node[n] = st.node[n]
             /\ \A i \in DOMAIN st.stack :
                    /\ i \in DOMAIN st'.stack
                    /\ st'.stack[i].node = st.stack[i].node
                    /\ st.stack[i].completed => st'.stack[i] = st.stack[i]
<1>1. LedgeredRun /\ [Next]_vars => Settled
  <2> SUFFICES ASSUME LedgeredRun, [Next]_vars PROVE Settled
    OBVIOUS
  <2>1. /\ st.stack \in Seq(StackEntries)
        /\ Len(st.stack) \in Nat /\ DOMAIN st.stack = 1 .. Len(st.stack)
    BY LenProperties DEF LedgeredRun, Known, Sound, ExecutionStates
  <2>2. CASE Upkept(st, st')
    BY <2>2 DEF Upkept, NodesUpkept, InState
  <2>3. ASSUME NEW n \in Nodes, NEW w \in Workers, Claimed(st, st', n, w) PROVE Settled
    BY <2>3 DEF Claimed, InState
  <2>4. ASSUME NEW i \in DOMAIN st.stack, Handed(st, st', i) PROVE Settled
    BY <2>4 DEF Handed, InState, IsNextCompensation, IncompleteEntries
  <2>5. ASSUME NEW n \in Nodes, Completed(st, st', n) PROVE Settled
    <3>1. \A i \in DOMAIN st.stack : i \in DOMAIN st'.stack /\ st'.stack[i] = st.stack[i]
      <4>1. Entry(n) \in StackEntries
        BY DEF Entry, StackEntries
      <4> QED BY <2>1, <2>5, <4>1, AppendProperties DEF Completed
    <3> QED BY <2>5, <3>1 DEF Completed, InState
  <2> QED BY <2>2, <2>3, <2>4, <2>5, StepKinds DEF LedgeredRun
<1>2. LedgeredRun /\ [Next]_vars => [Settled]_vars
  BY <1>1
<1> QED
  BY <1>2, StackIsALedger, PTL DEF Spec, CompletionIsFinal

(* After a cancellation request no node and no compensation gets a new     *)
(* attempt, and the request stands.                                        *)
THEOREM CancellationStopsDispatch == Spec => NothingDispatchedAfterCancel
<1> DEFINE Stopped == st.cancelRequested =>
             /\ st'.cancelRequested
             /\ \A n \in Nodes : st'.node[n].attempt = st.node[n].attempt
             /\ st'.active \in {st.active, NoCompensation}
<1>1. LedgeredRun /\ [Next]_vars => [Stopped]_vars
  <2> SUFFICES ASSUME LedgeredRun, [Next]_vars PROVE Stopped
    OBVIOUS
  <2>1. CASE Upkept(st, st')
    BY <2>1 DEF Upkept, NodesUpkept
  <2> QED BY <2>1, StepKinds DEF LedgeredRun, Claimed, Handed, Completed
<1> QED
  BY <1>1, StackIsALedger, PTL DEF Spec, NothingDispatchedAfterCancel

(* A node starts running only from READY and on an attempt number it never *)
(* had.                                                                    *)
THEOREM StartsAreNewAttempts == Spec => EveryStartIsANewAttempt
<1> DEFINE Fresh == \A n \in Nodes :
             st'.node[n].state = "RUNNING" /\ st'.node[n] # st.node[n] =>
                 /\ st.node[n].state = "READY"
                 /\ st'.node[n].attempt > st.node[n].attempt
<1>1. LedgeredRun /\ [Next]_vars => [Fresh]_vars
  <2> SUFFICES ASSUME LedgeredRun, [Next]_vars PROVE Fresh
    OBVIOUS
  <2>1. CASE Upkept(st, st')
    BY <2>1 DEF Upkept, NodesUpkept
  <2>2. ASSUME NEW n \in Nodes, NEW w \in Workers, Claimed(st, st', n, w) PROVE Fresh
    <3>1. st.node[n].attempt \in Nat
      BY DEF LedgeredRun, Known, Sound, ExecutionStates, NodeRecords
    <3> QED BY <2>2, <3>1 DEF Claimed
  <2>3. CASE \E n \in Nodes : Completed(st, st', n)
    BY <2>3 DEF Completed
  <2> QED BY <2>1, <2>2, <2>3, StepKinds DEF LedgeredRun, Handed
<1> QED
  BY <1>1, StackIsALedger, PTL DEF Spec, EveryStartIsANewAttempt

(* Compensation runs one entry at a time, newest first.                    *)
THEOREM CompensationRunsLIFO == Spec => CompensationIsLIFO
<1> DEFINE Lifo ==
             st'.active # st.active /\ st'.active # NoCompensation =>
                 /\ st.active = NoCompensation
                 /\ \A i \in DOMAIN st.stack :
                     st.stack[i].node = st'.active.node =>
                         \A j \in i + 1 .. Len(st.stack) : st.stack[j].completed
<1>1. LedgeredRun /\ [Next]_vars => [Lifo]_vars
  <2> SUFFICES ASSUME LedgeredRun, [Next]_vars PROVE Lifo
    OBVIOUS
  <2>1. ASSUME NEW i \in DOMAIN st.stack, Handed(st, st', i) PROVE Lifo
    <3>1. Len(st.stack) \in Nat /\ DOMAIN st.stack = 1 .. Len(st.stack)
      BY LenProperties DEF LedgeredRun, Known, Sound, ExecutionStates
    <3>2. \A k \in DOMAIN st.stack : st.stack[k].node = st'.active.node => k = i
      BY <2>1 DEF LedgeredRun, EntriesUnique, Handed
    <3>3. \A j \in i + 1 .. Len(st.stack) : st.stack[j].completed
      BY <2>1, <3>1 DEF Handed, IsNextCompensation, IncompleteEntries
    <3> QED BY <2>1, <3>2, <3>3 DEF Handed, IsNextCompensation
  <2> QED BY <2>1, StepKinds DEF LedgeredRun, Upkept, Claimed, Completed
<1> QED
  BY <1>1, StackIsALedger, PTL DEF Spec, CompensationIsLIFO

-----------------------------------------------------------------------------
(* Refinement *)

(* What a state shows of the ledger of leases.                             *)
Holder(s)  == [n \in Nodes |-> IF s.node[n].state = "RUNNING" THEN s.node[n].worker ELSE NoWorker]
Attempt(s) == [n \in Nodes |-> s.node[n].attempt]
DoneBy(s)  == [n \in Nodes |-> IF s.node[n].state = "COMPLETED" THEN s.node[n].worker ELSE NoWorker]

(* The engine implements the ledger of leases: a claim grants a lease or   *)
(* forfeits an attempt, an accepted report is the holder's and completes   *)
(* its task, and all upkeep is the release of leases.                      *)
THEOREM EngineImplementsLedger == Spec => ImplementsLedger
<1> USE DEF Holder, Attempt, DoneBy
<1>1. Init => Ledger!Init
  BY DEF Init, New, Ledger!Init
<1>2. LedgeredRun /\ [Next]_vars => [Ledger!Next]_(Ledger!ledger)
  <2> SUFFICES ASSUME LedgeredRun, [Next]_vars PROVE Ledger!Next \/ UNCHANGED Ledger!ledger
    OBVIOUS
  <2>1. \A n \in Nodes : st.node[n].state = "RUNNING" => st.node[n].worker # NoWorker
    BY DefinitionAssumption DEF LedgeredRun, Known, NodesHold
  <2>2. CASE Upkept(st, st')
    <3>1. PICK S \in SUBSET Nodes :
            S = {n \in Nodes : st.node[n].state = "RUNNING" /\ st'.node[n].state # "RUNNING"}
      OBVIOUS
    <3>2. \A n \in S : Holder(st)[n] # NoWorker
      BY <2>1, <3>1
    <3>3. Holder(st') = [n \in Nodes |-> IF n \in S THEN NoWorker ELSE Holder(st)[n]]
      BY <2>2, <3>1 DEF Upkept, NodesUpkept
    <3>4. Attempt(st') = Attempt(st)
      BY <2>2 DEF Upkept, NodesUpkept
    <3>5. DoneBy(st') = DoneBy(st)
      BY <2>2 DEF Upkept, NodesUpkept
    <3>6. Ledger!Release(S)
      BY <3>2, <3>3, <3>4, <3>5 DEF Ledger!Release
    <3> QED BY <3>6 DEF Ledger!Next
  <2>3. ASSUME NEW n \in Nodes, NEW w \in Workers, Claimed(st, st', n, w) PROVE Ledger!Next
    <3>1. DoneBy(st)[n] = NoWorker /\ DoneBy(st') = DoneBy(st)
      BY <2>3 DEF Claimed
    <3>2. Holder(st)[n] = NoWorker
      BY <2>3 DEF Claimed
    <3>3. Attempt(st') = [Attempt(st) EXCEPT ![n] = @ + 1]
      BY <2>3 DEF Claimed
    <3>4. CASE st'.node[n].state = "RUNNING"
      <4>1. Holder(st') = [Holder(st) EXCEPT ![n] = w]
        BY <2>3, <3>4 DEF Claimed
      <4>2. Ledger!Grant(n)
        BY <3>1, <3>2, <3>3, <4>1 DEF Ledger!Grant
      <4> QED BY <4>2 DEF Ledger!Next
    <3>5. CASE st'.node[n].state = "READY"
      <4>1. Holder(st') = Holder(st)
        BY <2>3, <3>5 DEF Claimed
      <4>2. Ledger!Forfeit(n)
        BY <3>1, <3>2, <3>3, <4>1 DEF Ledger!Forfeit
      <4> QED BY <4>2 DEF Ledger!Next
    <3> QED BY <2>3, <3>4, <3>5 DEF Claimed
  <2>4. ASSUME NEW i \in DOMAIN st.stack, Handed(st, st', i) PROVE UNCHANGED Ledger!ledger
    BY <2>4 DEF Handed, Ledger!ledger
  <2>5. ASSUME NEW n \in Nodes, Completed(st, st', n) PROVE Ledger!Next
    <3>1. Holder(st)[n] # NoWorker
      BY <2>1, <2>5 DEF Completed
    <3>2. Holder(st') = [Holder(st) EXCEPT ![n] = NoWorker]
      BY <2>5 DEF Completed
    <3>3. Attempt(st') = Attempt(st)
      BY <2>5 DEF Completed
    <3>4. DoneBy(st') = [DoneBy(st) EXCEPT ![n] = Holder(st)[n]]
      BY <2>5 DEF Completed
    <3>5. Ledger!Complete(n)
      BY <3>1, <3>2, <3>3, <3>4 DEF Ledger!Complete
    <3> QED BY <3>5 DEF Ledger!Next
  <2> QED BY <2>2, <2>3, <2>4, <2>5, StepKinds DEF LedgeredRun
<1> QED
  BY <1>1, <1>2, StackIsALedger, PTL DEF Spec, ImplementsLedger, Ledger!Spec

(* A timer left over from an earlier attempt does nothing to its node: no  *)
(* handler but a pass of the timer monitor uses timers up, and within a    *)
(* pass a stale deadline changes nothing, whatever fires before it.        *)
THEOREM StaleTimersDoNothing == Spec => StaleTimersAreHarmless
<1> DEFINE Stale(t, n) == /\ t.purpose \in {"node_exec_deadline", "checkpoint_timeout"}
                          /\ t.attempt # st.node[n].attempt
           Firing(n) == {t \in st.pending \ st'.pending : t.node = n}
           Spared(s, n) == s.node[n].state \in {st.node[n].state, "CANCELLED"}
           Harmless(n) == (Firing(n) # {} /\ \A t \in Firing(n) : Stale(t, n)) => Spared(st', n)
           Pass == FireDueTimers \/ FireDueTimersLosingTimeouts
<1>1. ASSUME TypeOK, [Next]_vars, ~Pass PROVE st.pending \subseteq st'.pending
  <2> DEFINE Keeping == {s \in ExecutionStates : st.pending \subseteq s.pending}
  <2>1. Keeping \in SUBSET ExecutionStates /\ st \in Keeping
    BY <1>1 DEF TypeOK
  <2>2. \A s \in Keeping, x \in ExecutionStates : s.pending \subseteq x.pending => x \in Keeping
    OBVIOUS
  <2>3. ASSUME NEW s \in ExecutionStates
        PROVE  /\ WorkflowStarted(s).pending = s.pending
               /\ Advance(s).pending = s.pending
               /\ CancellationRequested(s).pending = s.pending
               /\ CompensationReleased(s).pending = s.pending
               /\ SetRunState(CompensationReleased(s), "FAILED").pending = s.pending
               /\ \A n : CompensationTaskCompleted(s, n).pending = s.pending
               /\ \A ids : /\ CancelNodes(s, ids).pending = s.pending
                           /\ ExpireLeases(s, ids).pending = s.pending
               /\ \A n, to : Release(s, n, to).pending = s.pending
               /\ \A t : s.pending \subseteq TimerScheduled(s, t).pending
               /\ \A n, w, a : /\ LeaseGranted(s, n, w, a).pending = s.pending
                               /\ NodeStarted(LeaseGranted(s, n, w, a), n, w, a).pending = s.pending
                               /\ NodeFailed(s, n, w, a).pending = s.pending
                               /\ CompensationTaskStarted(s, n, w, a).pending = s.pending
    BY DEF ExecutionStates, WorkflowStarted, MarkReadyNodes, AddNodes, Advance, SetRunState,
           CancellationRequested, CompensationReleased, CompensationTaskCompleted, CancelNodes,
           ExpireLeases, Release, TimerScheduled, LeaseGranted, NodeStarted, NodeFailed,
           CompensationTaskStarted
  <2>4. ASSUME NEW s \in ExecutionStates, NEW n, NEW w, NEW a, NEW spawned
        PROVE  NodeCompleted(s, n, w, a, spawned).pending = s.pending
    BY DEF ExecutionStates, NodeCompleted, MarkReadyNodes, AddNodes
  <2>5. ASSUME NEW s \in ExecutionStates, NEW n, NEW w, NEW a, NEW t
        PROVE  s.pending \subseteq TimerScheduled(NodeFailed(s, n, w, a), t).pending
    BY DEF ExecutionStates, TimerScheduled, NodeFailed
  <2>6. Keeping \in SUBSET ExecutionStates /\ Closed(ExecutionStates)
    BY TypesClosed
  <2> HIDE DEF Keeping
  <2>7. ClosedUnderHandling(Keeping)
    <3>1. ClosedUnderStart(Keeping) /\ ClosedUnderAdvance(Keeping) /\ ClosedUnderScheduling(Keeping)
      BY <2>2, <2>3, <2>6
      DEF Closed, ClosedUnderUpkeep, ClosedUnderHandling, ClosedUnderStart, ClosedUnderAdvance,
          ClosedUnderScheduling
    <3>2. ClosedUnderFailure(Keeping)
      BY <2>2, <2>3, <2>5, <2>6 DEF Closed, ClosedUnderUpkeep, ClosedUnderHandling, ClosedUnderFailure
    <3>3. ClosedUnderRelease(Keeping)
      BY <2>2, <2>3, <2>6 DEF Closed, ClosedUnderUpkeep, ClosedUnderHandling, ClosedUnderRelease
    <3>4. ClosedUnderCancellation(Keeping) /\ ClosedUnderCompensation(Keeping)
      BY <2>2, <2>3, <2>6
      DEF Closed, ClosedUnderUpkeep, ClosedUnderHandling, ClosedUnderCancellation,
          ClosedUnderCompensation
    <3> QED BY <3>1, <3>2, <3>3, <3>4 DEF ClosedUnderHandling
  <2>8. ClosedUnderClaims(Keeping) /\ ClosedUnderHandout(Keeping)
    BY <2>2, <2>3, <2>6 DEF Closed, ClosedUnderClaims, ClosedUnderHandout
  <2>9. ClosedUnderCompletion(Keeping)
    BY <2>2, <2>4, <2>6 DEF Closed, ClosedUnderCompletion
  <2>10. ASSUME NEW w \in Workers, ClaimTask(w) PROVE st' \in Keeping
    BY <2>1, <2>6, <2>7, <2>8, <2>10, ClaimMoves
  <2>11. ASSUME NEW w \in Workers, NEW n \in Nodes, NEW a \in Attempts,
                NEW spawned \in SpawnRequests, CompleteTask(w, n, a, spawned)
         PROVE  st' \in Keeping
    BY <2>1, <2>6, <2>7, <2>9, <2>11, ReportMoves DEF Report
  <2>12. st' \in Keeping
    BY <1>1, <2>1, <2>6, <2>7, <2>10, <2>11, UpkeepMoves
  <2> QED BY <2>12 DEF Keeping
<1>2. ASSUME TypeOK, Pass, NEW n \in Nodes PROVE Harmless(n)
  <2> DEFINE Fresh(s) == \E t \in st.pending \ s.pending : t.node = n /\ ~Stale(t, n)
             Same(s) == s.node[n].attempt = st.node[n].attempt /\ Spared(s, n)
             Between == {s \in ExecutionStates :
                           s.pending \subseteq st.pending /\ (Fresh(s) \/ Same(s))}
  <2>1. st \in Between
    BY <1>2 DEF TypeOK
  <2>2. ASSUME NEW s \in Between
        PROVE  /\ Advance(s) \in Between
               /\ s.cancelRequested /\ ~IsTerminal(s) =>
                    \A ids \in SUBSET Undispatched(s) : CancelNodes(s, ids) \in Between
    <3>1. Advance(s) \in ExecutionStates
      BY TypesClosed DEF Closed, ClosedUnderUpkeep, ClosedUnderHandling, ClosedUnderAdvance
    <3>2. Advance(s).node = s.node /\ Advance(s).pending = s.pending
      BY DEF ExecutionStates, Advance, SetRunState
    <3>3. ASSUME s.cancelRequested, ~IsTerminal(s), NEW ids \in SUBSET Undispatched(s)
          PROVE  CancelNodes(s, ids) \in Between
      <4>1. CancelNodes(s, ids) \in ExecutionStates
        BY <3>3, TypesClosed
        DEF Closed, ClosedUnderUpkeep, ClosedUnderHandling, ClosedUnderCancellation
      <4>2. /\ CancelNodes(s, ids).pending = s.pending
            /\ CancelNodes(s, ids).node[n].attempt = s.node[n].attempt
            /\ CancelNodes(s, ids).node[n].state \in {s.node[n].state, "CANCELLED"}
        BY DEF ExecutionStates, NodeRecords, CancelNodes
      <4> QED BY <4>1, <4>2
    <3> QED BY <3>1, <3>2, <3>3
  <2>3. ASSUME NEW s \in Between, NEW t \in s.pending, ~IsTerminal(s)
        PROVE  /\ TimerFired(s, t) \in Between
               /\ ShouldFailNode(TimerFired(s, t), t) =>
                    TimeOutNode(TimerFired(s, t), t.node) \in Between
    <3> DEFINE fired == TimerFired(s, t)
               out   == TimeOutNode(fired, t.node)
    <3>1. t \in Timers /\ t.node \in Nodes /\ s \in ExecutionStates /\ t \in st.pending
      BY DEF ExecutionStates, Timers
    <3>2. fired \in ExecutionStates
      BY <2>3, TypesClosed DEF Closed, ClosedUnderUpkeep, ClosedUnderFiring
    <3>3. /\ fired.pending = s.pending \ {t}
          /\ fired.node[n].attempt = s.node[n].attempt
          /\ t.node # n \/ t.purpose # "retry_backoff" => fired.node[n] = s.node[n]
      BY <3>1 DEF TimerFired, Release, ExecutionStates, NodeRecords
    <3>4. Fresh(s) => Fresh(fired)
      BY <3>3
    <3>5. t.node = n /\ ~Stale(t, n) => Fresh(fired)
      BY <3>1, <3>3
    <3>6. Same(s) => Fresh(fired) \/ Same(fired)
      BY <3>3, <3>5
    <3>7. fired \in Between
      BY <3>2, <3>3, <3>4, <3>6
    <3> HIDE DEF fired
    <3>8. ASSUME ShouldFailNode(fired, t) PROVE out \in Between
      <4>1. out \in ExecutionStates
        BY <3>1, <3>2, <3>8, TypesClosed
        DEF ShouldFailNode, TimeOutNode, Closed, ClosedUnderUpkeep, ClosedUnderHandling,
            ClosedUnderFailure
      <4>2. out.pending = fired.pending /\ (t.node # n => out.node[n] = fired.node[n])
        BY <3>1, <3>2 DEF TimeOutNode, NodeFailed, ExecutionStates
      <4>3. t.node = n /\ Same(fired) => ~Stale(t, n)
        BY <3>8 DEF ShouldFailNode
      <4> HIDE DEF out
      <4> QED BY <3>5, <3>7, <4>1, <4>2, <4>3
    <3> QED BY <3>7, <3>8 DEF fired
  <2>4. Between \in SUBSET ExecutionStates
    OBVIOUS
  <2> HIDE DEF Between
  <2>5. ASSUME NEW s \in Between PROVE Reconcile(s) \in Between /\ ReconcileCuts(s) \subseteq Between
    <3>1. Reconcile(s) \in Between
      BY <2>2 DEF Reconcile, CancelEligibleNodes
    <3>2. ReconcileCuts(s) \subseteq Between
      BY <2>2 DEF ReconcileCuts, CancelCuts
    <3> QED BY <3>1, <3>2
  <2>6. ASSUME NEW s \in Between, NEW t \in s.pending, NEW timedOut \in BOOLEAN
        PROVE  /\ FireTimer(s, t, timedOut) \in Between
               /\ FireTimerCuts(s, t) \subseteq Between
               /\ s.pending \ {t} \subseteq FireTimer(s, t, timedOut).pending
    <3>1. FireTimer(s, t, timedOut) \in Between
      BY <2>3, <2>5 DEF FireTimer
    <3>2. FireTimerCuts(s, t) \subseteq Between
      BY <2>3, <2>5 DEF FireTimerCuts
    <3>3. s.pending \ {t} \subseteq FireTimer(s, t, timedOut).pending
      <4>1. s \in ExecutionStates /\ ClosedUnderUpkeep(ExecutionStates)
        BY <2>4, TypesClosed DEF Closed
      <4> QED BY <4>1, FireTimerMoves
    <3> QED BY <3>1, <3>2, <3>3
  <2>7. st' \in Between
    BY <1>2, <2>1, <2>5, <2>6, PassMoves
  <2> QED BY <2>7 DEF Between
<1>3. TypeOK /\ [Next]_vars => [\A n \in Nodes : Harmless(n)]_vars
  BY <1>1, <1>2
<1>4. (\A n \in Nodes : Harmless(n)) =>
        \A n \in Nodes :
            LET firing == {t \in st.pending \ st'.pending : t.node = n}
            IN  /\ firing # {}
                /\ \A t \in firing : /\ t.purpose \in {"node_exec_deadline", "checkpoint_timeout"}
                                     /\ t.attempt # st.node[n].attempt
                => st'.node[n].state \in {st.node[n].state, "CANCELLED"}
  OBVIOUS
<1> QED
  BY <1>3, <1>4, TypeCorrect, PTL DEF Spec, StaleTimersAreHarmless

-----------------------------------------------------------------------------
(* The outcome of the run *)

Outcome(s) ==
    /\ s.runState = "COMPLETED" => AllNodesCompleted(s)
    /\ s.runState = "CANCELLED" => s.cancelRequested /\ AllNodesTerminal(s)
    /\ s.runState \in {"FAILED", "COMPENSATING", "COMPENSATED"} => HasUnrecoveredFailure(s)

(* A compensation is active only after a failure nothing will recover.     *)
Justified ==
    {s \in Sound : Outcome(s) /\ (s.active # NoCompensation => HasUnrecoveredFailure(s))}

Unrecovered(s) ==
    {n \in InState(s, {"FAILED"}) : ~HasPendingRetryTimer(s, n, s.node[n].attempt)}

(* The outcome is one the nodes justify, for as long as it stands.  A      *)
(* failure without a retry timer is for good: only a running node can fail *)
(* with one, and nothing else makes a failed node ready again.             *)
THEOREM OutcomesAreJustified == Spec => []OutcomeJustified
<1>1. Justified \subseteq Sound /\ Sound \subseteq ExecutionStates
  BY DEF Justified, Sound
<1>2. \A s : HasUnrecoveredFailure(s) <=> Unrecovered(s) # {}
  BY DEF HasUnrecoveredFailure, Unrecovered
<1>3. \A s \in Justified : s.runState \in {"COMPLETED", "CANCELLED"} =>
        \A n \in Nodes : s.node[n].state \in {"ABSENT", "COMPLETED", "FAILED", "CANCELLED"}
  BY DEF Justified, Outcome, AllNodesCompleted, AllNodesTerminal, AllNodesIn, TerminalNodeStates, Present
<1>4. ASSUME NEW s \in Justified, NEW x \in Sound, x.runState = s.runState,
             x.active \in {s.active, NoCompensation}, s.cancelRequested => x.cancelRequested,
             Unrecovered(s) \subseteq Unrecovered(x),
             s.runState \in {"COMPLETED", "CANCELLED"} => x.node = s.node
      PROVE  x \in Justified
  <2>1. HasUnrecoveredFailure(s) => HasUnrecoveredFailure(x)
    BY <1>2, <1>4
  <2>2. x.node = s.node => /\ AllNodesCompleted(s) => AllNodesCompleted(x)
                           /\ AllNodesTerminal(s) => AllNodesTerminal(x)
    BY DEF AllNodesCompleted, AllNodesTerminal, AllNodesIn, Present
  <2>3. Outcome(x)
    BY <1>4, <2>1, <2>2 DEF Justified, Outcome
  <2> QED BY <1>4, <2>1, <2>3 DEF Justified
<1>5. ASSUME NEW s \in Sound, NEW x \in Sound, RetryTimers(x) \subseteq RetryTimers(s),
             \A n \in Nodes : s.node[n].state = "FAILED" => x.node[n] = s.node[n]
      PROVE  Unrecovered(s) \subseteq Unrecovered(x)
  BY <1>5 DEF Unrecovered, InState, HasPendingRetryTimer, RetryTimers, Timer
<1>6. ClosedUnderStart(Justified)
  <2> SUFFICES ASSUME NEW s \in Justified, s.runState = "NONE" PROVE WorkflowStarted(s) \in Justified
    BY DEF ClosedUnderStart
  <2>1. WorkflowStarted(s) \in Sound
    BY <1>1, SoundClosed DEF Closed, ClosedUnderUpkeep, ClosedUnderHandling, ClosedUnderStart
  <2>2. s.active = NoCompensation
    BY DEF Justified, Sound, Present, HasUnrecoveredFailure, InState
  <2>3. WorkflowStarted(s).runState = "RUNNING" /\ WorkflowStarted(s).active = s.active
    BY <1>1 DEF WorkflowStarted, AddNodes, MarkReadyNodes, ExecutionStates
  <2> QED BY <2>1, <2>2, <2>3 DEF Justified, Outcome
<1>7. ClosedUnderClaims(Justified)
  <2> SUFFICES ASSUME NEW s \in Justified, NEW n \in Nodes, s.node[n].state = "READY", NEW w, NEW a,
                      NEW x \in Sound,
                      \/ x = LeaseGranted(s, n, w, a)
                      \/ x = NodeStarted(LeaseGranted(s, n, w, a), n, w, a)
               PROVE  x \in Justified
    BY <1>1, SoundClosed DEF Closed, ClosedUnderClaims
  <2>1. /\ x.runState = s.runState /\ x.active = s.active /\ x.cancelRequested = s.cancelRequested
        /\ x.pending = s.pending /\ \A m \in Nodes \ {n} : x.node[m] = s.node[m]
    <3>1. CASE x = LeaseGranted(s, n, w, a)
      BY <1>1, <3>1 DEF LeaseGranted, ExecutionStates
    <3>2. CASE x = NodeStarted(LeaseGranted(s, n, w, a), n, w, a)
      BY <1>1, <3>2 DEF LeaseGranted, NodeStarted, ExecutionStates
    <3> QED BY <3>1, <3>2
  <2>2. Unrecovered(s) \subseteq Unrecovered(x)
    BY <1>1, <1>5, <2>1 DEF RetryTimers
  <2> QED BY <1>3, <1>4, <2>1, <2>2
<1>8. ClosedUnderCompletion(Justified)
  <2> SUFFICES ASSUME NEW s \in Justified, NEW n \in Nodes, NEW spawned \in SUBSET Nodes,
                      s.node[n].state = "RUNNING", spawned \cap Present(s) = {}, NEW w, NEW a,
                      NodeCompleted(s, n, w, a, spawned) \in Sound
               PROVE  NodeCompleted(s, n, w, a, spawned) \in Justified
    BY <1>1, SoundClosed DEF Closed, ClosedUnderCompletion
  <2> DEFINE x == NodeCompleted(s, n, w, a, spawned)
  <2>1. /\ x.runState = s.runState /\ x.active = s.active /\ x.cancelRequested = s.cancelRequested
        /\ x.pending = s.pending
    BY <1>1 DEF NodeCompleted, AddNodes, MarkReadyNodes, ExecutionStates
  <2>2. ASSUME NEW m \in Nodes, s.node[m].state = "FAILED" PROVE x.node[m] = s.node[m]
    <3>1. m # n /\ m \notin spawned
      BY <2>2 DEF Present
    <3> QED BY <1>1, <2>2, <3>1 DEF NodeCompleted, AddNodes, MarkReadyNodes, ExecutionStates
  <2> HIDE DEF x
  <2>3. Unrecovered(s) \subseteq Unrecovered(x)
    BY <1>1, <1>5, <2>1, <2>2 DEF RetryTimers, x
  <2> QED BY <1>3, <1>4, <2>1, <2>3 DEF x
<1>9. ClosedUnderFailure(Justified)
  <2>1. ASSUME NEW s \in Justified, NEW n \in Nodes, NEW w, NEW a,
               s.node[n].state \in {"READY", "RUNNING", "AWAITING_APPROVAL"},
               NEW x \in Sound,
               \/ x = NodeFailed(s, n, w, a)
               \/ x = TimerScheduled(NodeFailed(s, n, w, a), Timer(n, "retry_backoff", a))
        PROVE  x \in Justified
    <3>1. /\ x.runState = s.runState /\ x.active = s.active /\ x.cancelRequested = s.cancelRequested
          /\ x.pending \subseteq s.pending \cup {Timer(n, "retry_backoff", a)}
          /\ \A m \in Nodes \ {n} : x.node[m] = s.node[m]
      <4>1. CASE x = NodeFailed(s, n, w, a)
        BY <1>1, <4>1 DEF NodeFailed, ExecutionStates
      <4>2. CASE x = TimerScheduled(NodeFailed(s, n, w, a), Timer(n, "retry_backoff", a))
        BY <1>1, <4>2 DEF NodeFailed, TimerScheduled, ExecutionStates
      <4> QED BY <2>1, <4>1, <4>2
    <3>2. Unrecovered(s) \subseteq Unrecovered(x)
      BY <2>1, <3>1 DEF Unrecovered, InState, HasPendingRetryTimer, Timer
    <3> QED BY <1>3, <1>4, <2>1, <3>1, <3>2
  <2> QED BY <1>1, <2>1, SoundClosed
    DEF Closed, ClosedUnderUpkeep, ClosedUnderHandling, ClosedUnderFailure
<1>10. ClosedUnderRelease(Justified)
  <2>1. ASSUME NEW s \in Justified, NEW n \in Nodes, s.node[n].state \in {"RUNNING", "AWAITING_APPROVAL"},
               NEW to, Release(s, n, to) \in Sound
        PROVE  Release(s, n, to) \in Justified
    <3> DEFINE x == Release(s, n, to)
    <3>1. /\ x.runState = s.runState /\ x.active = s.active /\ x.cancelRequested = s.cancelRequested
          /\ x.pending = s.pending /\ \A m \in Nodes \ {n} : x.node[m] = s.node[m]
      BY <1>1 DEF Release, ExecutionStates
    <3> HIDE DEF x
    <3>2. Unrecovered(s) \subseteq Unrecovered(x)
      BY <1>1, <1>5, <2>1, <3>1 DEF RetryTimers, x
    <3> QED BY <1>3, <1>4, <2>1, <3>1, <3>2 DEF x
  <2>2. ASSUME NEW s \in Justified, NEW ids \in SUBSET InState(s, {"RUNNING"}), ExpireLeases(s, ids) \in Sound
        PROVE  ExpireLeases(s, ids) \in Justified
    <3> DEFINE x == ExpireLeases(s, ids)
    <3>1. /\ x.runState = s.runState /\ x.active = s.active /\ x.cancelRequested = s.cancelRequested
          /\ x.pending = s.pending /\ \A m \in Nodes \ ids : x.node[m] = s.node[m]
      BY <1>1 DEF ExpireLeases, ExecutionStates
    <3>2. s.runState \in {"COMPLETED", "CANCELLED"} => ids = {}
      BY <1>3, <2>2 DEF InState
    <3>3. ids = {} => x.node = s.node
      BY <1>1 DEF ExpireLeases, ExecutionStates
    <3> HIDE DEF x
    <3>4. Unrecovered(s) \subseteq Unrecovered(x)
      BY <1>1, <1>5, <2>2, <3>1 DEF RetryTimers, InState, x
    <3> QED BY <1>4, <2>2, <3>1, <3>2, <3>3, <3>4 DEF x
  <2> QED BY <1>1, <2>1, <2>2, SoundClosed
    DEF Closed, ClosedUnderUpkeep, ClosedUnderHandling, ClosedUnderRelease
<1>11. ASSUME NEW s \in Justified, NEW x \in Sound, x.node = s.node,
              RetryTimers(x) \subseteq RetryTimers(s), x.runState = s.runState,
              x.active \in {s.active, NoCompensation}, s.cancelRequested => x.cancelRequested
       PROVE  x \in Justified
  BY <1>1, <1>4, <1>5, <1>11
<1>12. ClosedUnderTimers(Justified)
  <2>1. ASSUME NEW s \in Justified, NEW n, NEW purpose \in Purposes \ {"retry_backoff"}, NEW a,
               TimerScheduled(s, Timer(n, purpose, a)) \in Sound
        PROVE  TimerScheduled(s, Timer(n, purpose, a)) \in Justified
    <3> DEFINE x == TimerScheduled(s, Timer(n, purpose, a))
    <3>1. /\ x.node = s.node /\ x.runState = s.runState /\ x.active = s.active
          /\ x.cancelRequested = s.cancelRequested
          /\ x.pending = s.pending \cup {Timer(n, purpose, a)}
      BY <1>1 DEF TimerScheduled, ExecutionStates
    <3>2. Timer(n, purpose, a).purpose # "retry_backoff"
      BY DEF Timer
    <3> HIDE DEF x
    <3>3. RetryTimers(x) \subseteq RetryTimers(s)
      BY <3>1, <3>2 DEF RetryTimers
    <3> QED BY <1>11, <2>1, <3>1, <3>3 DEF x
  <2>2. ASSUME NEW s \in Justified, NEW t \in s.pending, ~IsTerminal(s), TimerFired(s, t) \in Sound
        PROVE  TimerFired(s, t) \in Justified
    <3> DEFINE x == TimerFired(s, t)
    <3>1. t.node \in Nodes /\ t \in Timers
      BY <1>1 DEF ExecutionStates, Timers
    <3>2. /\ x.runState = s.runState /\ x.active = s.active /\ x.cancelRequested = s.cancelRequested
          /\ x.pending \subseteq s.pending /\ \A m \in Nodes \ {t.node} : x.node[m] = s.node[m]
      BY <1>1 DEF TimerFired, Release, ExecutionStates
    <3>3. \/ x.node[t.node] = s.node[t.node]
          \/ t.purpose = "retry_backoff" /\ s.node[t.node].attempt = t.attempt
      BY <1>1, <3>1 DEF TimerFired, ExecutionStates
    <3>4. t = [node |-> t.node, purpose |-> t.purpose, attempt |-> t.attempt]
      BY <3>1 DEF Timers
    <3> HIDE DEF x
    <3>5. t.node \in Unrecovered(s) => x.node[t.node] = s.node[t.node]
      BY <2>2, <3>3, <3>4 DEF Unrecovered, HasPendingRetryTimer, Timer
    <3>6. Unrecovered(s) \subseteq Unrecovered(x)
      BY <3>2, <3>5 DEF Unrecovered, InState, HasPendingRetryTimer
    <3> QED BY <1>4, <2>2, <3>2, <3>6 DEF x, IsTerminal, TerminalRunStates
  <2> QED BY <1>1, <2>1, <2>2, SoundClosed
    DEF Closed, ClosedUnderUpkeep, ClosedUnderHandling, ClosedUnderTimers, ClosedUnderScheduling,
        ClosedUnderFiring
<1>13. ClosedUnderCancellation(Justified)
  <2>1. ASSUME NEW s \in Justified, CancellationRequested(s) \in Sound
        PROVE  CancellationRequested(s) \in Justified
    BY <1>1, <1>11, <2>1 DEF CancellationRequested, RetryTimers, ExecutionStates
  <2>2. ASSUME NEW s \in Justified, ~IsTerminal(s), NEW ids \in SUBSET Undispatched(s),
               CancelNodes(s, ids) \in Sound
        PROVE  CancelNodes(s, ids) \in Justified
    <3> DEFINE x == CancelNodes(s, ids)
    <3>1. /\ x.runState = s.runState /\ x.active = s.active /\ x.cancelRequested = s.cancelRequested
          /\ x.pending = s.pending /\ \A m \in Nodes \ ids : x.node[m] = s.node[m]
      BY <1>1 DEF CancelNodes, ExecutionStates
    <3> HIDE DEF x
    <3>2. Unrecovered(s) \subseteq Unrecovered(x)
      BY <1>1, <1>5, <2>2, <3>1 DEF RetryTimers, Undispatched, InState, x
    <3> QED BY <1>4, <2>2, <3>1, <3>2 DEF x, IsTerminal, TerminalRunStates
  <2> QED BY <1>1, <2>1, <2>2, SoundClosed
    DEF Closed, ClosedUnderUpkeep, ClosedUnderHandling, ClosedUnderCancellation
<1>14. ClosedUnderAdvance(Justified)
  <2> SUFFICES ASSUME NEW s \in Justified, Advance(s) \in Sound PROVE Advance(s) \in Justified
    BY <1>1, SoundClosed DEF Closed, ClosedUnderUpkeep, ClosedUnderHandling, ClosedUnderAdvance
  <2> DEFINE x == Advance(s)
  <2>1. /\ x.node = s.node /\ x.pending = s.pending /\ x.cancelRequested = s.cancelRequested
        /\ x.active \in {s.active, NoCompensation}
        /\ x.runState = IF IsTerminal(s) THEN s.runState ELSE NextRunState(s)
    BY <1>1 DEF Advance, SetRunState, ExecutionStates
  <2>2. CASE x.runState = s.runState
    BY <1>11, <2>1, <2>2 DEF RetryTimers
  <2>3. CASE x.runState # s.runState
    <3>1. /\ HasUnrecoveredFailure(x) <=> HasUnrecoveredFailure(s)
          /\ AllNodesCompleted(x) <=> AllNodesCompleted(s)
          /\ AllNodesTerminal(x) <=> AllNodesTerminal(s)
      BY <2>1
      DEF HasUnrecoveredFailure, HasPendingRetryTimer, InState, AllNodesCompleted, AllNodesTerminal,
          AllNodesIn, Present
    <3>2. ~IsTerminal(s) /\ x.runState = NextRunState(s)
      BY <2>1, <2>3
    <3> HIDE DEF x
    <3>3. Outcome(x)
      BY <2>1, <2>3, <3>1, <3>2 DEF NextRunState, Justified, Outcome
    <3> QED BY <2>1, <3>1, <3>3 DEF Justified, x
  <2> QED BY <2>2, <2>3
<1>15. ClosedUnderCompensation(Justified) /\ ClosedUnderHandout(Justified)
  <2>1. ASSUME NEW s \in Sound, NEW x \in Sound, x.node = s.node, x.pending = s.pending,
               HasUnrecoveredFailure(s), x.runState \in {"FAILED", "COMPENSATING"}
        PROVE  x \in Justified
    <3>1. HasUnrecoveredFailure(x)
      BY <2>1 DEF HasUnrecoveredFailure, HasPendingRetryTimer, InState
    <3> QED BY <2>1, <3>1 DEF Justified, Outcome
  <2>2. ASSUME NEW s \in Justified
        PROVE  /\ SetRunState(CompensationReleased(s), "FAILED").node = s.node
               /\ SetRunState(CompensationReleased(s), "FAILED").pending = s.pending
               /\ SetRunState(CompensationReleased(s), "FAILED").runState = "FAILED"
    BY <1>1 DEF CompensationReleased, SetRunState, ExecutionStates
  <2>3. ASSUME NEW s \in Justified, NEW n, NEW x \in Sound,
               x = CompensationTaskCompleted(s, n) \/ x = CompensationReleased(s)
        PROVE  x \in Justified
    <3>1. /\ x.node = s.node /\ x.runState = s.runState /\ x.active = NoCompensation
          /\ x.pending = s.pending /\ x.cancelRequested = s.cancelRequested
      BY <1>1, <2>3 DEF CompensationTaskCompleted, CompensationReleased, ExecutionStates
    <3> QED BY <1>11, <3>1 DEF RetryTimers
  <2>4. ASSUME NEW s \in Justified, NEW n, NEW w, NEW a
        PROVE  /\ CompensationTaskStarted(s, n, w, a).node = s.node
               /\ CompensationTaskStarted(s, n, w, a).pending = s.pending
               /\ CompensationTaskStarted(s, n, w, a).runState = s.runState
    BY <1>1 DEF CompensationTaskStarted, ExecutionStates
  <2>5. \A s \in Justified : /\ s.active # NoCompensation => HasUnrecoveredFailure(s)
                             /\ s.runState = "COMPENSATING" => HasUnrecoveredFailure(s)
    BY DEF Justified, Outcome
  <2>6. ClosedUnderCompensation(Justified)
    BY <1>1, <2>1, <2>2, <2>3, <2>5, SoundClosed
      DEF Closed, ClosedUnderUpkeep, ClosedUnderHandling, ClosedUnderCompensation
  <2>7. ClosedUnderHandout(Justified)
    BY <1>1, <2>1, <2>4, <2>5, SoundClosed DEF Closed, ClosedUnderHandout
  <2> QED BY <2>6, <2>7
<1>16. Closed(Justified)
  BY <1>6, <1>7, <1>8, <1>9, <1>10, <1>12, <1>13, <1>14, <1>15
    DEF Closed, ClosedUnderUpkeep, ClosedUnderHandling, ClosedUnderTimers
<1> DEFINE JustifiedRun == st \in Justified
<1>17. Init => JustifiedRun
  BY TypesClosed DEF Init, New, Justified, Sound, Present, Outcome
<1>18. JustifiedRun /\ [Next]_vars => JustifiedRun'
  BY <1>1, <1>16, StepsAreMoves
<1>19. JustifiedRun => OutcomeJustified
  BY DEF Justified, Outcome, OutcomeJustified
<1> QED
  BY <1>17, <1>18, <1>19, PTL DEF Spec

-----------------------------------------------------------------------------
(* Reconciliation *)

(* No run event follows from s, and no node is to be cancelled.            *)
Quiet(s) ==
    \/ IsTerminal(s)
    \/ /\ NextRunState(s) = s.runState
       /\ s.cancelRequested => Undispatched(s) = {}

(* An advance, after the cancellations that are due, leaves nothing to do: *)
(* the event it emits ends the run, or starts compensations there are.     *)
LEMMA ReconcileSettles ==
  ASSUME NEW s \in ExecutionStates
  PROVE  /\ Quiet(s) => Reconcile(s) = s
         /\ (~IsTerminal(s) /\ s.cancelRequested => Undispatched(s) = {}) => Quiet(Advance(s))
         /\ Quiet(Reconcile(s))
<1>1. ASSUME NEW x \in ExecutionStates, x.cancelRequested => Undispatched(x) = {} \/ IsTerminal(x)
      PROVE  Quiet(Advance(x))
  <2> DEFINE y == Advance(x)
  <2>1. CASE IsTerminal(x)
    BY <2>1 DEF Advance, Quiet
  <2>2. CASE ~IsTerminal(x)
    <3>1. /\ y.runState = NextRunState(x) /\ y.cancelRequested = x.cancelRequested
          /\ y.node = x.node /\ y.stack = x.stack /\ y.pending = x.pending
          /\ NextRunState(x) # "COMPENSATED" => y.active = x.active
      BY <2>2 DEF Advance, SetRunState, ExecutionStates
    <3> SUFFICES Quiet(y)
      OBVIOUS
    <3> HIDE DEF y
    <3>2. /\ AllNodesTerminal(y) <=> AllNodesTerminal(x)
          /\ AllNodesCompleted(y) <=> AllNodesCompleted(x)
          /\ HasUnrecoveredFailure(y) <=> HasUnrecoveredFailure(x)
          /\ HasCompensationWork(y) <=> HasCompensationWork(x)
          /\ Undispatched(y) = Undispatched(x)
      BY <3>1
      DEF AllNodesTerminal, AllNodesCompleted, AllNodesIn, Present, HasUnrecoveredFailure, InState,
          HasPendingRetryTimer, HasCompensationWork, IncompleteEntries, Undispatched
    <3>3. CASE NextRunState(x) = x.runState
      <4>1. y.active = x.active
        BY <2>2, <3>1, <3>3 DEF IsTerminal, TerminalRunStates
      <4>2. NextRunState(y) = NextRunState(x)
        BY <3>1, <3>2, <3>3, <4>1 DEF NextRunState
      <4> QED BY <1>1, <2>2, <3>1, <3>2, <3>3, <4>2 DEF Quiet
    <3>4. CASE NextRunState(x) \in TerminalRunStates
      BY <3>1, <3>4 DEF Quiet, IsTerminal
    <3>5. CASE NextRunState(x) # x.runState /\ NextRunState(x) \notin TerminalRunStates
      <4>1. /\ NextRunState(x) = "COMPENSATING" /\ ~x.cancelRequested /\ HasCompensationWork(x)
        BY <3>5 DEF NextRunState, TerminalRunStates
      <4>2. NextRunState(y) = y.runState
        BY <3>1, <3>2, <4>1 DEF NextRunState
      <4> QED BY <3>1, <4>1, <4>2 DEF Quiet
    <3> QED BY <3>3, <3>4, <3>5
  <2> QED BY <2>1, <2>2
<1>2. ASSUME ~IsTerminal(s), s.cancelRequested
      PROVE  /\ CancelEligibleNodes(s) \in ExecutionStates
             /\ Undispatched(CancelEligibleNodes(s)) = {}
             /\ Undispatched(s) = {} => CancelEligibleNodes(s) = s
  <2> DEFINE y == CancelEligibleNodes(s)
  <2>1. y \in ExecutionStates
    BY <1>2, TypesClosed
    DEF CancelEligibleNodes, Closed, ClosedUnderUpkeep, ClosedUnderHandling, ClosedUnderCancellation
  <2>2. y = [s EXCEPT !.node = [n \in Nodes |->
               IF n \in Undispatched(s) THEN [s.node[n] EXCEPT !.state = "CANCELLED", !.worker = NoWorker]
                                        ELSE s.node[n]]]
    BY DEF CancelEligibleNodes, CancelNodes
  <2>3. \A n \in Nodes : s.node[n] \in NodeRecords
    BY DEF ExecutionStates
  <2>4. \A n \in Nodes : y.node[n].state = IF n \in Undispatched(s) THEN "CANCELLED" ELSE s.node[n].state
    <3>1. y.node = [n \in Nodes |->
                      IF n \in Undispatched(s) THEN [s.node[n] EXCEPT !.state = "CANCELLED", !.worker = NoWorker]
                                               ELSE s.node[n]]
      BY <2>2 DEF ExecutionStates
    <3> HIDE DEF y
    <3> QED BY <2>3, <3>1 DEF NodeRecords
  <2>5. Undispatched(s) = {} => y = s
    <3> SUFFICES ASSUME Undispatched(s) = {} PROVE y = s
      OBVIOUS
    <3>1. y = [s EXCEPT !.node = [n \in Nodes |-> s.node[n]]]
      BY <2>2
    <3>2. [n \in Nodes |-> s.node[n]] = s.node
      BY DEF ExecutionStates
    <3>3. [s EXCEPT !.node = s.node] = s
      BY DEF ExecutionStates
    <3> HIDE DEF y
    <3> QED BY <3>1, <3>2, <3>3
  <2> HIDE DEF y
  <2>6. Undispatched(y) = {}
    BY <2>4 DEF Undispatched, InState
  <2> QED BY <2>1, <2>5, <2>6 DEF y
<1>3. ~IsTerminal(s) /\ NextRunState(s) = s.runState => Advance(s) = s
  BY DEF Advance, SetRunState, IsTerminal, TerminalRunStates, ExecutionStates
<1>4. Quiet(s) => Reconcile(s) = s
  BY <1>2, <1>3 DEF Quiet, Reconcile
<1>5. Quiet(Reconcile(s))
  BY <1>1, <1>2 DEF Reconcile, Quiet
<1> QED
  BY <1>1, <1>4, <1>5

Reconciled == st \in Sound /\ (up /\ ioErrors = 0 => Quiet(st))

(* While no append fails, a running engine has nothing to reconcile.       *)
THEOREM NothingIsLeftToReconcile == Spec => []NothingLeftToReconcile
<1>1. Sound \in SUBSET ExecutionStates
  BY DEF Sound
<1>2. ASSUME NEW s \in Sound, Quiet(s), ~s.cancelRequested, NEW x \in ExecutionStates,
             x.runState = s.runState, ~x.cancelRequested,
             x.stack = s.stack, x.active = s.active, Unrecovered(x) \subseteq Unrecovered(s),
             NEW n \in Nodes, x.node[n].state \notin {"ABSENT", "COMPLETED"}
      PROVE  Quiet(x)
  <2>1. HasUnrecoveredFailure(x) => HasUnrecoveredFailure(s)
    BY <1>2 DEF HasUnrecoveredFailure, Unrecovered
  <2>2. ~AllNodesCompleted(x)
    BY <1>2 DEF AllNodesCompleted, AllNodesIn, Present
  <2>3. HasCompensationWork(x) <=> HasCompensationWork(s)
    BY <1>2 DEF HasCompensationWork, IncompleteEntries
  <2>4. CASE IsTerminal(s)
    BY <1>2, <2>4 DEF Quiet, IsTerminal
  <2>5. CASE ~IsTerminal(s) /\ NextRunState(s) = s.runState
    <3>1. s.runState = "RUNNING" => ~HasUnrecoveredFailure(s)
      BY <1>2, <2>5 DEF NextRunState
    <3>2. s.runState = "COMPENSATING" => HasCompensationWork(s) \/ s.active # NoCompensation
      BY <1>2, <2>5 DEF NextRunState
    <3>3. NextRunState(x) = x.runState
      BY <1>2, <2>1, <2>2, <2>3, <3>1, <3>2 DEF NextRunState
    <3> QED BY <1>2, <3>3 DEF Quiet
  <2> QED BY <1>2, <2>4, <2>5 DEF Quiet
<1>3. ASSUME NEW s \in Sound, Quiet(s), NEW x \in ExecutionStates, x.runState = s.runState,
             x.cancelRequested = s.cancelRequested,
             x.cancelRequested => Undispatched(x) \subseteq Undispatched(s)
      PROVE  Quiet(Advance(x))
  <2>1. CASE IsTerminal(s)
    BY <1>3, <2>1 DEF Quiet, IsTerminal, Advance
  <2>2. CASE ~IsTerminal(s)
    BY <1>3, <2>2, ReconcileSettles DEF Quiet, IsTerminal
  <2> QED BY <2>1, <2>2
<1>4. ASSUME Reconciled, TypeOK, [Next]_vars, up', ioErrors' = 0 PROVE Quiet(st')
  <2>1. st \in Sound /\ st \in ExecutionStates /\ ioErrors \in Nat
    BY <1>1, <1>4, EngineAssumption DEF Reconciled, TypeOK
  <2>2. ASSUME NEW cuts, NEW final, Commit(cuts, final)
        PROVE  st' = final /\ ioErrors = 0
    BY <1>4, <2>1, <2>2 DEF Commit
  <2>3. ioErrors = 0 /\ up => Quiet(st)
    BY <1>4 DEF Reconciled
  <2>4. \A t : t \in st.pending => t \in Timers
    BY <2>1 DEF ExecutionStates
  <2>5. CASE StartRun
    <3>1. st.runState = "NONE" /\ ~st.cancelRequested /\ st' = WorkflowStarted(st)
      BY <2>1, <2>2, <2>5 DEF StartRun, Exists, Sound
    <3>2. \A n \in Nodes : st.node[n].state = "ABSENT"
      BY <2>1, <3>1 DEF Sound, Present
    <3>3. /\ st'.runState = "RUNNING" /\ ~st'.cancelRequested
          /\ \A n \in Nodes : st'.node[n].state \in {"ABSENT", "PENDING", "READY"}
      BY <2>1, <3>1, <3>2 DEF WorkflowStarted, AddNodes, MarkReadyNodes, ExecutionStates
    <3>4. ~AllNodesCompleted(st') /\ ~HasUnrecoveredFailure(st')
      BY <3>3 DEF AllNodesCompleted, AllNodesIn, Present, HasUnrecoveredFailure, InState
    <3> QED BY <3>3, <3>4 DEF Quiet, NextRunState
  <2>6. ASSUME NEW w \in Workers, RegisterWorker(w) PROVE Quiet(st')
    BY <1>4, <2>3, <2>6 DEF RegisterWorker
  <2>7. ASSUME NEW w \in Workers, ClaimReadyTask(w) PROVE Quiet(st')
    <3>1. PICK n \in ReadyFor(w) :
            LET a       == NextAttempt(n)
                granted == LeaseGranted(st, n, w, a)
                started == NodeStarted(granted, n, w, a)
                limited == ScheduleLimit(started, n, "node_exec_deadline", a)
            IN  Commit({granted, started, limited}, ScheduleAbsoluteDeadline(limited, n))
      BY <2>7 DEF ClaimReadyTask
    <3> DEFINE a       == NextAttempt(n)
               started == NodeStarted(LeaseGranted(st, n, w, a), n, w, a)
               limited == ScheduleLimit(started, n, "node_exec_deadline", a)
    <3>2. n \in Nodes /\ st.node[n].state = "READY" /\ ~st.cancelRequested /\ up
      BY <2>7 DEF ReadyFor, InState, ClaimReadyTask, Claimable
    <3>3. st' = ScheduleAbsoluteDeadline(limited, n) /\ Quiet(st)
      BY <2>2, <2>3, <3>1, <3>2
    <3> DEFINE Starts(x) ==
                 /\ x \in ExecutionStates
                 /\ x.runState = st.runState /\ ~x.cancelRequested
                 /\ x.stack = st.stack /\ x.active = st.active
                 /\ st.pending \subseteq x.pending
                 /\ x.node[n].state = "RUNNING"
                 /\ \A m \in Nodes \ {n} : x.node[m] = st.node[m]
    <3>6. a \in Nat
      BY <2>1, <3>2 DEF NextAttempt, ExecutionStates, NodeRecords
    <3> HIDE DEF a
    <3>4. Starts(started)
      <4>1. started \in ExecutionStates
        <5>1. LeaseGranted(st, n, w, a) \in ExecutionStates
          BY <2>1, <3>2, <3>6, NodeEventsType
        <5> QED BY <3>2, <3>6, <5>1, NodeEventsType
      <4> QED BY <2>1, <3>2, <4>1 DEF LeaseGranted, NodeStarted, ExecutionStates
    <3>5. ASSUME NEW x, Starts(x), NEW purpose \in Purposes, NEW b \in Nat
          PROVE  Starts(ScheduleLimit(x, n, purpose, b))
      <4>1. Timer(n, purpose, b) \in Timers
        BY <3>2, <3>5 DEF Timer, Timers
      <4>2. Starts(TimerScheduled(x, Timer(n, purpose, b)))
        BY <3>5, <4>1, TimerAndCompensationEventsType DEF TimerScheduled, ExecutionStates
      <4> QED BY <3>5, <4>2 DEF ScheduleLimit
    <3> HIDE DEF started
    <3>7. Starts(limited)
      BY <3>4, <3>5, <3>6 DEF Purposes
    <3> HIDE DEF limited
    <3>8. Starts(st')
      BY <3>3, <3>5, <3>7 DEF ScheduleAbsoluteDeadline, Purposes
    <3>9. Unrecovered(st') \subseteq Unrecovered(st)
      BY <3>8 DEF Unrecovered, InState, HasPendingRetryTimer
    <3> QED BY <1>2, <2>1, <3>2, <3>3, <3>8, <3>9
  <2>8. ASSUME NEW w \in Workers, ClaimCompensationTask(w) PROVE Quiet(st')
    <3>1. PICK i \in DOMAIN st.stack :
            /\ IsNextCompensation(st, i)
            /\ Commit({}, CompensationTaskStarted(st, st.stack[i].node, w, st.stack[i].attempt + 1))
      BY <2>8 DEF ClaimCompensationTask
    <3>2. st.runState = "COMPENSATING" /\ ~st.cancelRequested
      BY <2>8 DEF ClaimCompensationTask, Claimable
    <3> DEFINE c == [node |-> st.stack[i].node, worker |-> w, attempt |-> st.stack[i].attempt + 1]
    <3>3. st' = CompensationTaskStarted(st, st.stack[i].node, w, st.stack[i].attempt + 1)
      BY <2>2, <3>1
    <3>4. st'.active = c /\ st'.runState = "COMPENSATING" /\ ~st'.cancelRequested
      BY <2>1, <3>2, <3>3 DEF CompensationTaskStarted, HasEntry, ExecutionStates
    <3>5. c # NoCompensation
      <4>1. st.stack[i] \in StackEntries
        BY <2>1, ElementOfSeq, LenProperties DEF ExecutionStates
      <4> QED BY <4>1, DefinitionAssumption DEF Compensations, StackEntries
    <3> HIDE DEF c
    <3> QED BY <3>4, <3>5 DEF Quiet, NextRunState
  <2>9. ASSUME NEW w \in Workers, NEW n \in Nodes, NEW a \in Attempts, Report(w, n, a)
        PROVE  Quiet(st')
    <3>1. a \in Nat /\ n \in Nodes /\ w \in Workers
      BY EngineAssumption DEF Attempts
    <3>2. Holds(w, n, a) => st.node[n].state = "RUNNING"
      BY DEF Holds
    <3> DEFINE failed == NodeFailed(st, n, w, a)
               timer  == Timer(n, "retry_backoff", a)
    <3>3. /\ failed \in ExecutionStates /\ failed.runState = st.runState
          /\ failed.cancelRequested = st.cancelRequested /\ failed.pending = st.pending
          /\ failed.stack = st.stack /\ failed.active = st.active
          /\ failed.node[n].state = "FAILED" /\ failed.node[n].attempt = a
          /\ \A m \in Nodes \ {n} : failed.node[m] = st.node[m]
      <4>1. failed \in ExecutionStates
        BY <2>1, <3>1, NodeEventsType
      <4> QED BY <2>1, <3>1, <4>1 DEF NodeFailed, ExecutionStates
    <3>4. ASSUME NEW spawned \in SpawnRequests, CompleteTask(w, n, a, spawned) PROVE Quiet(st')
      <4> DEFINE ended == IF ValidSpawn(spawned) THEN NodeCompleted(st, n, w, a, spawned) ELSE failed
      <4>1. up /\ ~st.cancelRequested /\ Commit({ended}, Advance(ended))
        BY <3>4 DEF CompleteTask
      <4>2. NodeCompleted(st, n, w, a, spawned) \in ExecutionStates
        <5>1. Done(st, n, w, a) \in ExecutionStates
          BY <2>1, <3>1, CompletionParts
        <5>2. NodeCompleted(st, n, w, a, spawned) = MarkReadyNodes(AddNodes(Done(st, n, w, a), spawned))
          BY DEF NodeCompleted, Done, Entry
        <5> QED BY <5>1, <5>2, NodeEventsType
      <4>3. NodeCompleted(st, n, w, a, spawned).cancelRequested = st.cancelRequested
        BY <2>1 DEF NodeCompleted, AddNodes, MarkReadyNodes, ExecutionStates
      <4>4. ended \in ExecutionStates /\ ~ended.cancelRequested
        BY <3>3, <4>1, <4>2, <4>3
      <4> HIDE DEF ended
      <4> QED BY <2>2, <4>1, <4>4, ReconcileSettles
    <3>5. CASE ReachCheckpoint(w, n, a)
      <4> DEFINE reached == CheckpointReached(st, n)
                 x       == ScheduleLimit(reached, n, "checkpoint_timeout", a)
      <4>1. up /\ ~st.cancelRequested /\ st' = x /\ ioErrors = 0
        BY <2>2, <3>5 DEF ReachCheckpoint
      <4>2. /\ reached \in ExecutionStates /\ reached.runState = st.runState
            /\ ~reached.cancelRequested /\ reached.pending = st.pending
            /\ reached.stack = st.stack /\ reached.active = st.active
            /\ reached.node[n].state = "AWAITING_APPROVAL"
            /\ \A m \in Nodes \ {n} : reached.node[m] = st.node[m]
        <5>1. reached \in ExecutionStates
          BY <2>1, <3>1, NodeEventsType DEF CheckpointReached, NodeStates
        <5> QED BY <2>1, <3>1, <4>1, <5>1 DEF CheckpointReached, Release, ExecutionStates, NodeRecords
      <4> HIDE DEF reached
      <4>3. Timer(n, "checkpoint_timeout", a) \in Timers
        BY <3>1 DEF Timer, Timers, Purposes
      <4>4. /\ x \in ExecutionStates /\ x.runState = reached.runState
            /\ x.cancelRequested = reached.cancelRequested /\ reached.pending \subseteq x.pending
            /\ x.stack = reached.stack /\ x.active = reached.active /\ x.node = reached.node
        BY <4>2, <4>3, TimerAndCompensationEventsType DEF ScheduleLimit, TimerScheduled, ExecutionStates
      <4> HIDE DEF x
      <4>5. Unrecovered(x) \subseteq Unrecovered(st)
        BY <4>2, <4>4 DEF Unrecovered, InState, HasPendingRetryTimer
      <4> QED BY <1>2, <2>1, <2>3, <4>1, <4>2, <4>4, <4>5
    <3>6. CASE CompleteCompensationTask(w, n, a)
      <4> DEFINE x == CompensationTaskCompleted(st, n)
      <4>1. up /\ st' = Advance(x) /\ ioErrors = 0
        BY <2>2, <3>6 DEF CompleteCompensationTask
      <4>2. /\ x \in ExecutionStates /\ x.runState = st.runState
            /\ x.cancelRequested = st.cancelRequested /\ x.node = st.node
        BY <2>1, <3>1, TimerAndCompensationEventsType DEF CompensationTaskCompleted, ExecutionStates
      <4> HIDE DEF x
      <4> QED BY <1>3, <2>1, <2>3, <4>1, <4>2 DEF Undispatched, InState
    <3>7. ASSUME NEW retryable \in BOOLEAN, FailTask(w, n, a, retryable) PROVE Quiet(st')
      <4> DEFINE armed   == IF retryable THEN ScheduleRetry(failed, n, a) ELSE failed
                 retried == retryable /\ HasPendingRetryTimer(armed, n, a)
      <4>1. /\ up /\ ~st.cancelRequested
            /\ Commit({failed}, IF retried THEN armed ELSE Advance(armed))
        BY <3>7 DEF FailTask
      <4> HIDE DEF failed
      <4>2. timer \in Timers
        BY <3>1 DEF Timer, Timers, Purposes
      <4>3. /\ armed \in ExecutionStates /\ armed.runState = failed.runState
            /\ armed.cancelRequested = failed.cancelRequested /\ failed.pending \subseteq armed.pending
            /\ armed.stack = failed.stack /\ armed.active = failed.active /\ armed.node = failed.node
        <5>1. armed \in ExecutionStates
          BY <3>3, <4>2, TimerAndCompensationEventsType DEF ScheduleRetry
        <5> QED BY <3>3, <5>1 DEF ScheduleRetry, TimerScheduled, ExecutionStates
      <4> HIDE DEF armed
      <4>4. CASE retried
        <5>1. st' = armed /\ Quiet(st)
          BY <2>2, <2>3, <4>1, <4>4
        <5>2. Unrecovered(armed) \subseteq Unrecovered(st)
          BY <3>3, <4>3, <4>4 DEF Unrecovered, InState, HasPendingRetryTimer
        <5> QED BY <1>2, <2>1, <3>3, <4>1, <4>3, <5>1, <5>2
      <4>5. CASE ~retried
        <5>1. st' = Advance(armed)
          BY <2>2, <4>1, <4>5
        <5> QED BY <3>3, <4>1, <4>3, <5>1, ReconcileSettles
      <4> QED BY <4>4, <4>5
    <3>8. CASE FailTaskCancelled(w, n, a)
      <4> DEFINE x == NodeCancelled(st, n)
      <4>1. up /\ st' = Advance(x) /\ ioErrors = 0
        BY <2>2, <3>8 DEF FailTaskCancelled
      <4>2. /\ x \in ExecutionStates /\ x.runState = st.runState
            /\ x.cancelRequested = st.cancelRequested /\ x.node[n].state = "CANCELLED"
            /\ \A m \in Nodes \ {n} : x.node[m] = st.node[m]
        <5>1. x \in ExecutionStates
          BY <2>1, <3>1, NodeEventsType DEF NodeCancelled, NodeStates
        <5> QED BY <2>1, <3>1, <5>1 DEF NodeCancelled, Release, ExecutionStates, NodeRecords
      <4> HIDE DEF x
      <4>3. Undispatched(x) \subseteq Undispatched(st)
        BY <4>2 DEF Undispatched, InState
      <4> QED BY <1>3, <2>1, <2>3, <4>1, <4>2, <4>3
    <3>9. CASE FailCompensationTask(w, n, a)
      <4>1. st' = SetRunState(CompensationReleased(st), "FAILED")
        BY <2>2, <3>9 DEF FailCompensationTask
      <4>2. st'.runState = "FAILED"
        BY <2>1, <4>1 DEF CompensationReleased, SetRunState, ExecutionStates
      <4> QED BY <4>2 DEF Quiet, IsTerminal, TerminalRunStates
    <3> QED BY <2>9, <3>4, <3>5, <3>6, <3>7, <3>8, <3>9 DEF Report
  <2>10. CASE CancelRun
    <3>1. CancellationRequested(st) \in ExecutionStates
      BY <2>1 DEF CancellationRequested, ExecutionStates
    <3> QED BY <2>2, <2>10, <3>1, ReconcileSettles DEF CancelRun
  <2>11. ASSUME NEW n \in Nodes, ApproveCheckpoint(n) PROVE Quiet(st')
    <3>1. /\ up /\ ~IsTerminal(st) /\ st.node[n].state = "AWAITING_APPROVAL"
          /\ st' = CheckpointApproved(st, n) /\ ioErrors = 0
      BY <2>2, <2>11 DEF ApproveCheckpoint
    <3>2. n \in Undispatched(st)
      BY <3>1 DEF Undispatched, InState
    <3>3. ~st.cancelRequested
      BY <2>3, <3>1, <3>2 DEF Quiet
    <3>4. st' \in ExecutionStates
      BY <2>1, <3>1, NodeEventsType DEF CheckpointApproved, NodeStates
    <3>5. /\ st'.runState = st.runState /\ ~st'.cancelRequested /\ st'.pending = st.pending
          /\ st'.stack = st.stack /\ st'.active = st.active
          /\ st'.node[n].state = "READY" /\ \A m \in Nodes \ {n} : st'.node[m] = st.node[m]
      BY <2>1, <3>1, <3>3 DEF CheckpointApproved, Release, ExecutionStates, NodeRecords
    <3>6. Unrecovered(st') \subseteq Unrecovered(st)
      BY <3>5 DEF Unrecovered, InState, HasPendingRetryTimer
    <3> QED BY <1>2, <2>1, <2>3, <3>1, <3>3, <3>4, <3>5, <3>6
  <2>12. CASE ExpireOverdueLeases \/ FireDueTimers \/ FireDueTimersLosingTimeouts
    <3>1. CASE ExpireOverdueLeases
      <4>1. PICK ids \in SUBSET OverdueLeases, overdue \in BOOLEAN :
              LET expired  == ExpireLeases(st, ids)
                  released == IF overdue THEN CompensationReleased(expired) ELSE expired
              IN  Commit({expired} \cup ReconcileCuts(released), Reconcile(released))
        BY <3>1 DEF ExpireOverdueLeases
      <4> DEFINE expired  == ExpireLeases(st, ids)
                 released == IF overdue THEN CompensationReleased(expired) ELSE expired
      <4>2. st' = Reconcile(released)
        BY <2>2, <4>1
      <4>3. expired \in ExecutionStates
        BY <2>1, NodeEventsType
      <4> HIDE DEF expired
      <4>4. released \in ExecutionStates
        BY <4>3, TimerAndCompensationEventsType
      <4> QED BY <4>2, <4>4, ReconcileSettles
    <3>2. CASE FireDueTimers
      <4>1. PICK order \in DueOrders : st' = Reconcile(FirePass(st, order, {})[Len(order)])
        BY <2>2, <3>2 DEF FireDueTimers
      <4>2. FirePass(st, order, {})[Len(order)] \in ExecutionStates
        BY <2>1, TypesClosed, FirePassKeeps, FireTimerMoves DEF Closed
      <4> QED BY <4>1, <4>2, ReconcileSettles
    <3>3. CASE FireDueTimersLosingTimeouts
      BY <1>4, <2>1, <3>3 DEF FireDueTimersLosingTimeouts
    <3> QED BY <2>12, <3>1, <3>2, <3>3
  <2>13. CASE Crash
    BY <1>4, <2>13 DEF Crash
  <2>14. CASE Restart
    BY <2>1, <2>2, <2>14, ReconcileSettles DEF Restart
  <2>15. CASE UNCHANGED vars
    BY <1>4, <2>3, <2>15 DEF vars
  <2> QED
    BY <1>4, <2>5, <2>6, <2>7, <2>8, <2>9, <2>10, <2>11, <2>12, <2>13, <2>14, <2>15 DEF Next, ClaimTask
<1> DEFINE Inv == Reconciled /\ TypeOK
<1>5. Init => Reconciled
  BY TypesClosed DEF Init, New, Reconciled, Sound, Present, Quiet, NextRunState,
                 AllNodesTerminal, AllNodesIn
<1>6. Reconciled /\ TypeOK /\ [Next]_vars => Reconciled'
  <2> SUFFICES ASSUME Reconciled, TypeOK, [Next]_vars PROVE Reconciled'
    OBVIOUS
  <2>1. st' \in Sound
    BY <1>1, SoundClosed, StepsAreMoves DEF Reconciled
  <2>2. up' /\ ioErrors' = 0 => Quiet(st')
    BY <1>4
  <2> QED BY <2>1, <2>2 DEF Reconciled
<1>7. Reconciled => NothingLeftToReconcile
  BY <1>1, ReconcileSettles DEF Reconciled, NothingLeftToReconcile
<1> QED
  BY <1>5, <1>6, <1>7, TypeCorrect, PTL DEF Spec

-----------------------------------------------------------------------------
(* Limits *)

Held == {"RUNNING", "AWAITING_APPROVAL"}

(* The timers that are to be pending for what runs or waits in s.          *)
Needed(s) ==
    {t \in Timers :
        /\ t.purpose \in Def[t.node].limits
        /\ \/ t.purpose = "node_abs_deadline" /\ t.attempt = 0 /\ s.node[t.node].state \in Held
           \/ /\ t.purpose = "node_exec_deadline"
              /\ s.node[t.node].state = "RUNNING" /\ s.node[t.node].attempt = t.attempt
           \/ /\ t.purpose = "checkpoint_timeout"
              /\ s.node[t.node].state = "AWAITING_APPROVAL" /\ s.node[t.node].attempt = t.attempt}

(* A node's absolute deadline is armed once, under no attempt.             *)
Armed ==
    {s \in ExecutionStates :
        /\ Needed(s) \subseteq s.pending
        /\ \A t \in s.pending : t.purpose = "node_abs_deadline" => t.attempt = 0}

ArmedRun == crashes = 0 /\ ioErrors = 0 => st \in Armed

(* Without faults nothing runs, and no checkpoint waits, without the       *)
(* timers its definition asks for.  A limit leaves the pending timers only *)
(* by firing, and then the node it limits leaves the states it limits.     *)
THEOREM LimitsAreArmed == Spec => []LimitsArmed
<1>1. ASSUME NEW s \in Armed, NEW x \in ExecutionStates,
             \A n \in Nodes : x.node[n].state \in Held =>
                 x.node[n].state = s.node[n].state /\ x.node[n].attempt = s.node[n].attempt,
             s.pending \subseteq x.pending,
             \A t \in x.pending \ s.pending : t.purpose # "node_abs_deadline"
      PROVE  x \in Armed
  <2>1. \A t \in Timers : t.node \in Nodes
    BY DEF Timers
  <2>2. Needed(x) \subseteq Needed(s)
    BY <1>1, <2>1 DEF Needed, Held
  <2> QED BY <1>1, <2>2 DEF Armed
<1>2. ASSUME NEW s \in Armed PROVE Reconcile(s) \in Armed /\ Advance(s) \in Armed
  <2>1. s \in ExecutionStates
    BY DEF Armed
  <2>2. ASSUME NEW x \in Armed PROVE Advance(x) \in Armed
    <3>1. Advance(x) \in ExecutionStates
      BY TypesClosed, ReconcileMoves DEF Armed, Closed, ClosedUnderUpkeep
    <3>2. Advance(x).node = x.node /\ Advance(x).pending = x.pending
      BY DEF Armed, Advance, SetRunState, ExecutionStates
    <3> QED BY <1>1, <3>1, <3>2
  <2>3. CancelEligibleNodes(s) \in Armed
    <3> DEFINE x == CancelEligibleNodes(s)
    <3>1. x \in ExecutionStates
      BY <2>1, NodeEventsType DEF CancelEligibleNodes
    <3>2. /\ x.pending = s.pending
          /\ x.node = [n \in Nodes |->
                         IF n \in Undispatched(s)
                           THEN [s.node[n] EXCEPT !.state = "CANCELLED", !.worker = NoWorker]
                           ELSE s.node[n]]
      BY <2>1 DEF CancelEligibleNodes, CancelNodes, ExecutionStates
    <3>3. \A n \in Nodes : s.node[n] \in NodeRecords
      BY <2>1 DEF ExecutionStates
    <3> HIDE DEF x
    <3>4. \A n \in Nodes : x.node[n].state = "CANCELLED" \/ x.node[n] = s.node[n]
      BY <3>2, <3>3 DEF NodeRecords
    <3>5. x \in Armed
      BY <1>1, <3>1, <3>2, <3>4 DEF Held
    <3> QED BY <3>5 DEF x
  <2> QED BY <2>2, <2>3 DEF Reconcile
<1>3. ASSUME NEW s \in Armed, NEW t \in s.pending PROVE FireTimer(s, t, TRUE) \in Armed
  <2> DEFINE fired == TimerFired(s, t)
             out   == TimeOutNode(fired, t.node)
  <2>1. s \in ExecutionStates /\ t \in Timers /\ t.node \in Nodes
    BY DEF Armed, ExecutionStates, Timers
  <2>2. /\ fired \in ExecutionStates /\ fired.pending = s.pending \ {t}
        /\ \A n \in Nodes : fired.node[n] = s.node[n] \/ fired.node[n].state = "READY"
    <3>1. fired \in ExecutionStates
      BY <2>1, TimerAndCompensationEventsType
    <3>2. fired.pending = s.pending \ {t}
      BY <2>1 DEF TimerFired, Release, ExecutionStates
    <3>3. \A n \in Nodes : fired.node[n] = s.node[n] \/ fired.node[n].state = "READY"
      BY <2>1 DEF TimerFired, Release, ExecutionStates, NodeRecords
    <3> QED BY <3>1, <3>2, <3>3
  <2> HIDE DEF fired
  <2>3. Needed(fired) \subseteq Needed(s)
    <3>1. \A u \in Timers : u.node \in Nodes
      BY DEF Timers
    <3> QED BY <2>2, <3>1 DEF Needed, Held
  <2>4. CASE ShouldFailNode(fired, t)
    <3>1. /\ out \in ExecutionStates /\ out.pending = fired.pending
          /\ out.node[t.node].state = "FAILED"
          /\ \A n \in Nodes \ {t.node} : out.node[n] = fired.node[n]
      <4>1. fired.node[t.node].worker \in Workers \cup {NoWorker} /\ fired.node[t.node].attempt \in Nat
        BY <2>1, <2>2 DEF ExecutionStates, NodeRecords
      <4>2. out \in ExecutionStates
        BY <2>1, <2>2, <4>1, NodeEventsType DEF TimeOutNode
      <4> QED BY <2>1, <2>2, <4>2 DEF TimeOutNode, NodeFailed, ExecutionStates
    <3> HIDE DEF out
    <3>2. Needed(out) \subseteq Needed(fired) \ {t}
      <4>1. \A u \in Timers : u.node \in Nodes
        BY DEF Timers
      <4> QED BY <3>1, <4>1 DEF Needed, Held
    <3>3. out \in Armed
      BY <2>2, <2>3, <3>1, <3>2 DEF Armed
    <3> QED BY <1>2, <2>4, <3>3 DEF FireTimer, fired, out
  <2>5. CASE ~ShouldFailNode(fired, t)
    <3>1. t \notin Needed(fired)
      BY <2>5 DEF Needed, ShouldFailNode, Held
    <3>2. fired \in Armed
      BY <2>2, <2>3, <3>1 DEF Armed
    <3> QED BY <2>5, <3>2 DEF FireTimer, fired
  <2> QED BY <2>4, <2>5
<1>4. ASSUME ArmedRun, TypeOK, [Next]_vars, crashes' = 0, ioErrors' = 0 PROVE st' \in Armed
  <2>1. st \in ExecutionStates /\ crashes \in Nat /\ ioErrors \in Nat
    BY <1>4, EngineAssumption DEF TypeOK
  <2>2. ASSUME NEW cuts, NEW final, Commit(cuts, final)
        PROVE  st' = final /\ st \in Armed
    BY <1>4, <2>1, <2>2 DEF Commit, ArmedRun
  <2>3. CASE StartRun
    <3>1. st' = WorkflowStarted(st) /\ st \in Armed
      BY <2>2, <2>3 DEF StartRun
    <3>2. st' \in ExecutionStates
      BY <2>1, <2>3, <3>1, TypesClosed
        DEF Closed, ClosedUnderUpkeep, ClosedUnderHandling, ClosedUnderStart, StartRun, Exists
    <3>3. /\ st'.pending = st.pending
          /\ \A n \in Nodes : st'.node[n].state \in {"PENDING", "READY"} \/ st'.node[n] = st.node[n]
      <4> DEFINE added == [AddNodes(st, InitialNodes) EXCEPT !.runState = "RUNNING"]
      <4>1. /\ added \in ExecutionStates /\ added.pending = st.pending
            /\ \A n \in Nodes : added.node[n].state = "PENDING" \/ added.node[n] = st.node[n]
        <5>1. added \in ExecutionStates
          BY <2>1, NodeEventsType DEF ExecutionStates, RunStates
        <5> QED BY <2>1, <5>1 DEF AddNodes, ExecutionStates
      <4>2. st' = MarkReadyNodes(added)
        BY <3>1 DEF WorkflowStarted
      <4> HIDE DEF added
      <4>3. /\ st'.pending = added.pending
            /\ \A n \in Nodes : st'.node[n].state = "READY" \/ st'.node[n] = added.node[n]
        BY <4>1, <4>2 DEF MarkReadyNodes, ExecutionStates, NodeRecords
      <4> QED BY <4>1, <4>3
    <3> QED BY <1>1, <3>1, <3>2, <3>3 DEF Held
  <2>4. ASSUME NEW w \in Workers, RegisterWorker(w) PROVE st' \in Armed
    BY <1>4, <2>4 DEF RegisterWorker, ArmedRun
  <2>5. ASSUME NEW w \in Workers, ClaimReadyTask(w) PROVE st' \in Armed
    <3>1. PICK n \in ReadyFor(w) :
            LET a       == NextAttempt(n)
                granted == LeaseGranted(st, n, w, a)
                started == NodeStarted(granted, n, w, a)
                limited == ScheduleLimit(started, n, "node_exec_deadline", a)
            IN  Commit({granted, started, limited}, ScheduleAbsoluteDeadline(limited, n))
      BY <2>5 DEF ClaimReadyTask
    <3> DEFINE a       == NextAttempt(n)
               started == NodeStarted(LeaseGranted(st, n, w, a), n, w, a)
               limited == ScheduleLimit(started, n, "node_exec_deadline", a)
               final   == ScheduleAbsoluteDeadline(limited, n)
               timer   == Timer(n, "node_exec_deadline", a)
               limit   == Timer(n, "node_abs_deadline", 0)
    <3>2. n \in Nodes /\ a \in Nat
      BY <2>1 DEF ReadyFor, InState, NextAttempt, ExecutionStates, NodeRecords
    <3>3. st' = final /\ st \in Armed
      BY <2>2, <3>1
    <3> HIDE DEF a
    <3>4. /\ started \in ExecutionStates /\ started.pending = st.pending
          /\ started.node[n].state = "RUNNING" /\ started.node[n].attempt = a
          /\ \A m \in Nodes \ {n} : started.node[m] = st.node[m]
      <4>1. started \in ExecutionStates
        <5>1. LeaseGranted(st, n, w, a) \in ExecutionStates
          BY <2>1, <3>2, NodeEventsType
        <5> QED BY <3>2, <5>1, NodeEventsType
      <4> QED BY <2>1, <3>2, <4>1 DEF LeaseGranted, NodeStarted, ExecutionStates
    <3> HIDE DEF started
    <3>5. timer \in Timers /\ limit \in Timers
      BY <3>2 DEF Timer, Timers, Purposes
    <3>6. ASSUME NEW x \in ExecutionStates, NEW u \in Timers
          PROVE  LET y == TimerScheduled(x, u)
                 IN  y \in ExecutionStates /\ y.node = x.node /\ y.pending = x.pending \cup {u}
      BY <3>6, TimerAndCompensationEventsType DEF TimerScheduled, ExecutionStates
    <3>7. /\ limited \in ExecutionStates /\ limited.node = started.node
          /\ limited.pending = IF "node_exec_deadline" \in Def[n].limits
                                 THEN st.pending \cup {timer} ELSE st.pending
      BY <3>4, <3>5, <3>6 DEF ScheduleLimit
    <3>8. timer.node = n /\ timer.purpose = "node_exec_deadline" /\ timer.attempt = a
      BY DEF Timer
    <3>9. limit.node = n /\ limit.purpose = "node_abs_deadline" /\ limit.attempt = 0
      BY DEF Timer
    <3>10. \A u \in limited.pending : u.purpose = "node_abs_deadline" => u.attempt = 0
      BY <3>3, <3>7, <3>8 DEF Armed
    <3> HIDE DEF limited
    <3>11. HasPendingAbsoluteDeadline(limited, n) => limit \in limited.pending
      BY <3>7, <3>10 DEF HasPendingAbsoluteDeadline, Timer, ExecutionStates, Timers
    <3>12. /\ final \in ExecutionStates /\ final.node = limited.node
           /\ limited.pending \subseteq final.pending
           /\ final.pending \subseteq limited.pending \cup {limit}
           /\ "node_abs_deadline" \in Def[n].limits => limit \in final.pending
      BY <3>5, <3>6, <3>7, <3>11 DEF ScheduleAbsoluteDeadline, ScheduleLimit
    <3> HIDE DEF timer, limit, final
    <3>13. ASSUME NEW u \in Needed(final) PROVE u \in final.pending
      <4>1. u \in Timers /\ u.node \in Nodes
        BY DEF Needed, Timers
      <4>2. CASE u.node # n
        <5>1. final.node[u.node] = st.node[u.node]
          BY <3>4, <3>7, <3>12, <4>1, <4>2
        <5>2. u \in Needed(st)
          BY <5>1 DEF Needed
        <5> QED BY <3>3, <3>7, <3>12, <5>2 DEF Armed
      <4>3. CASE u.node = n
        <5>1. final.node[n].state = "RUNNING" /\ final.node[n].attempt = a
          BY <3>4, <3>7, <3>12
        <5>2. \/ u.purpose = "node_abs_deadline" /\ u.attempt = 0
              \/ u.purpose = "node_exec_deadline" /\ u.attempt = a
          BY <4>3, <5>1 DEF Needed
        <5>3. u = limit \/ u = timer
          BY <3>5, <3>8, <3>9, <4>1, <4>3, <5>2 DEF Timers
        <5>4. u.purpose \in Def[n].limits
          BY <4>3 DEF Needed
        <5> QED BY <3>7, <3>8, <3>9, <3>12, <5>3, <5>4
      <4> QED BY <4>2, <4>3
    <3>14. \A u \in final.pending : u.purpose = "node_abs_deadline" => u.attempt = 0
      BY <3>9, <3>10, <3>12
    <3> QED BY <3>3, <3>12, <3>13, <3>14 DEF Armed
  <2>6. ASSUME NEW w \in Workers, ClaimCompensationTask(w) PROVE st' \in Armed
    <3>1. PICK i \in DOMAIN st.stack :
            Commit({}, CompensationTaskStarted(st, st.stack[i].node, w, st.stack[i].attempt + 1))
      BY <2>6 DEF ClaimCompensationTask
    <3>2. st.stack[i] \in StackEntries
      BY <2>1, ElementOfSeq, LenProperties DEF ExecutionStates
    <3>3. /\ st' = CompensationTaskStarted(st, st.stack[i].node, w, st.stack[i].attempt + 1)
          /\ st \in Armed
      BY <2>2, <3>1
    <3>4. st' \in ExecutionStates
      BY <2>1, <3>2, <3>3, TimerAndCompensationEventsType DEF StackEntries
    <3>5. st'.node = st.node /\ st'.pending = st.pending
      BY <2>1, <3>3 DEF CompensationTaskStarted, ExecutionStates
    <3> QED BY <1>1, <3>3, <3>4, <3>5
  <2>7. ASSUME NEW w \in Workers, NEW n \in Nodes, NEW a \in Attempts, Report(w, n, a)
        PROVE  st' \in Armed
    <3>1. a \in Nat /\ n \in Nodes /\ w \in Workers
      BY EngineAssumption DEF Attempts
    <3>2. Holds(w, n, a) => st.node[n].state = "RUNNING" /\ st.node[n].attempt = a
      BY DEF Holds
    <3> DEFINE failed == NodeFailed(st, n, w, a)
    <3>3. /\ failed \in ExecutionStates /\ failed.pending = st.pending
          /\ failed.node[n].state = "FAILED"
          /\ \A m \in Nodes \ {n} : failed.node[m] = st.node[m]
      <4>1. failed \in ExecutionStates
        BY <2>1, <3>1, NodeEventsType
      <4> QED BY <2>1, <3>1, <4>1 DEF NodeFailed, ExecutionStates
    <3>4. st \in Armed => failed \in Armed
      <4> HIDE DEF failed
      <4> QED BY <1>1, <3>3 DEF Held
    <3>5. ASSUME NEW spawned \in SpawnRequests, CompleteTask(w, n, a, spawned) PROVE st' \in Armed
      <4> DEFINE done  == NodeCompleted(st, n, w, a, spawned)
                 ended == IF ValidSpawn(spawned) THEN done ELSE failed
      <4>1. st' = Advance(ended) /\ st \in Armed
        BY <2>2, <3>5 DEF CompleteTask
      <4>2. done \in ExecutionStates
        <5>1. Done(st, n, w, a) \in ExecutionStates
          BY <2>1, <3>1, CompletionParts
        <5>2. done = MarkReadyNodes(AddNodes(Done(st, n, w, a), spawned))
          BY DEF NodeCompleted, Done, Entry
        <5> HIDE DEF done
        <5> QED BY <5>1, <5>2, NodeEventsType
      <4>3. /\ done.pending = st.pending
            /\ \A m \in Nodes : \/ done.node[m].state \in {"COMPLETED", "PENDING", "READY"}
                                \/ done.node[m] = st.node[m]
        BY <2>1 DEF NodeCompleted, AddNodes, MarkReadyNodes, ExecutionStates, NodeRecords
      <4> HIDE DEF done, failed
      <4>4. done \in Armed
        BY <1>1, <4>1, <4>2, <4>3 DEF Held
      <4> QED BY <1>2, <3>4, <4>1, <4>4
    <3>6. CASE ReachCheckpoint(w, n, a)
      <4> DEFINE reached == CheckpointReached(st, n)
                 x       == ScheduleLimit(reached, n, "checkpoint_timeout", a)
                 timer   == Timer(n, "checkpoint_timeout", a)
      <4>1. st' = x /\ st \in Armed /\ st.node[n].state = "RUNNING" /\ st.node[n].attempt = a
        BY <2>2, <3>2, <3>6 DEF ReachCheckpoint
      <4>2. /\ reached \in ExecutionStates /\ reached.pending = st.pending
            /\ reached.node[n].state = "AWAITING_APPROVAL" /\ reached.node[n].attempt = a
            /\ \A m \in Nodes \ {n} : reached.node[m] = st.node[m]
        <5>1. reached \in ExecutionStates
          BY <2>1, <3>1, NodeEventsType DEF CheckpointReached, NodeStates
        <5>2. reached.pending = st.pending /\ \A m \in Nodes \ {n} : reached.node[m] = st.node[m]
          BY <2>1, <5>1 DEF CheckpointReached, Release, ExecutionStates
        <5>3. reached.node[n] = [st.node[n] EXCEPT !.state = "AWAITING_APPROVAL", !.worker = NoWorker]
          BY <2>1, <3>1 DEF CheckpointReached, Release, ExecutionStates
        <5>4. st.node[n] \in NodeRecords
          BY <2>1, <3>1 DEF ExecutionStates
        <5> HIDE DEF reached
        <5> QED BY <4>1, <5>1, <5>2, <5>3, <5>4 DEF NodeRecords
      <4> HIDE DEF reached
      <4>3. /\ timer \in Timers /\ timer.node = n
            /\ timer.purpose = "checkpoint_timeout" /\ timer.attempt = a
        BY <3>1 DEF Timer, Timers, Purposes
      <4> HIDE DEF timer
      <4>4. /\ x \in ExecutionStates /\ x.node = reached.node
            /\ x.pending = IF "checkpoint_timeout" \in Def[n].limits
                             THEN st.pending \cup {timer} ELSE st.pending
        <5>1. x \in ExecutionStates
          BY <4>2, <4>3, TimerAndCompensationEventsType DEF ScheduleLimit, timer
        <5> QED BY <4>2, <5>1 DEF ScheduleLimit, TimerScheduled, ExecutionStates, timer
      <4> HIDE DEF x
      <4>5. ASSUME NEW u \in Needed(x) PROVE u \in x.pending
        <5>1. u \in Timers /\ u.node \in Nodes
          BY DEF Needed, Timers
        <5>2. CASE u.node # n
          <6>1. x.node[u.node] = st.node[u.node]
            BY <4>2, <4>4, <5>1, <5>2
          <6>2. u \in Needed(st)
            BY <6>1 DEF Needed
          <6> QED BY <4>1, <4>4, <6>2 DEF Armed
        <5>3. CASE u.node = n /\ u.purpose = "checkpoint_timeout"
          <6>1. u = timer /\ "checkpoint_timeout" \in Def[n].limits
            BY <4>2, <4>3, <4>4, <5>1, <5>3 DEF Needed, Timers
          <6> QED BY <4>4, <6>1
        <5>4. CASE u.node = n /\ u.purpose # "checkpoint_timeout"
          <6>1. u \in Needed(st)
            BY <4>1, <4>2, <4>4, <5>4 DEF Needed, Held
          <6> QED BY <4>1, <4>4, <6>1 DEF Armed
        <5> QED BY <5>2, <5>3, <5>4
      <4> QED BY <4>1, <4>3, <4>4, <4>5 DEF Armed
    <3>7. CASE CompleteCompensationTask(w, n, a)
      <4> DEFINE x == CompensationTaskCompleted(st, n)
      <4>1. st' = Advance(x) /\ st \in Armed
        BY <2>2, <3>7 DEF CompleteCompensationTask
      <4>2. x \in ExecutionStates /\ x.node = st.node /\ x.pending = st.pending
        BY <2>1, TimerAndCompensationEventsType DEF CompensationTaskCompleted, ExecutionStates
      <4> HIDE DEF x
      <4>3. x \in Armed
        BY <1>1, <4>1, <4>2
      <4> QED BY <1>2, <4>1, <4>3
    <3>8. ASSUME NEW retryable \in BOOLEAN, FailTask(w, n, a, retryable) PROVE st' \in Armed
      <4> DEFINE armed   == IF retryable THEN ScheduleRetry(failed, n, a) ELSE failed
                 retried == retryable /\ HasPendingRetryTimer(armed, n, a)
                 timer   == Timer(n, "retry_backoff", a)
      <4>1. st' = (IF retried THEN armed ELSE Advance(armed)) /\ st \in Armed
        BY <2>2, <3>8 DEF FailTask
      <4> HIDE DEF failed
      <4>2. timer \in Timers /\ timer.purpose # "node_abs_deadline"
        BY <3>1 DEF Timer, Timers, Purposes
      <4>3. /\ armed \in ExecutionStates /\ armed.node = failed.node
            /\ failed.pending \subseteq armed.pending
            /\ armed.pending \subseteq failed.pending \cup {timer}
        <5>1. armed \in ExecutionStates
          BY <3>3, <4>2, TimerAndCompensationEventsType DEF ScheduleRetry
        <5> QED BY <3>3, <5>1 DEF ScheduleRetry, TimerScheduled, ExecutionStates
      <4> HIDE DEF armed, timer
      <4>4. armed \in Armed
        BY <1>1, <3>4, <4>1, <4>2, <4>3
      <4> QED BY <1>2, <4>1, <4>4
    <3>9. CASE FailTaskCancelled(w, n, a)
      <4> DEFINE x == NodeCancelled(st, n)
      <4>1. st' = Advance(x) /\ st \in Armed
        BY <2>2, <3>9 DEF FailTaskCancelled
      <4>2. /\ x \in ExecutionStates /\ x.pending = st.pending /\ x.node[n].state = "CANCELLED"
            /\ \A m \in Nodes \ {n} : x.node[m] = st.node[m]
        <5>1. x \in ExecutionStates
          BY <2>1, <3>1, NodeEventsType DEF NodeCancelled, NodeStates
        <5> QED BY <2>1, <3>1, <5>1 DEF NodeCancelled, Release, ExecutionStates, NodeRecords
      <4> HIDE DEF x
      <4>3. x \in Armed
        BY <1>1, <4>1, <4>2 DEF Held
      <4> QED BY <1>2, <4>1, <4>3
    <3>10. CASE FailCompensationTask(w, n, a)
      <4> DEFINE released == CompensationReleased(st)
                 x        == SetRunState(released, "FAILED")
      <4>1. st' = x /\ st \in Armed
        BY <2>2, <3>10 DEF FailCompensationTask
      <4>2. x \in ExecutionStates /\ x.node = st.node /\ x.pending = st.pending
        BY <2>1 DEF CompensationReleased, SetRunState, ExecutionStates, RunStates, TerminalRunStates
      <4> HIDE DEF x
      <4> QED BY <1>1, <4>1, <4>2
    <3> QED BY <2>7, <3>5, <3>6, <3>7, <3>8, <3>9, <3>10 DEF Report
  <2>8. CASE CancelRun
    <3> DEFINE x == CancellationRequested(st)
    <3>1. st' = Reconcile(x) /\ st \in Armed
      BY <2>2, <2>8 DEF CancelRun
    <3>2. x \in ExecutionStates /\ x.node = st.node /\ x.pending = st.pending
      BY <2>1 DEF CancellationRequested, ExecutionStates
    <3> HIDE DEF x
    <3>3. x \in Armed
      BY <1>1, <3>1, <3>2
    <3> QED BY <1>2, <3>1, <3>3
  <2>9. ASSUME NEW n \in Nodes, ApproveCheckpoint(n) PROVE st' \in Armed
    <3>1. /\ st.node[n].state = "AWAITING_APPROVAL"
          /\ st' = CheckpointApproved(st, n) /\ st \in Armed
      BY <2>2, <2>9 DEF ApproveCheckpoint
    <3>2. st' \in ExecutionStates
      BY <2>1, <3>1, NodeEventsType DEF CheckpointApproved, NodeStates
    <3>3. /\ st'.pending = st.pending /\ st'.node[n].state = "READY"
          /\ \A m \in Nodes \ {n} : st'.node[m] = st.node[m]
      BY <2>1, <3>1 DEF CheckpointApproved, Release, ExecutionStates, NodeRecords
    <3> QED BY <1>1, <3>1, <3>2, <3>3 DEF Held
  <2>10. CASE ExpireOverdueLeases
    <3>1. PICK ids \in SUBSET OverdueLeases, overdue \in BOOLEAN :
            LET expired  == ExpireLeases(st, ids)
                released == IF overdue THEN CompensationReleased(expired) ELSE expired
            IN  Commit({expired} \cup ReconcileCuts(released), Reconcile(released))
      BY <2>10 DEF ExpireOverdueLeases
    <3> DEFINE expired  == ExpireLeases(st, ids)
               released == IF overdue THEN CompensationReleased(expired) ELSE expired
    <3>2. st' = Reconcile(released) /\ st \in Armed
      BY <2>2, <3>1
    <3>3. /\ expired \in ExecutionStates /\ expired.pending = st.pending
          /\ \A n \in Nodes : expired.node[n].state = "READY" \/ expired.node[n] = st.node[n]
      <4>1. expired \in ExecutionStates
        BY <2>1, NodeEventsType
      <4>2. \A n \in Nodes : st.node[n] \in NodeRecords
        BY <2>1 DEF ExecutionStates
      <4>3. /\ expired.pending = st.pending
            /\ expired.node = [n \in Nodes |->
                                 IF n \in ids THEN [st.node[n] EXCEPT !.state = "READY", !.worker = NoWorker]
                                              ELSE st.node[n]]
        BY <2>1 DEF ExpireLeases, ExecutionStates
      <4> HIDE DEF expired
      <4> QED BY <4>1, <4>2, <4>3 DEF NodeRecords
    <3> HIDE DEF expired
    <3>4. released \in ExecutionStates /\ released.node = expired.node /\ released.pending = expired.pending
      BY <3>3, TimerAndCompensationEventsType DEF CompensationReleased, ExecutionStates
    <3> HIDE DEF released
    <3>5. released \in Armed
      BY <1>1, <3>2, <3>3, <3>4 DEF Held
    <3> QED BY <1>2, <3>2, <3>5
  <2>11. CASE FireDueTimers
    <3>1. PICK order \in DueOrders :
            st' = Reconcile(FirePass(st, order, {})[Len(order)]) /\ st \in Armed
      BY <2>2, <2>11 DEF FireDueTimers
    <3>2. \A s \in Armed : \A t \in s.pending :
            /\ FireTimer(s, t, t \notin {}) \in Armed
            /\ s.pending \ {t} \subseteq FireTimer(s, t, t \notin {}).pending
      <4> TAKE s \in Armed
      <4> TAKE t \in s.pending
      <4>1. (t \notin {}) = TRUE
        OBVIOUS
      <4>2. s \in ExecutionStates /\ ClosedUnderUpkeep(ExecutionStates)
        BY TypesClosed DEF Armed, Closed
      <4> QED BY <1>3, <4>1, <4>2, FireTimerMoves
    <3>3. FirePass(st, order, {})[Len(order)] \in Armed
      BY <3>1, <3>2, FirePassKeeps
    <3> QED BY <1>2, <3>1, <3>3
  <2>12. CASE FireDueTimersLosingTimeouts
    BY <1>4, <2>1, <2>12 DEF FireDueTimersLosingTimeouts
  <2>13. CASE Crash
    BY <1>4, <2>1, <2>13 DEF Crash
  <2>14. CASE Restart
    BY <1>2, <2>2, <2>14 DEF Restart
  <2>15. CASE UNCHANGED vars
    BY <1>4, <2>15 DEF vars, ArmedRun
  <2> QED
    BY <1>4, <2>3, <2>4, <2>5, <2>6, <2>7, <2>8, <2>9, <2>10, <2>11, <2>12, <2>13, <2>14, <2>15
    DEF Next, ClaimTask
<1>5. Init => ArmedRun
  BY TypesClosed DEF Init, New, ArmedRun, Armed, Needed, Held, Timers
<1>6. ArmedRun /\ TypeOK /\ [Next]_vars => ArmedRun'
  BY <1>4 DEF ArmedRun
<1>7. ArmedRun /\ TypeOK => LimitsArmed
  <2> SUFFICES ASSUME ArmedRun, TypeOK, crashes = 0, ioErrors = 0, NEW n \in InState(st, Held)
               PROVE  /\ "node_abs_deadline" \in Def[n].limits =>
                             Timer(n, "node_abs_deadline", 0) \in st.pending
                      /\ st.node[n].state = "RUNNING" /\ "node_exec_deadline" \in Def[n].limits =>
                             Timer(n, "node_exec_deadline", st.node[n].attempt) \in st.pending
                      /\ /\ st.node[n].state = "AWAITING_APPROVAL"
                         /\ "checkpoint_timeout" \in Def[n].limits
                         => Timer(n, "checkpoint_timeout", st.node[n].attempt) \in st.pending
    BY DEF LimitsArmed, Held
  <2>1. n \in Nodes /\ st.node[n].state \in Held /\ st.node[n].attempt \in Nat
    BY DEF TypeOK, InState, ExecutionStates, NodeRecords
  <2>2. \A p \in Purposes, a \in Nat : Timer(n, p, a) \in Timers
    BY <2>1 DEF Timer, Timers
  <2>3. \A p, a : /\ Timer(n, p, a).node = n /\ Timer(n, p, a).purpose = p
                  /\ Timer(n, p, a).attempt = a
    BY DEF Timer
  <2>4. Needed(st) \subseteq st.pending
    BY DEF ArmedRun, Armed
  <2> QED BY <2>1, <2>2, <2>3, <2>4 DEF Needed, Purposes
<1> QED
  BY <1>5, <1>6, <1>7, TypeCorrect, PTL DEF Spec
=============================================================================
