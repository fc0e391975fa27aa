----------------------------- MODULE DemoProofs -----------------------------
(***************************************************************************)
(* Theorems about Demo, for every workflow definition with a gate and no   *)
(* compensation, every set of workers and every number of stalls.          *)
(*                                                                         *)
(* ActionsMove tells what each step of `grael start` does to the state in  *)
(* memory and to the log.  The invariant, what the demonstration tells     *)
(* from the events, and the refinement of Engine all follow from it.       *)
(***************************************************************************)
EXTENDS Demo, NaturalLemmas, SequenceTheorems, TLAPS

-----------------------------------------------------------------------------
(* The events of a handler *)

(* The events of a handler, at most three, are applied one after the other.*)
LEMMA EventByEvent ==
  /\ \A c, d : << c >> \o << d >> = << c, d >>
  /\ \A c, d, e : << c, d >> \o << e >> = << c, d, e >>
  /\ \A s : After(s, << >>) = s
  /\ \A s, c : After(s, << c >>) = Apply(s, c)
  /\ \A s, c, d : After(s, << c, d >>) = Apply(Apply(s, c), d)
  /\ \A s, c, d, e : After(s, << c, d, e >>) = Apply(Apply(Apply(s, c), d), e)
  /\ \A l : Appended(l, << >>) = l
  /\ \A l, c : Appended(l, << c >>) = AppendedEvent([l EXCEPT !.recent = {l.state}], c)
  /\ \A l, c, d : Appended(l, << c, d >>) =
        AppendedEvent(AppendedEvent([l EXCEPT !.recent = {l.state}], c), d)
  /\ \A l, c, d, e : Appended(l, << c, d, e >>) =
        AppendedEvent(AppendedEvent(AppendedEvent([l EXCEPT !.recent = {l.state}], c), d), e)
<1> DEFINE start(l) == [l EXCEPT !.recent = {l.state}]
           IsReplay(f, s, events) ==
             f = [i \in 0 .. Len(events) |-> IF i = 0 THEN s ELSE Apply(f[i - 1], events[i])]
           IsWritten(f, l, events) ==
             f = [i \in 0 .. Len(events) |->
                    IF i = 0 THEN start(l) ELSE AppendedEvent(f[i - 1], events[i])]
<1>1. ASSUME NEW s, NEW events, Len(events) \in 0 .. 3
      PROVE  /\ Len(events) = 0 => After(s, events) = s
             /\ Len(events) = 1 => After(s, events) = Apply(s, events[1])
             /\ Len(events) = 2 => After(s, events) = Apply(Apply(s, events[1]), events[2])
             /\ Len(events) = 3 =>
                  After(s, events) = Apply(Apply(Apply(s, events[1]), events[2]), events[3])
  <2> DEFINE one   == Apply(s, events[1])
             two   == Apply(one, events[2])
             three == Apply(two, events[3])
  <2>1. IsReplay([i \in 0 .. Len(events) |-> IF i = 0 THEN s ELSE IF i = 1 THEN one
                                             ELSE IF i = 2 THEN two ELSE three], s, events)
    BY <1>1
  <2>2. PICK f : IsReplay(f, s, events) /\ f = CHOOSE g : IsReplay(g, s, events)
    <3> HIDE DEF IsReplay
    <3> QED BY <2>1
  <2>3. After(s, events) = f[Len(events)]
    BY <2>2 DEF After
  <2>4. /\ f[0] = s
        /\ Len(events) > 0 => f[1] = Apply(f[0], events[1])
        /\ Len(events) > 1 => f[2] = Apply(f[1], events[2])
        /\ Len(events) > 2 => f[3] = Apply(f[2], events[3])
    BY <1>1, <2>2
  <2>5. Len(events) = 0 => f[Len(events)] = s
    BY <2>4
  <2>6. Len(events) = 1 => f[Len(events)] = one
    BY <2>4
  <2>7. Len(events) = 2 => f[Len(events)] = two
    BY <2>4
  <2>8. Len(events) = 3 => f[Len(events)] = three
    BY <2>4
  <2> QED BY <2>3, <2>5, <2>6, <2>7, <2>8
<1>2. ASSUME NEW l, NEW events, events # << >>, Len(events) \in 0 .. 3
      PROVE  LET one == AppendedEvent(start(l), events[1])
             IN  /\ Len(events) = 1 => Appended(l, events) = one
                 /\ Len(events) = 2 => Appended(l, events) = AppendedEvent(one, events[2])
                 /\ Len(events) = 3 => Appended(l, events) =
                                         AppendedEvent(AppendedEvent(one, events[2]), events[3])
  <2> HIDE DEF start
  <2> DEFINE one   == AppendedEvent(start(l), events[1])
             two   == AppendedEvent(one, events[2])
             three == AppendedEvent(two, events[3])
  <2>1. IsWritten([i \in 0 .. Len(events) |-> IF i = 0 THEN start(l) ELSE IF i = 1 THEN one
                                              ELSE IF i = 2 THEN two ELSE three], l, events)
    BY <1>2
  <2>2. PICK f : IsWritten(f, l, events) /\ f = CHOOSE g : IsWritten(g, l, events)
    <3> HIDE DEF IsWritten
    <3> QED BY <2>1
  <2>3. Appended(l, events) = f[Len(events)]
    BY <1>2, <2>2 DEF Appended, start
  <2>4. /\ f[0] = start(l)
        /\ Len(events) > 0 => f[1] = AppendedEvent(f[0], events[1])
        /\ Len(events) > 1 => f[2] = AppendedEvent(f[1], events[2])
        /\ Len(events) > 2 => f[3] = AppendedEvent(f[2], events[3])
    BY <1>2, <2>2
  <2>5. Len(events) = 1 => f[Len(events)] = one
    BY <2>4
  <2>6. Len(events) = 2 => f[Len(events)] = two
    BY <2>4
  <2>7. Len(events) = 3 => f[Len(events)] = three
    BY <2>4
  <2> QED BY <2>3, <2>5, <2>6, <2>7
<1>3. \A c, d, e : /\ Len(<< >>) = 0
                   /\ Len(<< c >>) = 1 /\ << c >> # << >>
                   /\ Len(<< c, d >>) = 2 /\ << c, d >> # << >>
                   /\ Len(<< c, d, e >>) = 3 /\ << c, d, e >> # << >>
  OBVIOUS
<1> HIDE DEF start
<1>12. ASSUME NEW c, NEW d, NEW e
       PROVE  << c >> \o << d >> = << c, d >> /\ << c, d >> \o << e >> = << c, d, e >>
  <2> DEFINE S == {c, d, e}
  <2>1. /\ << c >> \o << d >> \in Seq(S) /\ << c, d >> \o << e >> \in Seq(S)
        /\ << c, d >> \in Seq(S) /\ << c, d, e >> \in Seq(S)
    OBVIOUS
  <2>2. /\ Len(<< c >> \o << d >>) = Len(<< c, d >>)
        /\ Len(<< c, d >> \o << e >>) = Len(<< c, d, e >>)
    OBVIOUS
  <2>3. \A i \in 1 .. Len(<< c, d >>) : (<< c >> \o << d >>)[i] = << c, d >>[i]
    OBVIOUS
  <2>4. \A i \in 1 .. Len(<< c, d, e >>) : (<< c, d >> \o << e >>)[i] = << c, d, e >>[i]
    OBVIOUS
  <2> HIDE DEF S
  <2> QED BY <2>1, <2>2, <2>3, <2>4, SeqEqual
<1>4. \A s : After(s, << >>) = s
  BY <1>1, <1>3
<1>5. ASSUME NEW s, NEW c PROVE After(s, << c >>) = Apply(s, c)
  BY <1>1
<1>6. ASSUME NEW s, NEW c, NEW d PROVE After(s, << c, d >>) = Apply(Apply(s, c), d)
  BY <1>1
<1>7. ASSUME NEW s, NEW c, NEW d, NEW e
      PROVE  After(s, << c, d, e >>) = Apply(Apply(Apply(s, c), d), e)
  BY <1>1
<1>8. \A l : Appended(l, << >>) = l
  BY DEF Appended
<1>9. ASSUME NEW l, NEW c PROVE Appended(l, << c >>) = AppendedEvent(start(l), c)
  BY <1>2
<1>10. ASSUME NEW l, NEW c, NEW d
       PROVE  Appended(l, << c, d >>) = AppendedEvent(AppendedEvent(start(l), c), d)
  BY <1>2
<1>11. ASSUME NEW l, NEW c, NEW d, NEW e
       PROVE  Appended(l, << c, d, e >>) =
                AppendedEvent(AppendedEvent(AppendedEvent(start(l), c), d), e)
  BY <1>2
<1> QED
  BY <1>4, <1>5, <1>6, <1>7, <1>8, <1>9, <1>10, <1>11, <1>12 DEF start

(* A run without cancellation and compensation.                            *)
Flat(s) ==
    /\ s \in ExecutionStates
    /\ s.runState \in {"NONE", "RUNNING", "COMPLETED", "FAILED"}
    /\ ~s.cancelRequested
    /\ s.stack = << >>
    /\ s.active = NoCompensation

(* The last event of a handler, if any, is the advance of module Engine: a *)
(* running run completes or fails, and nothing else changes.               *)
LEMMA AdvancedAdvances ==
  ASSUME NEW s, Flat(s)
  PROVE  /\ \/ Advanced(s) = << >> /\ E!Advance(s) = s
            \/ /\ Advanced(s) = << Event("WorkflowCompleted") >>
               /\ E!Advance(s) = SetRunState(s, "COMPLETED")
               /\ Present(s) = InState(s, {"COMPLETED"})
               /\ s.runState = "RUNNING"
            \/ /\ Advanced(s) = << Event("WorkflowFailed") >>
               /\ E!Advance(s) = SetRunState(s, "FAILED")
               /\ s.runState = "RUNNING"
         /\ E!Reconcile(s) = E!Advance(s)
<1>1. \/ /\ E!NextRunState(s) = "COMPLETED"
         /\ s.runState = "RUNNING" /\ E!AllNodesCompleted(s)
      \/ E!NextRunState(s) = "FAILED" /\ s.runState = "RUNNING"
      \/ E!NextRunState(s) = s.runState
  <2>1. ~E!HasCompensationWork(s)
    BY DEF Flat, E!HasCompensationWork, E!IncompleteEntries
  <2>2. ~s.cancelRequested /\ s.runState # "COMPENSATING"
    BY DEF Flat
  <2>0. E!AllNodesCompleted(s) => ~E!HasUnrecoveredFailure(s)
    BY DEF E!AllNodesCompleted, E!AllNodesIn, E!HasUnrecoveredFailure, E!Present, E!InState
  <2>3. s.runState = "RUNNING" /\ E!AllNodesCompleted(s) => E!NextRunState(s) = "COMPLETED"
    BY <2>0, <2>1, <2>2 DEF E!NextRunState
  <2>4. s.runState = "RUNNING" /\ ~E!AllNodesCompleted(s) /\ E!HasUnrecoveredFailure(s)
          => E!NextRunState(s) = "FAILED"
    BY <2>0, <2>1, <2>2 DEF E!NextRunState
  <2>5. s.runState = "RUNNING" /\ ~E!AllNodesCompleted(s) /\ ~E!HasUnrecoveredFailure(s)
          => E!NextRunState(s) = s.runState
    BY <2>0, <2>1, <2>2 DEF E!NextRunState
  <2>6. s.runState # "RUNNING" => E!NextRunState(s) = s.runState
    BY <2>0, <2>1, <2>2 DEF E!NextRunState
  <2> QED BY <2>3, <2>4, <2>5, <2>6
<1>2. E!AllNodesCompleted(s) => Present(s) = InState(s, {"COMPLETED"})
  BY DEF E!AllNodesCompleted, E!AllNodesIn, E!Present, Present, InState
<1>3. s = [s EXCEPT !.runState = s.runState, !.active = s.active]
  BY DEF Flat, ExecutionStates
<1>4. E!SetRunState(s, s.runState) = s
  BY <1>3 DEF E!SetRunState, Flat
<1>5. E!IsTerminal(s) <=> s.runState \in {"COMPLETED", "FAILED"}
  BY DEF Flat, E!IsTerminal, E!TerminalRunStates
<1>6. IsTerminal(s) <=> s.runState \in {"COMPLETED", "FAILED"}
  BY DEF Flat, IsTerminal, TerminalRunStates
<1>7. \A r : E!SetRunState(s, r) = SetRunState(s, r)
  BY DEF E!SetRunState, SetRunState
<1>8. E!Reconcile(s) = E!Advance(s)
  BY DEF Flat, E!Reconcile, E!Advance
<1>9. CASE IsTerminal(s)
  BY <1>5, <1>6, <1>8, <1>9 DEF Advanced, E!Advance
<1>10. CASE ~IsTerminal(s)
  <2>1. E!Advance(s) = E!SetRunState(s, E!NextRunState(s))
    BY <1>5, <1>6, <1>10 DEF E!Advance
  <2>2. Advanced(s) = IF E!NextRunState(s) = s.runState THEN << >>
                      ELSE << Event(IF E!NextRunState(s) = "COMPLETED" THEN "WorkflowCompleted"
                                                                     ELSE "WorkflowFailed") >>
    BY <1>10 DEF Advanced
  <2>3. s.runState \in {"NONE", "RUNNING"}
    BY <1>6, <1>10 DEF Flat
  <2>4. CASE E!NextRunState(s) = s.runState
    BY <1>4, <1>8, <2>1, <2>2, <2>4
  <2>5. CASE E!NextRunState(s) # s.runState /\ E!NextRunState(s) = "COMPLETED"
    BY <1>1, <1>2, <1>7, <1>8, <2>1, <2>2, <2>3, <2>5
  <2>6. CASE E!NextRunState(s) # s.runState /\ E!NextRunState(s) = "FAILED"
    BY <1>1, <1>2, <1>7, <1>8, <2>1, <2>2, <2>3, <2>6
  <2> QED BY <1>1, <2>4, <2>5, <2>6
<1> QED
  BY <1>9, <1>10

NodeEventTypes ==
    {"LeaseGranted", "NodeStarted", "LeaseExpired", "CheckpointReached", "CheckpointApproved",
     "NodeFailed", "NodeCompleted"}

TimerEventTypes == {"TimerScheduled", "TimerFired"}

(* The events of the demonstration's log once the run is started.          *)
LogEvents ==
    {e \in [type : NodeEventTypes \cup TimerEventTypes \cup {"WorkflowCompleted", "WorkflowFailed"},
            node : Nat, worker : Workers \cup {NoWorker}, attempt : Nat,
            purpose : Purposes \cup {""}, spawned : SUBSET Nodes, retryable : BOOLEAN] :
        /\ e.type \in NodeEventTypes \cup TimerEventTypes => e.node \in Nodes
        /\ e.type \in TimerEventTypes => e.purpose \in Purposes}

-----------------------------------------------------------------------------
(* What the log tells *)

PhaseNames == {"spawn", "retry", "checkpoint", "complete"}

Logs ==
    [state  : ExecutionStates,
     shown  : [Nodes -> NodeStates],
     phases : [PhaseNames -> {"none", "active", "complete"}],
     recent : SUBSET ExecutionStates]

(* TransitionsAreDated, of the state a log replays to.                     *)
Dated(l) ==
    \A n \in Present(l.state) :
        \/ l.shown[n] = l.state.node[n].state
        \/ l.shown[n] = "PENDING" /\ l.state.node[n].state = "READY"
        \/ l.shown[n] = "ABSENT" /\ n \in InitialNodes /\ l.state.node[n].attempt = 0

(* Whoever reads a completed run finds nobody at work on it.               *)
AtRest(s) == s.runState = "COMPLETED" => InState(s, {"RUNNING"}) = {}

Told(l) == Dated(l) /\ \A s \in l.recent : AtRest(s)

(* What an event leaves as it was: the cancel flag, the stack and the      *)
(* active compensation, and the nodes it does not name but for those that  *)
(* get ready.  Appended, it keeps what the log tells of the nodes.         *)
LEMMA EventEffects ==
  ASSUME NEW e \in LogEvents
  PROVE  /\ \A s \in ExecutionStates :
               /\ Apply(s, e) \in ExecutionStates
               /\ Apply(s, e).cancelRequested = s.cancelRequested
               /\ Apply(s, e).stack = s.stack
               /\ s.active = NoCompensation => Apply(s, e).active = NoCompensation
               /\ Apply(s, e).runState = CASE e.type = "WorkflowCompleted" -> "COMPLETED"
                                           [] e.type = "WorkflowFailed"    -> "FAILED"
                                           [] OTHER                        -> s.runState
               /\ \A n \in Nodes \ EventNodeIDs(e) :
                     \/ Apply(s, e).node[n] = s.node[n]
                     \/ /\ s.node[n].state = "PENDING"
                        /\ Apply(s, e).node[n] = [s.node[n] EXCEPT !.state = "READY"]
         /\ \A l \in Logs :
               /\ AppendedEvent(l, e) \in Logs
               /\ AppendedEvent(l, e).state = Apply(l.state, e)
               /\ \A p \in PhaseNames : AppendedEvent(l, e).phases[p] = Marker(l.phases[p], p, e)
               /\ Told(l) /\ AtRest(Apply(l.state, e)) => Told(AppendedEvent(l, e))
<1>1. ASSUME NEW s \in ExecutionStates
      PROVE  /\ Apply(s, e) \in ExecutionStates
             /\ Apply(s, e).cancelRequested = s.cancelRequested
             /\ Apply(s, e).stack = s.stack
             /\ s.active = NoCompensation => Apply(s, e).active = NoCompensation
             /\ Apply(s, e).runState = CASE e.type = "WorkflowCompleted" -> "COMPLETED"
                                         [] e.type = "WorkflowFailed"    -> "FAILED"
                                         [] OTHER                        -> s.runState
             /\ \A n \in Nodes \ EventNodeIDs(e) :
                   \/ Apply(s, e).node[n] = s.node[n]
                   \/ /\ s.node[n].state = "PENDING"
                      /\ Apply(s, e).node[n] = [s.node[n] EXCEPT !.state = "READY"]
  <2> DEFINE local(t) ==
        /\ t \in ExecutionStates
        /\ t.cancelRequested = s.cancelRequested
        /\ t.stack = s.stack
        /\ s.active = NoCompensation => t.active = NoCompensation
        /\ \A n \in Nodes \ EventNodeIDs(e) :
                 \/ t.node[n] = s.node[n]
                 \/ /\ s.node[n].state = "PENDING"
                    /\ t.node[n] = [s.node[n] EXCEPT !.state = "READY"]
      Moved(t) == [s EXCEPT !.node[e.node] = t]
  <2>1. CASE e.type \in {"WorkflowCompleted", "WorkflowFailed"}
    <3>1. Apply(s, e) = SetRunState(s, IF e.type = "WorkflowCompleted" THEN "COMPLETED" ELSE "FAILED")
      BY <2>1 DEF Apply
    <3> QED BY <2>1, <3>1 DEF SetRunState, ExecutionStates, RunStates, TerminalRunStates
  <2>2. CASE e.type \in TimerEventTypes
    <3>1. TimerOf(e) \in Timers
      BY <2>2 DEF LogEvents, TimerOf, Timers
    <3>2. local(s)
      OBVIOUS
    <3>3. CASE e.type = "TimerScheduled"
      <4>1. Apply(s, e) = [s EXCEPT !.pending = @ \cup {TimerOf(e)}, !.fired = @ \ {TimerOf(e)}]
        BY <3>3 DEF Apply, TimerScheduled
      <4> HIDE DEF TimerOf
      <4>2. Apply(s, e).pending \in SUBSET Timers /\ Apply(s, e).fired \in SUBSET Timers
        BY <3>1, <4>1 DEF ExecutionStates
      <4>3. Apply(s, e) = [s EXCEPT !.pending = Apply(s, e).pending, !.fired = Apply(s, e).fired]
        BY <4>1 DEF ExecutionStates
      <4>4. local(Apply(s, e)) /\ Apply(s, e).runState = s.runState
        BY <4>2, <4>3 DEF ExecutionStates
      <4> QED BY <3>3, <4>4
    <3>4. CASE e.type = "TimerFired"
      <4> DEFINE marked == [s EXCEPT !.pending = @ \ {TimerOf(e)}, !.fired = @ \cup {TimerOf(e)}]
      <4>1. local(marked) /\ marked.runState = s.runState
        BY <3>1 DEF ExecutionStates
      <4>2. \/ Apply(s, e) = marked
            \/ Apply(s, e) = [marked EXCEPT !.node[e.node] =
                                [@ EXCEPT !.state = "READY", !.worker = NoWorker]]
        <5>1. Apply(s, e) = TimerFired(s, TimerOf(e))
          BY <3>4 DEF Apply
        <5>2. TimerOf(e).node = e.node
          BY DEF TimerOf
        <5> QED BY <5>1, <5>2 DEF TimerFired, Release
      <4>3. [marked.node[e.node] EXCEPT !.state = "READY", !.worker = NoWorker] \in NodeRecords
        <5>1. \A r \in NodeRecords :
                [r EXCEPT !.state = "READY", !.worker = NoWorker] \in NodeRecords
          BY DEF NodeRecords, NodeStates
        <5>2. e.node \in Nodes
          BY <3>1 DEF TimerOf, Timers
        <5> QED BY <4>1, <5>1, <5>2 DEF ExecutionStates
      <4> HIDE DEF marked
      <4>4. e.node \in EventNodeIDs(e) /\ e.node \in Nodes
        BY <3>1 DEF EventNodeIDs, TimerOf, Timers
      <4>5. Apply(s, e) = marked => local(Apply(s, e)) /\ Apply(s, e).runState = s.runState
        BY <4>1
      <4>6. Apply(s, e) # marked => local(Apply(s, e)) /\ Apply(s, e).runState = s.runState
        BY <4>1, <4>2, <4>3, <4>4 DEF ExecutionStates
      <4> QED BY <3>4, <4>5, <4>6
    <3> QED BY <2>2, <3>3, <3>4 DEF TimerEventTypes
  <2>3. CASE e.type \in NodeEventTypes \ {"NodeCompleted"}
    <3>1. ASSUME NEW r \in NodeRecords PROVE local(Moved(r)) /\ Moved(r).runState = s.runState
      BY <2>3 DEF LogEvents, ExecutionStates, EventNodeIDs
    <3>2. e.node \in Nodes /\ e.attempt \in Nat /\ e.worker \in Workers \cup {NoWorker}
      BY <2>3 DEF LogEvents
    <3>3. s.node[e.node] \in NodeRecords
      BY <3>2 DEF ExecutionStates
    <3> DEFINE at == s.node[e.node]
               left(state) == [at EXCEPT !.state = state, !.worker = NoWorker]
               now(state)  == [state |-> state, attempt |-> e.attempt, worker |-> e.worker]
               leased      == [at EXCEPT !.attempt = e.attempt, !.worker = e.worker]
    <3>4. /\ \A state \in NodeStates : left(state) \in NodeRecords /\ now(state) \in NodeRecords
          /\ leased \in NodeRecords
      BY <3>2, <3>3 DEF NodeRecords
    <3>5. \/ Apply(s, e) = Moved(leased)
          \/ Apply(s, e) = Moved(now("RUNNING"))
          \/ Apply(s, e) = Moved(now("FAILED"))
          \/ Apply(s, e) = Moved(left("READY"))
          \/ Apply(s, e) = Moved(left("AWAITING_APPROVAL"))
          \/ Apply(s, e) = s
      <4>1. CASE e.type \in {"LeaseGranted", "NodeStarted", "NodeFailed"}
        BY <4>1 DEF Apply, LeaseGranted, NodeStarted, NodeFailed
      <4>2. CASE e.type \in {"LeaseExpired", "CheckpointReached", "CheckpointApproved"}
        BY <4>2 DEF Apply, LeaseExpired, CheckpointReached, CheckpointApproved, Release
      <4> QED BY <2>3, <4>1, <4>2 DEF NodeEventTypes
    <3> HIDE DEF local, Moved, at, left, now, leased
    <3>6. {"RUNNING", "FAILED", "READY", "AWAITING_APPROVAL"} \subseteq NodeStates
      BY DEF NodeStates
    <3>7. local(s)
      BY DEF local
    <3>8. local(Apply(s, e)) /\ Apply(s, e).runState = s.runState
      BY <3>1, <3>4, <3>5, <3>6, <3>7
    <3> QED BY <2>3, <3>8 DEF local, NodeEventTypes
  <2>4. CASE e.type = "NodeCompleted"
    <3>1. e.node \in Nodes /\ e.attempt \in Nat /\ e.worker \in Workers \cup {NoWorker}
      BY <2>4 DEF LogEvents, NodeEventTypes
    <3> DEFINE done == Moved([state |-> "COMPLETED", attempt |-> e.attempt, worker |-> e.worker])
               grown == AddNodes(done, e.spawned)
               ready == MarkReadyNodes(grown)
    <3>2. Apply(s, e) = ready
      <4>1. Def[e.node].compensation = NoActivity
        BY <3>1, DemoAssumption
      <4> QED BY <2>4, <4>1 DEF Apply, NodeCompleted
    <3>3. local(done) /\ done.runState = s.runState
      BY <3>1 DEF ExecutionStates, NodeRecords, NodeStates, EventNodeIDs
    <3> HIDE DEF done
    <3>4. /\ local(grown) /\ grown.runState = s.runState
          /\ \A n \in Nodes \ EventNodeIDs(e) : grown.node[n] = s.node[n]
      <4>1. \A n \in Nodes \ EventNodeIDs(e) : done.node[n] = s.node[n] /\ n \notin e.spawned
        BY <3>1 DEF done, EventNodeIDs, ExecutionStates
      <4>2. [state |-> "PENDING", attempt |-> 0, worker |-> NoWorker] \in NodeRecords
        BY DEF NodeRecords, NodeStates
      <4> QED BY <3>3, <4>1, <4>2 DEF AddNodes, ExecutionStates
    <3> HIDE DEF grown
    <3>5. local(ready) /\ ready.runState = s.runState
      <4>1. \A r \in NodeRecords : [r EXCEPT !.state = "READY"] \in NodeRecords
        BY DEF NodeRecords, NodeStates
      <4> QED BY <3>4, <4>1 DEF MarkReadyNodes, ExecutionStates
    <3> HIDE DEF ready, local
    <3> QED BY <2>4, <3>2, <3>5 DEF local
  <2> QED
    BY <2>1, <2>2, <2>3, <2>4 DEF LogEvents
<1>2. ASSUME NEW l \in Logs
      PROVE  /\ AppendedEvent(l, e) \in Logs
             /\ AppendedEvent(l, e).state = Apply(l.state, e)
             /\ \A p \in PhaseNames : AppendedEvent(l, e).phases[p] = Marker(l.phases[p], p, e)
             /\ Told(l) /\ AtRest(Apply(l.state, e)) => Told(AppendedEvent(l, e))
  <2> DEFINE after == Apply(l.state, e)
             m == AppendedEvent(l, e)
  <2>1. /\ after \in ExecutionStates
        /\ \A n \in Nodes \ EventNodeIDs(e) :
              \/ after.node[n] = l.state.node[n]
              \/ /\ l.state.node[n].state = "PENDING"
                 /\ after.node[n] = [l.state.node[n] EXCEPT !.state = "READY"]
    BY <1>1 DEF Logs
  <2> HIDE DEF after
  <2>2. m = [state  |-> after,
             shown  |-> [n \in Nodes |-> IF n \in EventNodeIDs(e) THEN after.node[n].state
                                                                 ELSE l.shown[n]],
             phases |-> [phase \in PhaseNames |-> Marker(l.phases[phase], phase, e)],
             recent |-> l.recent \cup {after}]
    BY DEF AppendedEvent, after, Logs
  <2>3. \A p \in PhaseNames : Marker(l.phases[p], p, e) \in {"none", "active", "complete"}
    BY DEF Marker, Logs
  <2>4. \A n \in Nodes : after.node[n].state \in NodeStates
    BY <2>1 DEF ExecutionStates, NodeRecords
  <2>5. m \in Logs
    BY <2>1, <2>2, <2>3, <2>4 DEF Logs
  <2>6. ASSUME Told(l), AtRest(after) PROVE Told(m)
    <3>1. Dated(m)
      <4> SUFFICES ASSUME NEW n \in Nodes, after.node[n].state # "ABSENT"
                   PROVE  \/ m.shown[n] = after.node[n].state
                          \/ m.shown[n] = "PENDING" /\ after.node[n].state = "READY"
                          \/ /\ m.shown[n] = "ABSENT" /\ n \in InitialNodes
                             /\ after.node[n].attempt = 0
        BY <2>2 DEF Dated, Present
      <4>1. CASE n \in EventNodeIDs(e)
        BY <2>2, <4>1
      <4>2. CASE n \notin EventNodeIDs(e)
        <5>1. m.shown[n] = l.shown[n]
          BY <2>2, <4>2
        <5>2. l.state.node[n] \in NodeRecords
          BY DEF Logs, ExecutionStates
        <5>3. /\ l.state.node[n].state # "ABSENT"
              /\ after.node[n].attempt = l.state.node[n].attempt
              /\ \/ after.node[n].state = l.state.node[n].state
                 \/ l.state.node[n].state = "PENDING" /\ after.node[n].state = "READY"
          BY <2>1, <4>2, <5>2 DEF NodeRecords
        <5>4. \/ l.shown[n] = l.state.node[n].state
              \/ l.shown[n] = "PENDING" /\ l.state.node[n].state = "READY"
              \/ l.shown[n] = "ABSENT" /\ n \in InitialNodes /\ l.state.node[n].attempt = 0
          BY <2>6, <5>3 DEF Told, Dated, Present
        <5> QED BY <5>1, <5>3, <5>4
      <4> QED BY <4>1, <4>2
    <3>2. \A s \in m.recent : AtRest(s)
      BY <2>2, <2>6 DEF Told
    <3> QED BY <3>1, <3>2 DEF Told
  <2> QED
    BY <2>2, <2>5, <2>6 DEF after
<1> QED
  BY <1>1, <1>2

(* The effect of a handler's events, those in head and the run event that  *)
(* may follow, decided on in the state s, on that state and on the log l.  *)
Effect(l, s, c, d, head, events) ==
    /\ After(s, events) \in ExecutionStates
    /\ Appended(l, events) \in Logs
    /\ \A p \in PhaseNames \ {"complete"} :
          /\ head = << >> => Appended(l, events).phases[p] = l.phases[p]
          /\ head = << c >> => Appended(l, events).phases[p] = Marker(l.phases[p], p, c)
          /\ head = << c, d >> =>
                Appended(l, events).phases[p] = Marker(Marker(l.phases[p], p, c), p, d)
    /\ Flat(s) => /\ Flat(After(s, head)) /\ Flat(After(s, events))
                  /\ After(s, AndAdvanced(s, head)) = E!Advance(After(s, head))
    /\ Flat(s) /\ l.state = s /\ s.runState # "COMPLETED" /\ Told(l) =>
          /\ Appended(l, events).state = After(s, events)
          /\ Told(Appended(l, events))
          /\ Appended(l, events).phases["complete"] =
                IF After(s, events).runState = "COMPLETED" THEN "complete"
                ELSE l.phases["complete"]

(* The phases that events begin and end.                                   *)
Phased(l, events, begun, ended) ==
    \A p \in PhaseNames \ {"complete"} :
        Appended(l, events).phases[p] =
            IF p \in ended \/ l.phases[p] = "complete" THEN "complete"
            ELSE IF p \in begun THEN "active" ELSE l.phases[p]

(* The log l takes the events that a handler decides on in the state s.    *)
Written(l, s, events) ==
    /\ After(s, events) \in ExecutionStates
    /\ Appended(l, events) \in Logs
    /\ Flat(s) => Flat(After(s, events))
    /\ Flat(s) /\ l.state = s /\ s.runState # "COMPLETED" /\ Told(l) =>
          /\ Appended(l, events).state = After(s, events)
          /\ Told(Appended(l, events))
          /\ Appended(l, events).phases["complete"] =
                IF After(s, events).runState = "COMPLETED" THEN "complete"
                ELSE l.phases["complete"]

(* What each handler's events do to the state it decides on, and to a log: *)
(* a log that takes events of its state goes on telling that state.        *)
LEMMA HandlerEffects ==
  ASSUME NEW l \in Logs, NEW s \in ExecutionStates,
         NEW n \in Nodes, NEW w \in Workers \cup {NoWorker}, NEW a \in Nat, NEW t \in Timers
  PROVE  /\ LET events == Claimed(n, w, a)
            IN  /\ Written(l, s, events) /\ Phased(l, events, {}, {})
                /\ After(s, events) = NodeStarted(LeaseGranted(s, n, w, a), n, w, a)
         /\ LET events  == Paused(n, a)
                reached == CheckpointReached(s, n)
            IN  /\ Written(l, s, events) /\ Phased(l, events, {"checkpoint"}, {})
                /\ After(s, events) = IF "checkpoint_timeout" \in Def[n].limits
                                        THEN TimerScheduled(reached, E!Timer(n, "checkpoint_timeout", a))
                                        ELSE reached
         /\ LET events == Failed(s, n, w, a)
            IN  Def[n].maxAttempts > 1 /\ a < Def[n].maxAttempts =>
                /\ Written(l, s, events) /\ Phased(l, events, {"retry"}, {})
                /\ After(s, events) = TimerScheduled(NodeFailed(s, n, w, a), E!Timer(n, "retry_backoff", a))
         /\ LET events == Completed(s, n, w, a)
                valid  == E!ValidSpawn(Spawned[n])
            IN  /\ Written(l, s, events)
                /\ Phased(l, events, {}, IF valid /\ Spawned[n] # {} THEN {"spawn"} ELSE {})
                /\ Flat(s) => After(s, events) =
                     E!Advance(IF valid THEN NodeCompleted(s, n, w, a, Spawned[n])
                                        ELSE NodeFailed(s, n, w, a))
         /\ LET events == << NodeEvent("CheckpointApproved", n, NoWorker, 0) >>
            IN  /\ Written(l, s, events) /\ Phased(l, events, {}, {"checkpoint"})
                /\ After(s, events) = CheckpointApproved(s, n)
         /\ LET events == Expired(s, n)
            IN  /\ Written(l, s, events) /\ Phased(l, events, {}, {})
                /\ Flat(s) => After(s, events) = E!Advance(LeaseExpired(s, n))
         /\ LET events == Fired(s, t)
                fired  == TimerFired(s, t)
            IN  /\ Written(l, s, events)
                /\ Phased(l, events, {}, IF t.purpose = "retry_backoff" THEN {"retry"} ELSE {})
                /\ Flat(s) => After(s, events) =
                     E!Advance(IF E!ShouldFailNode(fired, t)
                                 THEN NodeFailed(fired, t.node, s.node[t.node].worker,
                                                 s.node[t.node].attempt)
                                 ELSE fired)
         /\ Written(l, s, Advanced(s)) /\ Phased(l, Advanced(s), {}, {})
<1>0. ASSUME NEW c \in LogEvents, NEW d \in LogEvents,
             {c.type, d.type} \subseteq NodeEventTypes \cup TimerEventTypes,
             NEW head \in {<< >>, << c >>, << c, d >>},
             NEW events \in {head, AndAdvanced(s, head)}
      PROVE  Effect(l, s, c, d, head, events)
  <2> DEFINE start == [l EXCEPT !.recent = {l.state}]
             x == After(s, head)
             m == IF head = << >> THEN start ELSE Appended(l, head)
             Same(k) == Flat(s) /\ l.state = s /\ s.runState # "COMPLETED" /\ Told(l) =>
                           k.state = x /\ Told(k)
  <2>1. start \in Logs /\ start.state = l.state /\ start.phases = l.phases
    BY DEF Logs
  <2>2. l.state.runState # "COMPLETED" /\ Told(l) => Told(start)
    BY DEF Told, Dated, AtRest, Logs
  <2>3. ASSUME NEW y \in ExecutionStates, NEW e \in {c, d}
        PROVE  /\ Apply(y, e) \in ExecutionStates
               /\ Apply(y, e).runState = y.runState
               /\ Flat(y) => Flat(Apply(y, e))
    <3>1. /\ e \in LogEvents
          /\ e.type # "WorkflowCompleted" /\ e.type # "WorkflowFailed"
      BY <1>0 DEF NodeEventTypes, TimerEventTypes
    <3> QED BY <3>1, EventEffects DEF Flat
  <2>4. ASSUME NEW k \in Logs, NEW e \in {c, d}
        PROVE  /\ AppendedEvent(k, e) \in Logs
               /\ AppendedEvent(k, e).state = Apply(k.state, e)
               /\ \A p \in PhaseNames : AppendedEvent(k, e).phases[p] = Marker(k.phases[p], p, e)
               /\ AppendedEvent(k, e).phases["complete"] = k.phases["complete"]
               /\ k.state.runState # "COMPLETED" /\ Told(k) => Told(AppendedEvent(k, e))
    <3>1. e \in LogEvents /\ k.state \in ExecutionStates
      BY DEF Logs
    <3>2. Apply(k.state, e).runState = k.state.runState
      BY <2>3, <3>1
    <3>3. "complete" \notin Begins(e) /\ "complete" \notin Ends(e)
      BY <1>0, <3>1 DEF Begins, Ends, NodeEventTypes, TimerEventTypes
    <3>4. k.phases["complete"] \in {"none", "active", "complete"} /\ "complete" \in PhaseNames
      BY DEF Logs, PhaseNames
    <3>5. /\ AppendedEvent(k, e) \in Logs
          /\ AppendedEvent(k, e).state = Apply(k.state, e)
          /\ \A p \in PhaseNames : AppendedEvent(k, e).phases[p] = Marker(k.phases[p], p, e)
          /\ Told(k) /\ AtRest(Apply(k.state, e)) => Told(AppendedEvent(k, e))
      BY <3>1, EventEffects
    <3>6. AppendedEvent(k, e).phases["complete"] = k.phases["complete"]
      <4>1. AppendedEvent(k, e).phases["complete"] = Marker(k.phases["complete"], "complete", e)
        BY <3>4, <3>5
      <4> QED BY <3>3, <3>4, <4>1 DEF Marker
    <3>7. k.state.runState # "COMPLETED" => AtRest(Apply(k.state, e))
      BY <3>2 DEF AtRest
    <3> QED BY <3>5, <3>6, <3>7
  <2>6. /\ x \in ExecutionStates
        /\ m \in Logs
        /\ \A p \in PhaseNames \ {"complete"} :
              /\ head = << >> => m.phases[p] = l.phases[p]
              /\ head = << c >> => m.phases[p] = Marker(l.phases[p], p, c)
              /\ head = << c, d >> => m.phases[p] = Marker(Marker(l.phases[p], p, c), p, d)
        /\ Flat(s) => Flat(x) /\ x.runState = s.runState
        /\ m.phases["complete"] = l.phases["complete"]
        /\ Same(m)
        /\ \A f : /\ After(s, head \o << f >>) = Apply(x, f)
                  /\ Appended(l, head \o << f >>) = AppendedEvent(m, f)
    <3> HIDE DEF start
    <3>1. CASE head = << >>
      <4>1. x = s /\ m = start
        BY <3>1, EventByEvent
      <4>2. \A f : head \o << f >> = << f >>
        BY <3>1
      <4>3. \A f : /\ After(s, << f >>) = Apply(s, f)
                  /\ Appended(l, << f >>) = AppendedEvent(start, f)
        BY EventByEvent DEF start
      <4> QED BY <2>1, <2>2, <3>1, <4>1, <4>2, <4>3
    <3>2. CASE head = << c >>
      <4>1. x = Apply(s, c) /\ m = AppendedEvent(start, c)
        BY <3>2, EventByEvent DEF start
      <4>2. \A f : head \o << f >> = << c, f >>
        BY <3>2, EventByEvent
      <4>3. \A f : After(s, << c, f >>) = Apply(Apply(s, c), f)
        BY EventByEvent
      <4>4. \A f : Appended(l, << c, f >>) = AppendedEvent(AppendedEvent(start, c), f)
        BY EventByEvent DEF start
      <4> HIDE DEF x, m
      <4>5. Same(m)
        BY <2>1, <2>2, <2>4, <4>1 DEF Flat
      <4>6. head # << >> /\ head # << c, d >>
        BY <3>2
      <4>7. m \in Logs /\ m.phases["complete"] = l.phases["complete"]
        BY <2>1, <2>4, <4>1
      <4>8. \A p \in PhaseNames \ {"complete"} : m.phases[p] = Marker(l.phases[p], p, c)
        BY <2>1, <2>4, <4>1
      <4> QED BY <2>3, <4>1, <4>2, <4>3, <4>4, <4>5, <4>6, <4>7, <4>8
    <3>3. CASE head = << c, d >>
      <4>1. x = Apply(Apply(s, c), d) /\ m = AppendedEvent(AppendedEvent(start, c), d)
        BY <3>3, EventByEvent DEF start
      <4>2. \A f : head \o << f >> = << c, d, f >>
        BY <3>3, EventByEvent
      <4>3. \A f : After(s, << c, d, f >>) = Apply(Apply(Apply(s, c), d), f)
        BY EventByEvent
      <4>4. \A f : Appended(l, << c, d, f >>) =
                     AppendedEvent(AppendedEvent(AppendedEvent(start, c), d), f)
        BY EventByEvent DEF start
      <4> DEFINE y == Apply(s, c)
                 k == AppendedEvent(start, c)
      <4>5. /\ y \in ExecutionStates /\ y.runState = s.runState /\ (Flat(s) => Flat(y))
            /\ k \in Logs /\ k.state = Apply(start.state, c)
            /\ \A p \in PhaseNames : k.phases[p] = Marker(l.phases[p], p, c)
            /\ k.phases["complete"] = l.phases["complete"]
            /\ start.state.runState # "COMPLETED" /\ Told(start) => Told(k)
        BY <2>1, <2>3, <2>4
      <4> HIDE DEF x, m, y, k
      <4>6. /\ x \in ExecutionStates /\ x.runState = s.runState /\ (Flat(s) => Flat(x))
        BY <2>3, <4>1, <4>5 DEF y
      <4>7. /\ m \in Logs /\ m.state = Apply(k.state, d)
            /\ \A p \in PhaseNames : m.phases[p] = Marker(k.phases[p], p, d)
            /\ m.phases["complete"] = l.phases["complete"]
            /\ k.state.runState # "COMPLETED" /\ Told(k) => Told(m)
        BY <2>4, <4>1, <4>5 DEF k
      <4>8. head # << >> /\ head # << c >>
        BY <3>3
      <4>9. l.state = s => k.state = y /\ m.state = x
        BY <2>1, <4>1, <4>5, <4>7 DEF y
      <4>10. Same(m)
        BY <2>1, <2>2, <4>5, <4>7, <4>9
      <4>11. /\ head # << >> /\ head # << c >>
             /\ \A f : /\ After(s, head \o << f >>) = Apply(x, f)
                      /\ Appended(l, head \o << f >>) = AppendedEvent(m, f)
        BY <4>1, <4>2, <4>3, <4>4, <4>8 DEF y, k
      <4> QED BY <4>5, <4>6, <4>7, <4>10, <4>11
    <3> QED BY <3>1, <3>2, <3>3
  <2> DEFINE C == Event("WorkflowCompleted")
             F == Event("WorkflowFailed")
  <2>7. /\ AndAdvanced(s, head) = head \o Advanced(x)
        /\ Advanced(x) \in {<< >>, << C >>, << F >>}
    BY DEF AndAdvanced, Advanced
  <2>8. head \o << >> = head
    <3>1. << c >> \in Seq({c, d}) /\ << c, d >> \in Seq({c, d}) /\ << >> \in Seq({c, d})
      OBVIOUS
    <3> QED BY <3>1, ConcatEmptySeq
  <2>9. /\ {C, F} \subseteq LogEvents
        /\ C.type = "WorkflowCompleted" /\ F.type = "WorkflowFailed"
        /\ Begins(C) = {} /\ Ends(C) = {"complete"} /\ Begins(F) = {} /\ Ends(F) = {}
    <3>1. {C, F} \subseteq LogEvents
      <4> SUFFICES ASSUME NEW r \in {"WorkflowCompleted", "WorkflowFailed"}
                   PROVE  Event(r) \in LogEvents
        OBVIOUS
      <4> DEFINE e == Event(r)
      <4>1. /\ e.type = r /\ e.node = 0 /\ e.worker = NoWorker /\ e.attempt = 0
            /\ e.purpose = "" /\ e.spawned = {} /\ e.retryable = FALSE
        BY DEF Event, NodeEvent
      <4>2. e.type \notin NodeEventTypes \cup TimerEventTypes
        BY <4>1 DEF NodeEventTypes, TimerEventTypes
      <4>3. e \in [type : NodeEventTypes \cup TimerEventTypes
                               \cup {"WorkflowCompleted", "WorkflowFailed"},
                    node : Nat, worker : Workers \cup {NoWorker}, attempt : Nat,
                    purpose : Purposes \cup {""}, spawned : SUBSET Nodes, retryable : BOOLEAN]
        BY DEF Event, NodeEvent
      <4> QED BY <4>2, <4>3 DEF LogEvents
    <3>2. C.type = "WorkflowCompleted" /\ F.type = "WorkflowFailed"
      BY DEF Event, NodeEvent
    <3> HIDE DEF C, F
    <3> QED BY <3>1, <3>2 DEF Begins, Ends
  <2>10. /\ Apply(x, C) = SetRunState(x, "COMPLETED")
         /\ Apply(x, F) = SetRunState(x, "FAILED")
    BY <2>9 DEF Apply
  <2> HIDE DEF start, x, m, C, F
  <2>11. /\ Flat(x) => Flat(Apply(x, C)) /\ Flat(Apply(x, F))
    BY <2>6, <2>9, <2>10, EventEffects DEF Flat, SetRunState, ExecutionStates
  <2>12. Flat(s) => After(s, AndAdvanced(s, head)) = E!Advance(x)
    <3> SUFFICES ASSUME Flat(s) PROVE After(s, AndAdvanced(s, head)) = E!Advance(x)
      OBVIOUS
    <3>1. Flat(x)
      BY <2>6
    <3>2. CASE Advanced(x) = << >>
      BY <2>7, <2>8, <3>1, <3>2, AdvancedAdvances DEF x
    <3>3. CASE Advanced(x) = << C >>
      <4>1. E!Advance(x) = SetRunState(x, "COMPLETED")
        <5>1. C # F
          BY <2>9
        <5>2. Advanced(x) = << C >> => E!Advance(x) = SetRunState(x, "COMPLETED")
          BY <3>1, <5>1, AdvancedAdvances DEF C, F
        <5> QED BY <3>3, <5>2
      <4> QED BY <2>6, <2>7, <2>10, <3>3, <4>1
    <3>4. CASE Advanced(x) = << F >>
      <4>1. E!Advance(x) = SetRunState(x, "FAILED")
        <5>1. C # F
          BY <2>9
        <5>2. Advanced(x) = << F >> => E!Advance(x) = SetRunState(x, "FAILED")
          BY <3>1, <5>1, AdvancedAdvances DEF C, F
        <5> QED BY <3>4, <5>2
      <4> QED BY <2>6, <2>7, <2>10, <3>4, <4>1
    <3> QED BY <2>7, <3>2, <3>3, <3>4
  <2>13. CASE events = head
    <3>1. CASE head = << >>
      <4>1. Appended(l, events) = l /\ After(s, events) = s /\ x = s
        BY <2>13, <3>1, EventByEvent DEF x
      <4>2. head # << c >> /\ head # << c, d >>
        BY <3>1
      <4> QED BY <2>6, <2>12, <4>1, <4>2 DEF x, Effect
    <3>2. CASE head # << >>
      <4>1. Appended(l, events) = m /\ After(s, events) = x
        BY <2>13, <3>2 DEF x, m
      <4> QED BY <2>6, <2>12, <4>1 DEF x, Effect
    <3> QED BY <3>1, <3>2
  <2>14. CASE events = head \o << C >> /\ Advanced(x) = << C >>
    <3>1. After(s, events) = Apply(x, C) /\ Appended(l, events) = AppendedEvent(m, C)
      BY <2>6, <2>14
    <3>2. /\ AppendedEvent(m, C) \in Logs
          /\ AppendedEvent(m, C).state = Apply(m.state, C)
          /\ \A p \in PhaseNames : AppendedEvent(m, C).phases[p] = Marker(m.phases[p], p, C)
          /\ Told(m) /\ AtRest(Apply(m.state, C)) => Told(AppendedEvent(m, C))
      BY <2>6, <2>9, EventEffects
    <3>3. \A p \in PhaseNames : m.phases[p] \in {"none", "active", "complete"}
      BY <2>6 DEF Logs
    <3>4. \A p \in PhaseNames \ {"complete"} : Marker(m.phases[p], p, C) = m.phases[p]
      BY <2>9, <3>3 DEF Marker
    <3>5. /\ "complete" \in PhaseNames
          /\ Marker(m.phases["complete"], "complete", C) = "complete"
      BY <2>9, <3>3 DEF Marker, PhaseNames
    <3>6. /\ Apply(x, C) \in ExecutionStates
          /\ Apply(x, C).runState = "COMPLETED"
      BY <2>6, <2>10 DEF SetRunState, ExecutionStates, RunStates, TerminalRunStates
    <3>7. Flat(s) => AtRest(Apply(x, C))
      <4>1. ASSUME Flat(s) PROVE Present(x) = InState(x, {"COMPLETED"})
        <5>1. C # F
          BY <2>9
        <5>2. Flat(x)
          BY <2>6, <4>1
        <5>3. Advanced(x) = << C >> => Present(x) = InState(x, {"COMPLETED"})
          BY <5>1, <5>2, AdvancedAdvances DEF C, F
        <5> QED BY <2>14, <5>3
      <4>2. Apply(x, C).node = x.node
        BY <2>6, <2>10 DEF SetRunState, ExecutionStates
      <4> QED BY <4>1, <4>2 DEF AtRest, Present, InState
    <3>8. Flat(s) /\ l.state = s /\ s.runState # "COMPLETED" /\ Told(l) =>
            Appended(l, events).state = After(s, events) /\ Told(Appended(l, events))
      BY <2>6, <3>1, <3>2, <3>7
    <3>9. Appended(l, events).phases["complete"] = "complete"
      BY <2>6, <3>1, <3>2, <3>5
    <3>10. \A p \in PhaseNames \ {"complete"} : Appended(l, events).phases[p] = m.phases[p]
      BY <3>1, <3>2, <3>4
    <3> QED BY <2>6, <2>11, <2>12, <3>1, <3>2, <3>6, <3>8, <3>9, <3>10 DEF x, Effect
  <2>15. CASE events = head \o << F >>
    <3>1. After(s, events) = Apply(x, F) /\ Appended(l, events) = AppendedEvent(m, F)
      BY <2>6, <2>15
    <3>2. /\ AppendedEvent(m, F) \in Logs
          /\ AppendedEvent(m, F).state = Apply(m.state, F)
          /\ \A p \in PhaseNames : AppendedEvent(m, F).phases[p] = Marker(m.phases[p], p, F)
          /\ Told(m) /\ AtRest(Apply(m.state, F)) => Told(AppendedEvent(m, F))
      BY <2>6, <2>9, EventEffects
    <3>3. \A p \in PhaseNames : m.phases[p] \in {"none", "active", "complete"}
      BY <2>6 DEF Logs
    <3>4. \A p \in PhaseNames \ {"complete"} : Marker(m.phases[p], p, F) = m.phases[p]
      BY <2>9, <3>3 DEF Marker
    <3>5. /\ "complete" \in PhaseNames
          /\ Marker(m.phases["complete"], "complete", F) = m.phases["complete"]
      BY <2>9, <3>3 DEF Marker, PhaseNames
    <3>6. /\ Apply(x, F) \in ExecutionStates
          /\ Apply(x, F).runState = "FAILED"
      BY <2>6, <2>10 DEF SetRunState, ExecutionStates, RunStates, TerminalRunStates
    <3>7. AtRest(Apply(x, F))
      BY <3>6 DEF AtRest
    <3>8. Flat(s) /\ l.state = s /\ s.runState # "COMPLETED" /\ Told(l) =>
            Appended(l, events).state = After(s, events) /\ Told(Appended(l, events))
      BY <2>6, <3>1, <3>2, <3>7
    <3>9. Appended(l, events).phases["complete"] = l.phases["complete"]
      BY <2>6, <3>1, <3>2, <3>5
    <3>10. \A p \in PhaseNames \ {"complete"} : Appended(l, events).phases[p] = m.phases[p]
      BY <3>1, <3>2, <3>4
    <3> QED BY <2>6, <2>11, <2>12, <3>1, <3>2, <3>6, <3>8, <3>9, <3>10 DEF x, Effect
  <2> QED
    BY <2>7, <2>8, <2>12, <2>13, <2>14, <2>15
<1> DEFINE Retry == [NodeEvent("NodeFailed", n, w, a) EXCEPT !.retryable = TRUE]
           Spawning == [NodeEvent("NodeCompleted", n, w, a) EXCEPT !.spawned = Spawned[n]]
           Handled(c) == c \in LogEvents /\ c.type \in NodeEventTypes \cup TimerEventTypes
<1> DEFINE Records == [type : NodeEventTypes \cup TimerEventTypes
                                     \cup {"WorkflowCompleted", "WorkflowFailed"},
                       node : Nat, worker : Workers \cup {NoWorker}, attempt : Nat,
                       purpose : Purposes \cup {""}, spawned : SUBSET Nodes, retryable : BOOLEAN]
           Fields(e, type, k, v, b) ==
             e.type = type /\ e.node = k /\ e.worker = v /\ e.attempt = b
<1>1. ASSUME NEW type \in NodeEventTypes, NEW k \in Nodes, NEW v \in Workers \cup {NoWorker},
             NEW b \in Nat
      PROVE  LET e == NodeEvent(type, k, v, b)
             IN  Fields(e, type, k, v, b) /\ e.spawned = {} /\ ~e.retryable /\ Handled(e)
  <2> DEFINE e == NodeEvent(type, k, v, b)
  <2>1. Fields(e, type, k, v, b) /\ e.purpose = "" /\ e.spawned = {} /\ e.retryable = FALSE
    BY DEF NodeEvent
  <2>2. k \in Nat /\ type \notin TimerEventTypes
    BY DefinitionAssumption DEF NodeEventTypes, TimerEventTypes
  <2>3. e \in Records
    BY <2>2 DEF NodeEvent
  <2> HIDE DEF e
  <2> QED BY <2>1, <2>2, <2>3 DEF LogEvents, e
<1>2. Fields(Retry, "NodeFailed", n, w, a) /\ Retry.spawned = {} /\ Retry.retryable /\ Handled(Retry)
  <2>1. "NodeFailed" \in NodeEventTypes \ TimerEventTypes /\ n \in Nat
    BY DefinitionAssumption DEF NodeEventTypes, TimerEventTypes
  <2>2. /\ Fields(Retry, "NodeFailed", n, w, a) /\ Retry.spawned = {} /\ Retry.retryable
        /\ Retry \in Records
    BY <2>1 DEF NodeEvent
  <2> HIDE DEF Retry
  <2> QED BY <2>1, <2>2 DEF LogEvents
<1>3. /\ Fields(Spawning, "NodeCompleted", n, w, a) /\ Spawning.spawned = Spawned[n]
      /\ ~Spawning.retryable /\ Handled(Spawning)
  <2>1. "NodeCompleted" \in NodeEventTypes \ TimerEventTypes /\ n \in Nat
    BY DefinitionAssumption DEF NodeEventTypes, TimerEventTypes
  <2>2. Spawned[n] \in SUBSET Nodes
    BY DemoAssumption
  <2>3. /\ Fields(Spawning, "NodeCompleted", n, w, a) /\ Spawning.spawned = Spawned[n]
        /\ ~Spawning.retryable /\ Spawning \in Records
    BY <2>1, <2>2 DEF NodeEvent
  <2> HIDE DEF Spawning
  <2> QED BY <2>1, <2>3 DEF LogEvents
<1>4. ASSUME NEW type \in TimerEventTypes, NEW u \in Timers
      PROVE  LET e == TimerEvent(type, u)
             IN  /\ e.type = type /\ e.purpose = u.purpose /\ ~e.retryable /\ e.spawned = {}
                 /\ Handled(e) /\ TimerOf(e) = u
  <2> DEFINE e == TimerEvent(type, u)
  <2>1. u.node \in Nodes /\ u.node \in Nat /\ u.attempt \in Nat /\ u.purpose \in Purposes
    BY DefinitionAssumption DEF Timers
  <2>2. /\ e.type = type /\ e.node = u.node /\ e.attempt = u.attempt /\ e.purpose = u.purpose
        /\ ~e.retryable /\ e.spawned = {} /\ e \in Records
    BY <2>1 DEF TimerEvent, NodeEvent
  <2> HIDE DEF e
  <2>3. TimerOf(e) = u
    BY <2>2 DEF TimerOf, Timers
  <2> QED BY <2>1, <2>2, <2>3 DEF LogEvents, e
<1>5. ASSUME NEW c, NEW events \in {<< c >>, AndAdvanced(s, << c >>)}, Handled(c)
      PROVE  /\ Written(l, s, events)
             /\ Phased(l, events, Begins(c), Ends(c))
             /\ After(s, << c >>) = Apply(s, c)
             /\ Flat(s) => After(s, AndAdvanced(s, << c >>)) = E!Advance(Apply(s, c))
  <2>1. After(s, << c >>) = Apply(s, c)
    BY EventByEvent
  <2>2. << c >> \in {<< >>, << c >>, << c, c >>}
    OBVIOUS
  <2>3. c \in LogEvents /\ {c.type, c.type} \subseteq NodeEventTypes \cup TimerEventTypes
    BY <1>5
  <2>4. Effect(l, s, c, c, << c >>, events)
    BY <2>2, <2>3, <1>0
  <2>5. /\ Written(l, s, events)
        /\ Flat(s) => After(s, AndAdvanced(s, << c >>)) = E!Advance(After(s, << c >>))
    BY <2>4 DEF Effect, Written
  <2>6. \A p \in PhaseNames \ {"complete"} :
          Appended(l, events).phases[p] = Marker(l.phases[p], p, c)
    BY <2>4 DEF Effect
  <2> QED BY <2>1, <2>5, <2>6 DEF Phased, Marker
<1>6. ASSUME NEW c, NEW d, NEW events \in {<< c, d >>, AndAdvanced(s, << c, d >>)},
             Handled(c), Handled(d)
      PROVE  /\ Written(l, s, events)
             /\ Phased(l, events, Begins(c) \cup Begins(d), Ends(c) \cup Ends(d))
             /\ After(s, << c, d >>) = Apply(Apply(s, c), d)
             /\ Flat(s) => After(s, AndAdvanced(s, << c, d >>)) = E!Advance(Apply(Apply(s, c), d))
  <2>1. After(s, << c, d >>) = Apply(Apply(s, c), d)
    BY EventByEvent
  <2>2. << c, d >> \in {<< >>, << c >>, << c, d >>}
    OBVIOUS
  <2>3. \A p : Marker(Marker(l.phases[p], p, c), p, d) =
                 IF p \in Ends(c) \cup Ends(d) \/ l.phases[p] = "complete" THEN "complete"
                 ELSE IF p \in Begins(c) \cup Begins(d) THEN "active" ELSE l.phases[p]
    BY DEF Marker
  <2>4. /\ c \in LogEvents /\ d \in LogEvents
        /\ {c.type, d.type} \subseteq NodeEventTypes \cup TimerEventTypes
    BY <1>6
  <2>5. Effect(l, s, c, d, << c, d >>, events)
    BY <2>2, <2>4, <1>0
  <2>6. /\ Written(l, s, events)
        /\ Flat(s) => After(s, AndAdvanced(s, << c, d >>)) = E!Advance(After(s, << c, d >>))
    BY <2>5 DEF Effect, Written
  <2>7. \A p \in PhaseNames \ {"complete"} :
          Appended(l, events).phases[p] = Marker(Marker(l.phases[p], p, c), p, d)
    BY <2>5 DEF Effect
  <2> QED BY <2>1, <2>3, <2>6, <2>7 DEF Phased
<1>7. /\ {"LeaseGranted", "NodeStarted", "LeaseExpired", "CheckpointReached", "CheckpointApproved",
          "NodeFailed", "NodeCompleted"} \subseteq NodeEventTypes
      /\ {"TimerScheduled", "TimerFired"} \subseteq TimerEventTypes
      /\ NoWorker \in Workers \cup {NoWorker} /\ w \in Workers \cup {NoWorker}
  BY DEF NodeEventTypes, TimerEventTypes
<1>8. LET events == Claimed(n, w, a)
      IN  /\ Written(l, s, events) /\ Phased(l, events, {}, {})
          /\ After(s, events) = NodeStarted(LeaseGranted(s, n, w, a), n, w, a)
  <2> DEFINE c == NodeEvent("LeaseGranted", n, w, a)
             d == NodeEvent("NodeStarted", n, w, a)
  <2>1. /\ Fields(c, "LeaseGranted", n, w, a) /\ Handled(c)
        /\ Fields(d, "NodeStarted", n, w, a) /\ Handled(d)
    BY <1>1, <1>7
  <2>2. Claimed(n, w, a) = << c, d >>
    BY DEF Claimed
  <2> HIDE DEF c, d
  <2>3. Begins(c) = {} /\ Ends(c) = {} /\ Begins(d) = {} /\ Ends(d) = {}
    BY <2>1 DEF Begins, Ends
  <2>4. \A y : Apply(y, c) = LeaseGranted(y, n, w, a) /\ Apply(y, d) = NodeStarted(y, n, w, a)
    BY <2>1 DEF Apply
  <2>5. /\ Written(l, s, << c, d >>)
        /\ Phased(l, << c, d >>, Begins(c) \cup Begins(d), Ends(c) \cup Ends(d))
        /\ After(s, << c, d >>) = Apply(Apply(s, c), d)
    BY <1>6, <2>1
  <2>6. {} \cup {} = {}
    OBVIOUS
  <2> QED BY <2>2, <2>3, <2>4, <2>5, <2>6
<1>9. LET events  == Paused(n, a)
          reached == CheckpointReached(s, n)
      IN  /\ Written(l, s, events) /\ Phased(l, events, {"checkpoint"}, {})
          /\ After(s, events) = IF "checkpoint_timeout" \in Def[n].limits
                                  THEN TimerScheduled(reached, E!Timer(n, "checkpoint_timeout", a))
                                  ELSE reached
  <2> DEFINE u == E!Timer(n, "checkpoint_timeout", a)
             c == NodeEvent("CheckpointReached", n, NoWorker, a)
             d == TimerEvent("TimerScheduled", u)
  <2>0. u \in Timers
    BY DEF E!Timer, Timers, Purposes
  <2> HIDE DEF u
  <2>1. /\ Fields(c, "CheckpointReached", n, NoWorker, a) /\ Handled(c)
        /\ d.type = "TimerScheduled" /\ TimerOf(d) = u /\ Handled(d)
    <3>1. Fields(c, "CheckpointReached", n, NoWorker, a) /\ Handled(c)
      <4>1. "CheckpointReached" \in NodeEventTypes /\ NoWorker \in Workers \cup {NoWorker}
        BY <1>7
      <4> HIDE DEF Handled
      <4> QED BY <1>1, <4>1
    <3>2. d.type = "TimerScheduled" /\ TimerOf(d) = u /\ Handled(d)
      <4> HIDE DEF Handled
      <4> QED BY <1>4, <1>7, <2>0
    <3> QED BY <3>1, <3>2
  <2>2. Paused(n, a) = IF "checkpoint_timeout" \in Def[n].limits THEN << c >> \o << d >> ELSE << c >>
    BY DEF Paused, u
  <2> HIDE DEF c, d
  <2>3. Begins(c) = {"checkpoint"} /\ Ends(c) = {} /\ Begins(d) = {} /\ Ends(d) = {}
    BY <2>1 DEF Begins, Ends
  <2>4. \A y : Apply(y, c) = CheckpointReached(y, n) /\ Apply(y, d) = TimerScheduled(y, u)
    BY <2>1 DEF Apply
  <2>5. /\ Written(l, s, << c, d >>)
        /\ Phased(l, << c, d >>, Begins(c) \cup Begins(d), Ends(c) \cup Ends(d))
        /\ After(s, << c, d >>) = Apply(Apply(s, c), d)
    BY <1>6, <2>1
  <2>6. /\ Written(l, s, << c >>)
        /\ Phased(l, << c >>, Begins(c), Ends(c))
        /\ After(s, << c >>) = Apply(s, c)
    BY <1>5, <2>1
  <2>7. {} \cup {} = {} /\ {"checkpoint"} \cup {} = {"checkpoint"}
    OBVIOUS
  <2>8. << c >> \o << d >> = << c, d >>
    BY EventByEvent
  <2>9. CASE "checkpoint_timeout" \in Def[n].limits
    <3>1. Paused(n, a) = << c, d >>
      BY <2>2, <2>8, <2>9
    <3> QED BY <2>3, <2>4, <2>5, <2>7, <2>9, <3>1 DEF u
  <2>10. CASE "checkpoint_timeout" \notin Def[n].limits
    <3>1. Paused(n, a) = << c >>
      BY <2>2, <2>10
    <3> QED BY <2>3, <2>4, <2>6, <2>10, <3>1 DEF u
  <2> QED BY <2>9, <2>10
<1>10. LET events == Failed(s, n, w, a)
       IN  Def[n].maxAttempts > 1 /\ a < Def[n].maxAttempts =>
           /\ Written(l, s, events) /\ Phased(l, events, {"retry"}, {})
           /\ After(s, events) = TimerScheduled(NodeFailed(s, n, w, a), E!Timer(n, "retry_backoff", a))
  <2> DEFINE u == E!Timer(n, "retry_backoff", a)
             c == Retry
             d == TimerEvent("TimerScheduled", u)
  <2>0. u \in Timers
    BY DEF E!Timer, Timers, Purposes
  <2> HIDE DEF u
  <2>1. /\ Fields(c, "NodeFailed", n, w, a) /\ c.retryable /\ Handled(c)
        /\ d.type = "TimerScheduled" /\ TimerOf(d) = u /\ Handled(d)
    BY <1>2, <1>4, <1>7, <2>0
  <2>2. Def[n].maxAttempts > 1 /\ a < Def[n].maxAttempts => Failed(s, n, w, a) = << c >> \o << d >>
    BY DEF Failed, u
  <2> HIDE DEF c, d
  <2>3. Begins(c) = {"retry"} /\ Ends(c) = {} /\ Begins(d) = {} /\ Ends(d) = {}
    BY <2>1 DEF Begins, Ends
  <2>4. \A y : Apply(y, c) = NodeFailed(y, n, w, a) /\ Apply(y, d) = TimerScheduled(y, u)
    BY <2>1 DEF Apply
  <2>5. /\ Written(l, s, << c, d >>)
        /\ Phased(l, << c, d >>, Begins(c) \cup Begins(d), Ends(c) \cup Ends(d))
        /\ After(s, << c, d >>) = Apply(Apply(s, c), d)
    BY <1>6, <2>1
  <2>6. {} \cup {} = {} /\ {"retry"} \cup {} = {"retry"}
    OBVIOUS
  <2>7. << c >> \o << d >> = << c, d >>
    BY EventByEvent
  <2> QED BY <2>2, <2>3, <2>4, <2>5, <2>6, <2>7 DEF u
<1>11. LET events == Completed(s, n, w, a)
           valid  == E!ValidSpawn(Spawned[n])
       IN  /\ Written(l, s, events)
           /\ Phased(l, events, {}, IF valid /\ Spawned[n] # {} THEN {"spawn"} ELSE {})
           /\ Flat(s) => After(s, events) =
                E!Advance(IF valid THEN NodeCompleted(s, n, w, a, Spawned[n])
                                   ELSE NodeFailed(s, n, w, a))
  <2> DEFINE valid == E!ValidSpawn(Spawned[n])
             d == NodeEvent("NodeFailed", n, w, a)
             c == IF valid THEN Spawning ELSE d
  <2>1. Fields(d, "NodeFailed", n, w, a) /\ d.spawned = {} /\ ~d.retryable /\ Handled(d)
    BY <1>1, <1>7
  <2>2. Completed(s, n, w, a) = AndAdvanced(s, << c >>)
    BY DEF Completed
  <2> HIDE DEF valid, d, Spawning
  <2>3. Handled(c)
    BY <1>3, <2>1
  <2>4. Begins(c) = {} /\ Ends(c) = IF valid /\ Spawned[n] # {} THEN {"spawn"} ELSE {}
    <3>1. CASE valid
      BY <1>3, <3>1 DEF Begins, Ends
    <3>2. CASE ~valid
      BY <2>1, <3>2 DEF Begins, Ends
    <3> QED BY <3>1, <3>2
  <2>5. Apply(s, c) = IF valid THEN NodeCompleted(s, n, w, a, Spawned[n]) ELSE NodeFailed(s, n, w, a)
    <3>1. CASE valid
      BY <1>3, <3>1 DEF Apply
    <3>2. CASE ~valid
      BY <2>1, <3>2 DEF Apply
    <3> QED BY <3>1, <3>2
  <2> HIDE DEF c
  <2>6. /\ Written(l, s, AndAdvanced(s, << c >>))
        /\ Phased(l, AndAdvanced(s, << c >>), Begins(c), Ends(c))
        /\ Flat(s) => After(s, AndAdvanced(s, << c >>)) = E!Advance(Apply(s, c))
    BY <1>5, <2>3
  <2> QED BY <2>2, <2>4, <2>5, <2>6 DEF valid
<1>12. LET events == << NodeEvent("CheckpointApproved", n, NoWorker, 0) >>
       IN  /\ Written(l, s, events) /\ Phased(l, events, {}, {"checkpoint"})
           /\ After(s, events) = CheckpointApproved(s, n)
  <2> DEFINE c == NodeEvent("CheckpointApproved", n, NoWorker, 0)
  <2>1. Fields(c, "CheckpointApproved", n, NoWorker, 0) /\ Handled(c)
    BY <1>1, <1>7
  <2> HIDE DEF c
  <2>2. Begins(c) = {} /\ Ends(c) = {"checkpoint"}
    BY <2>1 DEF Begins, Ends
  <2>3. Apply(s, c) = CheckpointApproved(s, n)
    BY <2>1 DEF Apply
  <2>4. Written(l, s, << c >>) /\ Phased(l, << c >>, Begins(c), Ends(c)) /\ After(s, << c >>) = Apply(s, c)
    BY <1>5, <2>1
  <2> QED BY <2>2, <2>3, <2>4 DEF c
<1>13. LET events == Expired(s, n)
       IN  /\ Written(l, s, events) /\ Phased(l, events, {}, {})
           /\ Flat(s) => After(s, events) = E!Advance(LeaseExpired(s, n))
  <2> DEFINE c == NodeEvent("LeaseExpired", n, NoWorker, s.node[n].attempt)
  <2>1. Fields(c, "LeaseExpired", n, NoWorker, s.node[n].attempt) /\ Handled(c)
    <3> DEFINE b == s.node[n].attempt
    <3>1. b \in Nat
      BY DEF ExecutionStates, NodeRecords
    <3>2. "LeaseExpired" \in NodeEventTypes /\ NoWorker \in Workers \cup {NoWorker}
      BY <1>7
    <3> HIDE DEF b, Handled
    <3>3. LET e == NodeEvent("LeaseExpired", n, NoWorker, b)
          IN  Fields(e, "LeaseExpired", n, NoWorker, b) /\ Handled(e)
      BY <1>1, <3>1, <3>2
    <3> QED BY <3>3 DEF b
  <2>2. Expired(s, n) = AndAdvanced(s, << c >>)
    BY DEF Expired
  <2> HIDE DEF c
  <2>3. Begins(c) = {} /\ Ends(c) = {}
    BY <2>1 DEF Begins, Ends
  <2>4. Apply(s, c) = LeaseExpired(s, n)
    BY <2>1 DEF Apply
  <2>5. /\ Written(l, s, AndAdvanced(s, << c >>))
        /\ Phased(l, AndAdvanced(s, << c >>), Begins(c), Ends(c))
        /\ Flat(s) => After(s, AndAdvanced(s, << c >>)) = E!Advance(Apply(s, c))
    BY <1>5, <2>1
  <2> QED BY <2>2, <2>3, <2>4, <2>5
<1>14. LET events == Fired(s, t)
           fired  == TimerFired(s, t)
       IN  /\ Written(l, s, events)
           /\ Phased(l, events, {}, IF t.purpose = "retry_backoff" THEN {"retry"} ELSE {})
           /\ Flat(s) => After(s, events) =
                E!Advance(IF E!ShouldFailNode(fired, t)
                            THEN NodeFailed(fired, t.node, s.node[t.node].worker,
                                            s.node[t.node].attempt)
                            ELSE fired)
  <2> DEFINE fired == TimerFired(s, t)
             ended == IF t.purpose = "retry_backoff" THEN {"retry"} ELSE {}
             k == t.node
             c == TimerEvent("TimerFired", t)
             d == NodeEvent("NodeFailed", k, s.node[k].worker, s.node[k].attempt)
  <2>1. /\ c.type = "TimerFired" /\ c.purpose = t.purpose /\ Handled(c) /\ TimerOf(c) = t
        /\ Fields(d, "NodeFailed", k, s.node[k].worker, s.node[k].attempt) /\ ~d.retryable
        /\ Handled(d)
    <3>1. k \in Nodes
      BY DEF Timers
    <3> DEFINE b == s.node[k].attempt
               v == s.node[k].worker
    <3>2. b \in Nat /\ v \in Workers \cup {NoWorker}
      BY <3>1 DEF ExecutionStates, NodeRecords
    <3>3. "NodeFailed" \in NodeEventTypes /\ "TimerFired" \in TimerEventTypes
      BY <1>7
    <3>4. c.type = "TimerFired" /\ c.purpose = t.purpose /\ Handled(c) /\ TimerOf(c) = t
      <4> HIDE DEF Handled
      <4> QED BY <1>4, <3>3
    <3> HIDE DEF b, v, k, Handled
    <3>5. LET e == NodeEvent("NodeFailed", k, v, b)
          IN  Fields(e, "NodeFailed", k, v, b) /\ ~e.retryable /\ Handled(e)
      BY <1>1, <3>1, <3>2, <3>3
    <3> QED BY <3>4, <3>5 DEF b, v, k
  <2> HIDE DEF c, d
  <2>2. Begins(c) = {} /\ Ends(c) = ended /\ Begins(d) = {} /\ Ends(d) = {}
    BY <2>1 DEF Begins, Ends
  <2>3. Apply(s, c) = fired /\ After(s, << c >>) = fired
    BY <1>5, <2>1 DEF Apply
  <2> HIDE DEF fired, ended
  <2>4. Apply(fired, d) = NodeFailed(fired, k, s.node[k].worker, s.node[k].attempt)
    BY <2>1 DEF Apply
  <2>5. CASE E!ShouldFailNode(fired, t)
    <3>1. Fired(s, t) = AndAdvanced(s, << c, d >>)
      <4>1. << c >> \o << d >> = << c, d >>
        BY EventByEvent
      <4> QED BY <2>3, <2>5, <4>1 DEF Fired, c, d
    <3>2. /\ Written(l, s, AndAdvanced(s, << c, d >>))
          /\ Phased(l, AndAdvanced(s, << c, d >>), Begins(c) \cup Begins(d), Ends(c) \cup Ends(d))
          /\ Flat(s) => After(s, AndAdvanced(s, << c, d >>)) = E!Advance(Apply(Apply(s, c), d))
      BY <1>6, <2>1
    <3>3. {} \cup {} = {} /\ ended \cup {} = ended
      OBVIOUS
    <3> QED BY <2>2, <2>3, <2>4, <2>5, <3>1, <3>2, <3>3 DEF fired, ended
  <2>6. CASE ~E!ShouldFailNode(fired, t)
    <3>1. Fired(s, t) = AndAdvanced(s, << c >>)
      BY <2>3, <2>6 DEF Fired, c
    <3>2. /\ Written(l, s, AndAdvanced(s, << c >>))
          /\ Phased(l, AndAdvanced(s, << c >>), Begins(c), Ends(c))
          /\ Flat(s) => After(s, AndAdvanced(s, << c >>)) = E!Advance(Apply(s, c))
      BY <1>5, <2>1
    <3> QED BY <2>2, <2>3, <2>6, <3>1, <3>2 DEF fired, ended
  <2> QED BY <2>5, <2>6
<1>15. Written(l, s, Advanced(s)) /\ Phased(l, Advanced(s), {}, {})
  <2> DEFINE c == Retry
  <2>1. AndAdvanced(s, << >>) = Advanced(s)
    <3>1. After(s, << >>) = s
      BY EventByEvent
    <3>2. Advanced(s) \in {<< >>, << Event("WorkflowCompleted") >>, << Event("WorkflowFailed") >>}
      BY DEF Advanced
    <3>3. \A e : << >> \o << e >> = << e >>
      OBVIOUS
    <3>4. << >> \o << >> = << >>
      OBVIOUS
    <3> QED BY <3>1, <3>2, <3>3, <3>4 DEF AndAdvanced
  <2>2. Handled(c)
    BY <1>2
  <2> HIDE DEF c
  <2>3. Effect(l, s, c, c, << >>, Advanced(s))
    <3>1. << >> \in {<< >>, << c >>, << c, c >>} /\ Advanced(s) \in {<< >>, AndAdvanced(s, << >>)}
      BY <2>1
    <3>2. c \in LogEvents /\ {c.type, c.type} \subseteq NodeEventTypes \cup TimerEventTypes
      BY <2>2
    <3> QED BY <3>1, <3>2, <1>0
  <2>4. Written(l, s, Advanced(s))
    BY <2>3 DEF Effect, Written
  <2>5. \A p \in PhaseNames \ {"complete"} : Appended(l, Advanced(s)).phases[p] = l.phases[p]
    BY <2>3 DEF Effect
  <2> QED BY <2>4, <2>5 DEF Phased
<1> QED
  BY <1>8, <1>9, <1>10, <1>11, <1>12, <1>13, <1>14, <1>15

-----------------------------------------------------------------------------
(* The inductive invariant *)

(* The log has the approval of the gate.                                   *)
Approved == log.phases["checkpoint"] = "complete"

Loops == [pc : {"starting", "polling", "working", "ended"}, node : Nat, attempt : Nat]

Typed ==
    /\ log \in Logs
    /\ Flat(memory)
    /\ worker \in [Workers -> Loops]
    /\ approver \in {"watching", "approving", "ended"}
    /\ other \in ExecutionStates \cup {Closed, Empty}
    /\ stalls \in 0 .. MaxStalls

(* Nothing happens before the run is started, and a run that completed has *)
(* nothing left to do.                                                     *)
Begun ==
    /\ memory.runState = "NONE" =>
          /\ memory = New /\ log = NewLog /\ ~Loaded
          /\ \A w \in Workers : worker[w].pc = "starting"
    /\ memory.runState # "NONE" => InitialNodes \subseteq Present(memory)
    /\ memory.runState = "COMPLETED" => Present(memory) = InState(memory, {"COMPLETED"})

(* A node that never got ready has used no attempt, and one that did waits *)
(* for nothing.                                                            *)
Fresh == \A n \in InState(memory, {"ABSENT", "PENDING"}) : memory.node[n].attempt = 0

Ordered ==
    \A n \in Nodes : n \in InState(memory, {"ABSENT", "PENDING"}) \/ DependenciesCompleted(memory, n)

(* An attempt follows the expiry of a lease, or the one failure or the one *)
(* approval that a node may have.                                          *)
Counted ==
    \A n \in Nodes : /\ memory.node[n].attempt <= stalls + 2
                     /\ memory.node[n].state = "READY" => memory.node[n].attempt <= stalls + 1

Waits == \A n \in InState(memory, {"AWAITING_APPROVAL"}) : n = Gate /\ memory.node[n].attempt = 1

Retries ==
    \A t \in memory.pending : t.purpose = "retry_backoff" =>
        /\ t.node \in Flaky /\ t.attempt = 1
        /\ memory.node[t.node].state = "FAILED" /\ memory.node[t.node].attempt = 1

At(w, n, a) == worker[w] = [pc |-> "working", node |-> n, attempt |-> a]

(* A lease is held by a worker whose loop is at just that task.            *)
Working ==
    /\ \A n \in InState(memory, {"RUNNING"}) :
          /\ memory.node[n].worker \in Workers
          /\ At(memory.node[n].worker, n, memory.node[n].attempt)
    /\ \A w \in Workers : worker[w].pc = "working" =>
          /\ worker[w].node \in Nodes /\ worker[w].attempt > 0
          /\ Def[worker[w].node].activity \in Skills[w]

Asks == approver = "approving" => memory.node[Draft].state = "COMPLETED"

(* Before its approval the gate is leased once: should that lease expire,  *)
(* the only worker that could lease it again still has the first task in   *)
(* hand, and ends as soon as it reports.                                   *)
GateHeld ==
    LET gate == memory.node[Gate]
    IN  IF Approved
          THEN /\ memory.node[Draft].state = "COMPLETED"
               /\ gate.attempt > 0
               /\ gate.attempt = 1 => gate.state = "READY"
          ELSE /\ gate.attempt <= 1
               /\ gate.state # "COMPLETED"
               /\ gate.state = "READY" /\ gate.attempt = 1 =>
                     \A w \in Workers : Def[Gate].activity \in Skills[w] =>
                        worker[w].pc = "ended" \/ At(w, Gate, 1)

DemoInv ==
    /\ Typed /\ Begun /\ Fresh /\ Ordered /\ Counted /\ Waits /\ Retries
    /\ Working /\ Asks /\ GateHeld

(* How a handler changes the nodes: the one it is about, and besides those *)
(* that are added or get ready.                                            *)
Moved(s, t, k, spawned) ==
    /\ t.runState \in {s.runState, "COMPLETED", "FAILED"}
    /\ t.runState = "COMPLETED" => Present(t) = InState(t, {"COMPLETED"})
    /\ Present(t) = Present(s) \cup spawned
    /\ \A m \in Nodes \ {k} :
          \/ t.node[m] = s.node[m]
          \/ /\ s.node[m].state \in {"ABSENT", "PENDING"}
             /\ t.node[m].attempt = s.node[m].attempt
             /\ \/ t.node[m].state = "PENDING"
                \/ t.node[m].state = "READY" /\ DependenciesCompleted(t, m)

(* A handler that gives one node another record, or completes it, moves    *)
(* the state in this way, whether or not the run is advanced.              *)
LEMMA OneNodeMoves ==
  ASSUME NEW s, Flat(s), s.runState # "COMPLETED",
         \A n \in InState(s, {"ABSENT", "PENDING"}) : s.node[n].attempt = 0,
         NEW k \in Nodes, NEW x, Flat(x), x.runState = s.runState,
         NEW t \in {x, E!Advance(x)}
  PROVE  /\ Flat(t) /\ t.node = x.node /\ t.pending = x.pending
         /\ \A r \in NodeRecords :
               /\ x.node = [s.node EXCEPT ![k] = r]
               /\ r.state = "ABSENT" <=> s.node[k].state = "ABSENT"
               => Moved(s, t, k, {}) /\ t.node[k] = r
         /\ \A w \in Workers, a \in Nat, spawned \in SUBSET (Nodes \ Present(s)) :
               s.node[k].state # "ABSENT" /\ x = NodeCompleted(s, k, w, a, spawned) =>
                  /\ Moved(s, t, k, spawned) /\ t.pending = s.pending
                  /\ t.node[k] = [state |-> "COMPLETED", attempt |-> a, worker |-> w]
<1>1. /\ Flat(t) /\ t.node = x.node /\ t.pending = x.pending
      /\ t.runState \in {s.runState, "COMPLETED", "FAILED"}
      /\ t.runState = "COMPLETED" => Present(t) = InState(t, {"COMPLETED"})
  <2>1. CASE t = x
    BY <2>1
  <2>2. CASE t = E!Advance(x) /\ E!Advance(x) = x
    BY <2>2
  <2>3. CASE /\ t = SetRunState(x, "COMPLETED")
             /\ Present(x) = InState(x, {"COMPLETED"})
    BY <2>3 DEF SetRunState, Flat, ExecutionStates, RunStates, TerminalRunStates, Present, InState
  <2>4. CASE t = SetRunState(x, "FAILED")
    BY <2>4 DEF SetRunState, Flat, ExecutionStates, RunStates, TerminalRunStates
  <2> QED BY <2>1, <2>2, <2>3, <2>4, AdvancedAdvances
<1>2. s.node \in [Nodes -> NodeRecords] /\ x.node \in [Nodes -> NodeRecords]
  BY DEF Flat, ExecutionStates
<1>3. ASSUME NEW r \in NodeRecords, x.node = [s.node EXCEPT ![k] = r],
             r.state = "ABSENT" <=> s.node[k].state = "ABSENT"
      PROVE  Moved(s, t, k, {}) /\ t.node[k] = r
  <2>1. t.node[k] = r /\ \A m \in Nodes \ {k} : t.node[m] = s.node[m]
    BY <1>1, <1>2, <1>3
  <2>2. Present(t) = Present(s) \cup {}
    BY <1>3, <2>1 DEF Present
  <2> QED BY <1>1, <2>1, <2>2 DEF Moved
<1>4. ASSUME NEW w \in Workers, NEW a \in Nat, NEW spawned \in SUBSET (Nodes \ Present(s)),
             s.node[k].state # "ABSENT", x = NodeCompleted(s, k, w, a, spawned)
      PROVE  /\ Moved(s, t, k, spawned) /\ t.pending = s.pending
             /\ t.node[k] = [state |-> "COMPLETED", attempt |-> a, worker |-> w]
  <2> DEFINE done  == [state |-> "COMPLETED", attempt |-> a, worker |-> w]
             new   == [state |-> "PENDING", attempt |-> 0, worker |-> NoWorker]
             d     == [s EXCEPT !.node[k] = done]
             grown == AddNodes(d, spawned)
  <2>1. x = MarkReadyNodes(grown)
    BY <1>4, DemoAssumption DEF NodeCompleted
  <2>2. k \notin spawned
    BY <1>4 DEF Present
  <2>3. grown.node = [n \in Nodes |-> IF n \in spawned THEN new ELSE IF n = k THEN done ELSE s.node[n]]
    BY <1>2, <2>2 DEF AddNodes, Flat, ExecutionStates
  <2>4. x.pending = s.pending
    BY <2>1 DEF MarkReadyNodes, AddNodes, Flat, ExecutionStates
  <2> HIDE DEF grown
  <2>5. x.node = [n \in Nodes |-> IF grown.node[n].state = "PENDING" /\ DependenciesCompleted(grown, n)
                                    THEN [grown.node[n] EXCEPT !.state = "READY"]
                                    ELSE grown.node[n]]
    <3>1. grown \in ExecutionStates
      <4>1. done \in NodeRecords /\ new \in NodeRecords
        BY DEF NodeRecords, NodeStates
      <4>2. d \in ExecutionStates
        BY <4>1 DEF Flat, ExecutionStates
      <4> HIDE DEF d, new
      <4> QED BY <4>1, <4>2 DEF grown, AddNodes, ExecutionStates, new
    <3> QED BY <2>1, <3>1 DEF MarkReadyNodes, ExecutionStates
  <2>6. x.node[k] = done
    BY <2>2, <2>3, <2>5
  <2>7. \A m \in Nodes \ {k} :
           /\ m \in spawned => grown.node[m] = new /\ s.node[m].state = "ABSENT"
           /\ m \notin spawned => grown.node[m] = s.node[m]
    BY <2>3 DEF Present
  <2>8. \A m \in Nodes : x.node[m].state = "COMPLETED" <=> grown.node[m].state = "COMPLETED"
    <3>1. \A m \in Nodes : grown.node[m] \in NodeRecords
      BY <1>2, <2>3 DEF NodeRecords, NodeStates
    <3> QED BY <2>5, <3>1 DEF NodeRecords
  <2>9. \A m \in Nodes : DependenciesCompleted(grown, m) => DependenciesCompleted(t, m)
    BY <1>1, <2>8 DEF DependenciesCompleted, InState
  <2>10. ASSUME NEW m \in Nodes \ {k}
         PROVE  \/ t.node[m] = s.node[m]
                \/ /\ s.node[m].state \in {"ABSENT", "PENDING"}
                   /\ t.node[m].attempt = s.node[m].attempt
                   /\ \/ t.node[m].state = "PENDING"
                      \/ t.node[m].state = "READY" /\ DependenciesCompleted(t, m)
    <3>1. s.node[m] \in NodeRecords
      BY <1>2
    <3>2. s.node[m].state \in {"ABSENT", "PENDING"} => s.node[m].attempt = 0
      BY DEF InState
    <3>3. CASE m \in spawned
      BY <1>1, <2>5, <2>7, <2>9, <3>2, <3>3
    <3>4. CASE m \notin spawned
      <4>1. grown.node[m] = s.node[m]
        BY <2>7, <3>4
      <4> QED BY <1>1, <2>5, <2>9, <3>1, <4>1 DEF NodeRecords
    <3> QED BY <3>3, <3>4
  <2>11. Present(t) = Present(s) \cup spawned
    <3>1. \A m \in Nodes : x.node[m].state # "ABSENT" <=> grown.node[m].state # "ABSENT"
      <4>1. \A m \in Nodes : grown.node[m] \in NodeRecords
        BY <1>2, <2>3 DEF NodeRecords, NodeStates
      <4> QED BY <2>5, <4>1 DEF NodeRecords
    <3>2. \A m \in Nodes : grown.node[m].state # "ABSENT" <=> s.node[m].state # "ABSENT" \/ m \in spawned
      BY <1>4, <2>2, <2>3
    <3> QED BY <1>1, <3>1, <3>2 DEF Present
  <2> QED BY <1>1, <2>4, <2>6, <2>10, <2>11 DEF Moved
<1> QED
  BY <1>1, <1>3, <1>4

(* The log takes the events of a step of `grael start`.                    *)
Tells(begun, ended) ==
    /\ log' \in Logs /\ Flat(memory')
    /\ \A p \in PhaseNames \ {"complete"} :
          log'.phases[p] = IF p \in ended \/ log.phases[p] = "complete" THEN "complete"
                           ELSE IF p \in begun THEN "active" ELSE log.phases[p]
    /\ log.state = memory /\ memory.runState # "COMPLETED" /\ Told(log) =>
          /\ log'.state = memory' /\ Told(log')
          /\ log'.phases["complete"] = IF memory'.runState = "COMPLETED" THEN "complete"
                                       ELSE log.phases["complete"]

Starts ==
    /\ memory = New /\ log = NewLog
    /\ memory' = WorkflowStarted(memory)
    /\ Flat(memory') /\ memory'.runState = "RUNNING" /\ memory'.pending = {}
    /\ \A n \in Nodes :
          /\ memory'.node[n].attempt = 0
          /\ IF n \notin InitialNodes THEN memory'.node[n].state = "ABSENT"
             ELSE \/ memory'.node[n].state = "PENDING"
                  \/ memory'.node[n].state = "READY" /\ DependenciesCompleted(memory', n)
    /\ log' \in Logs /\ log'.state = memory' /\ Told(log')
    /\ \A p \in PhaseNames : log'.phases[p] = "none"

(* A step is about the node n, which it leaves in this state.              *)
Leaves(n, state, a, w, spawned) ==
    /\ memory.runState \in {"RUNNING", "FAILED"}
    /\ Moved(memory, memory', n, spawned)
    /\ memory'.node[n] = [state |-> state, attempt |-> a, worker |-> w]

Claims(w, n, a) ==
    /\ n \in ReadyFor(w) /\ \A m \in ReadyFor(w) : n <= m
    /\ worker[w].pc = "polling" /\ a = memory.node[n].attempt + 1
    /\ memory' = NodeStarted(LeaseGranted(memory, n, w, a), n, w, a)
    /\ Leaves(n, "RUNNING", a, w, {}) /\ memory'.pending = memory.pending
    /\ memory.runState = "RUNNING"
    /\ worker' = [worker EXCEPT ![w] = [pc |-> "working", node |-> n, attempt |-> a]]
    /\ Tells({}, {})

Pauses(n, a) ==
    LET reached == CheckpointReached(memory, n)
        t       == E!Timer(n, "checkpoint_timeout", a)
    IN  /\ n = Gate /\ a = 1
        /\ memory' = IF "checkpoint_timeout" \in Def[n].limits THEN TimerScheduled(reached, t)
                                                              ELSE reached
        /\ Leaves(n, "AWAITING_APPROVAL", a, NoWorker, {})
        /\ memory'.pending \in {memory.pending, memory.pending \cup {t}}
        /\ Tells({"checkpoint"}, {})

Fails(n, w, a) ==
    LET t == E!Timer(n, "retry_backoff", a)
    IN  /\ n \in Flaky /\ a = 1
        /\ memory' = TimerScheduled(NodeFailed(memory, n, w, a), t)
        /\ Leaves(n, "FAILED", a, w, {}) /\ memory'.pending = memory.pending \cup {t}
        /\ Tells({"retry"}, {})

(* A completion whose spawn is refused is a failure.                       *)
Completes(n, w, a) ==
    LET spawned == Spawned[n]
    IN  /\ n \in Flaky \cup {Gate} => a # 1
        /\ memory'.pending = memory.pending
        /\ \/ /\ E!ValidSpawn(spawned) /\ spawned \cap Present(memory) = {}
              /\ memory' = E!Advance(NodeCompleted(memory, n, w, a, spawned))
              /\ Leaves(n, "COMPLETED", a, w, spawned)
              /\ Tells({}, IF spawned # {} THEN {"spawn"} ELSE {})
           \/ /\ ~E!ValidSpawn(spawned)
              /\ memory' = E!Advance(NodeFailed(memory, n, w, a))
              /\ Leaves(n, "FAILED", a, w, {})
              /\ Tells({}, {})

Reports(w, n, a) ==
    \/ /\ E!Holds(w, n, a) /\ n \in Nodes
       /\ worker' = [worker EXCEPT ![w] = Loop("polling")]
       /\ Pauses(n, a) \/ Fails(n, w, a) \/ Completes(n, w, a)
    \/ /\ ~E!Holds(w, n, a)
       /\ worker' = [worker EXCEPT ![w] = Loop("ended")]
       /\ UNCHANGED <<log, memory>>

Fires(t) ==
    LET n     == t.node
        node  == memory.node[n]
        fired == TimerFired(memory, t)
    IN  /\ memory.runState = "RUNNING"
        /\ LET ended == IF E!ShouldFailNode(fired, t)
                          THEN NodeFailed(fired, n, node.worker, node.attempt) ELSE fired
           IN  Flat(ended) /\ memory' = E!Advance(ended)
        /\ memory'.pending = memory.pending \ {t}
        /\ \/ /\ t.purpose = "retry_backoff"
              /\ Leaves(n, "READY", 1, NoWorker, {}) /\ Tells({}, {"retry"})
           \/ /\ t.purpose = "checkpoint_timeout" /\ Tells({}, {})
              /\ \/ /\ node.state = "AWAITING_APPROVAL"
                    /\ Leaves(n, "FAILED", node.attempt, node.worker, {})
                 \/ /\ memory'.node[n] = node
                    /\ Moved(memory, memory', n, {})

(* What each step of `grael start` on the run does.                        *)
LEMMA ActionsMove ==
  ASSUME DemoInv
  PROVE  /\ StartRun => Starts
         /\ \A w \in Workers : ClaimTask(w) => \E n \in Nodes, a \in Nat : Claims(w, n, a)
         /\ \A w \in Workers : Report(w) => Reports(w, worker[w].node, worker[w].attempt)
         /\ Approve /\ approver' = "watching" =>
               /\ memory.runState = "RUNNING" /\ memory.node[Gate].state = "AWAITING_APPROVAL"
               /\ memory' = CheckpointApproved(memory, Gate)
               /\ Leaves(Gate, "READY", 1, NoWorker, {}) /\ memory'.pending = memory.pending
               /\ Tells({}, {"checkpoint"})
         /\ \A n \in Nodes : ExpireLease(n) =>
               /\ memory' = E!Advance(LeaseExpired(memory, n))
               /\ Leaves(n, "READY", memory.node[n].attempt, NoWorker, {})
               /\ memory'.pending = memory.pending
               /\ Tells({}, {})
         /\ \A n \in Nodes : \A t \in {RetryTimer(n), ApprovalTimer(n)} : FireTimer(t) => Fires(t)
<1> DEFINE s == memory
<1>1. /\ log \in Logs /\ Flat(s) /\ s \in ExecutionStates
      /\ \A n \in InState(s, {"ABSENT", "PENDING"}) : s.node[n].attempt = 0
      /\ \A n \in Nodes : s.node[n] \in NodeRecords
  BY DEF DemoInv, Typed, Flat, Fresh, ExecutionStates
<1>2. ASSUME NEW n \in Nodes, s.node[n].state \notin {"ABSENT", "COMPLETED"}
      PROVE  s.runState \in {"RUNNING", "FAILED"}
  <2>1. New.node[n].state = "ABSENT"
    BY DEF New
  <2>2. n \in Present(s) /\ n \notin InState(s, {"COMPLETED"})
    BY <1>2 DEF Present, InState
  <2> QED BY <1>1, <1>2, <2>1, <2>2 DEF DemoInv, Begun, Flat
<1>3. ASSUME NEW events, Emit(events), Written(log, s, events), NEW begun, NEW ended,
             Phased(log, events, begun, ended)
      PROVE  Tells(begun, ended) /\ memory' = After(s, events)
  BY <1>1, <1>3 DEF Emit, Written, Phased, Tells
<1>4. ASSUME NEW n \in Nodes, NEW x, NEW state \in NodeStates, NEW a \in Nat,
             NEW w \in Workers \cup {NoWorker},
             s.node[n].state \notin {"ABSENT", "COMPLETED"}, state # "ABSENT",
             Flat(x), x.runState = s.runState,
             x.node = [s.node EXCEPT ![n] = [state |-> state, attempt |-> a, worker |-> w]],
             memory' \in {x, E!Advance(x)}
      PROVE  Leaves(n, state, a, w, {}) /\ memory'.pending = x.pending
  <2> DEFINE r == [state |-> state, attempt |-> a, worker |-> w]
  <2>1. r \in NodeRecords /\ r.state # "ABSENT"
    BY <1>4 DEF NodeRecords
  <2>2. s.runState # "COMPLETED"
    BY <1>2, <1>4
  <2> HIDE DEF r
  <2>3. x.node = [s.node EXCEPT ![n] = r] => Moved(s, memory', n, {}) /\ memory'.node[n] = r
    BY <1>1, <1>4, <2>1, <2>2, OneNodeMoves
  <2>4. memory'.pending = x.pending
    BY <1>1, <1>4, <2>2, OneNodeMoves
  <2> QED BY <1>2, <1>4, <2>3, <2>4 DEF Leaves, r
<1>5. /\ \A n \in Nodes, a \in Nat, p \in Purposes : E!Timer(n, p, a) \in Timers
      /\ {"retry_backoff", "checkpoint_timeout"} \subseteq Purposes
      /\ {"READY", "RUNNING", "AWAITING_APPROVAL", "FAILED", "COMPLETED"} \subseteq NodeStates
      /\ \A n \in Nodes : s.node[n].attempt \in Nat /\ s.node[n].worker \in Workers \cup {NoWorker}
  BY <1>1 DEF E!Timer, Timers, Purposes, NodeStates, NodeRecords
<1>6. /\ s.node \in [Nodes -> NodeRecords] /\ s.pending \in SUBSET Timers
      /\ \A n \in Nodes : {s.node[n]} \subseteq [state : NodeStates, attempt : Nat, worker : Workers \cup {NoWorker}]
  BY <1>1 DEF ExecutionStates, NodeRecords
<1>9. ASSUME NEW y \in ExecutionStates, NEW n \in Nodes, NEW state \in NodeStates
      PROVE  LET t == Release(y, n, state)
             IN  /\ t.runState = y.runState /\ t.pending = y.pending
                 /\ t \in ExecutionStates /\ (Flat(y) => Flat(t))
                 /\ t.node = [y.node EXCEPT ![n] =
                                [state |-> state, attempt |-> y.node[n].attempt, worker |-> NoWorker]]
  <2> DEFINE q == [y.node[n] EXCEPT !.state = state, !.worker = NoWorker]
             r == [state |-> state, attempt |-> y.node[n].attempt, worker |-> NoWorker]
             t == Release(y, n, state)
  <2>1. y.node[n] \in NodeRecords
    BY DEF ExecutionStates
  <2>2. q \in NodeRecords /\ q.state = state /\ q.attempt = y.node[n].attempt /\ q.worker = NoWorker
    BY <2>1 DEF NodeRecords
  <2>3. \A b \in NodeRecords : b = [state |-> b.state, attempt |-> b.attempt, worker |-> b.worker]
    BY DEF NodeRecords
  <2> HIDE DEF q
  <2>4. q = r
    BY <2>2, <2>3
  <2>5. t = [y EXCEPT !.node = [y.node EXCEPT ![n] = q]]
    BY DEF Release, q, ExecutionStates
  <2> HIDE DEF t, r
  <2>6. t.node = [y.node EXCEPT ![n] = q]
    BY <2>5 DEF ExecutionStates
  <2>7. t.node \in [Nodes -> NodeRecords]
    BY <2>2, <2>6 DEF ExecutionStates
  <2>8. t = [y EXCEPT !.node = t.node]
    BY <2>5, <2>6
  <2>9. t \in ExecutionStates /\ t.runState = y.runState /\ t.pending = y.pending /\ (Flat(y) => Flat(t))
    BY <2>7, <2>8 DEF ExecutionStates, Flat
  <2> QED BY <2>4, <2>6, <2>9 DEF t, r
<1>7. ASSUME NEW w \in Workers, ClaimTask(w) PROVE \E n \in Nodes, a \in Nat : Claims(w, n, a)
  <2> DEFINE n == Min(ReadyFor(w))
             a == s.node[n].attempt + 1
             events == Claimed(n, w, a)
             x == NodeStarted(LeaseGranted(s, n, w, a), n, w, a)
  <2>1. n \in ReadyFor(w) /\ \A m \in ReadyFor(w) : n <= m
    <3> DEFINE S == ReadyFor(w)
    <3>1. S \in SUBSET Nat /\ S # {}
      BY <1>7, DefinitionAssumption DEF ClaimTask, CanClaim, ReadyFor, InState
    <3> HIDE DEF S
    <3>2. \E k \in S : \A m \in S : k <= m
      BY <3>1, SetInduction
    <3>3. Min(S) \in S /\ \A m \in S : Min(S) <= m
      BY <3>2 DEF Min
    <3> QED BY <3>3 DEF S
  <2> HIDE DEF n
  <2>2. n \in Nodes /\ s.node[n].state = "READY" /\ a \in Nat
    BY <1>5, <2>1 DEF ReadyFor, InState
  <2>3. /\ worker[w].pc = "polling" /\ ~IsTerminal(s) /\ Emit(events)
        /\ worker' = [worker EXCEPT ![w] = [pc |-> "working", node |-> n, attempt |-> a]]
    BY <1>7 DEF ClaimTask, CanClaim, n
  <2> HIDE DEF a
  <2>4. Written(log, s, events) /\ Phased(log, events, {}, {}) /\ After(s, events) = x
    <3>1. E!Timer(n, "retry_backoff", a) \in Timers /\ w \in Workers \cup {NoWorker}
      BY <1>5, <2>2
    <3> QED BY <1>1, <2>2, <3>1, HandlerEffects
  <2> HIDE DEF events
  <2>5. Tells({}, {}) /\ memory' = x
    BY <1>3, <2>3, <2>4
  <2>6. Flat(x)
    BY <1>1, <2>4 DEF Written
  <2>7. /\ x.runState = s.runState /\ x.pending = s.pending
        /\ x.node = [s.node EXCEPT ![n] = [state |-> "RUNNING", attempt |-> a, worker |-> w]]
    BY <1>1, <1>6, <2>2 DEF NodeStarted, LeaseGranted, ExecutionStates
  <2> HIDE DEF x
  <2>8. Leaves(n, "RUNNING", a, w, {}) /\ memory'.pending = s.pending
    BY <1>4, <1>5, <2>2, <2>5, <2>6, <2>7
  <2>9. s.runState = "RUNNING"
    BY <1>2, <2>2, <2>3 DEF IsTerminal, TerminalRunStates
  <2>10. Claims(w, n, a)
    BY <2>1, <2>3, <2>5, <2>8, <2>9 DEF Claims, a, x
  <2> QED BY <2>2, <2>10
<1>8. ASSUME NEW w \in Workers, Report(w) PROVE Reports(w, worker[w].node, worker[w].attempt)
  <2> DEFINE n == worker[w].node
             a == worker[w].attempt
  <2>1. n \in Nodes /\ a \in Nat /\ Def[n].activity \in Skills[w]
    BY <1>8 DEF DemoInv, Typed, Working, Report, Loops
  <2>2. /\ E!Holds(w, n, a) => /\ Emit(Reported(s, n, w, a))
                               /\ worker' = [worker EXCEPT ![w] = Loop("polling")]
        /\ ~E!Holds(w, n, a) => /\ worker' = [worker EXCEPT ![w] = Loop("ended")]
                                /\ UNCHANGED <<log, memory>>
    BY <1>8 DEF Report
  <2> HIDE DEF n, a
  <2>3. CASE ~E!Holds(w, n, a)
    BY <2>2, <2>3 DEF Reports, n, a
  <2>4. CASE E!Holds(w, n, a)
    <3>1. /\ s.node[n] = [state |-> "RUNNING", attempt |-> a, worker |-> w]
          /\ s.node[n].state \notin {"ABSENT", "COMPLETED"}
      BY <2>4 DEF E!Holds
    <3>2. E!Timer(n, "retry_backoff", a) \in Timers /\ w \in Workers \cup {NoWorker}
      BY <1>5, <2>1
    <3>3. CASE n = Gate /\ a = 1
      <4> DEFINE reached == CheckpointReached(s, n)
                 t == E!Timer(n, "checkpoint_timeout", a)
                 x == IF "checkpoint_timeout" \in Def[n].limits THEN TimerScheduled(reached, t)
                                                               ELSE reached
                 events == Paused(n, a)
      <4>1. Emit(events)
        BY <2>2, <2>4, <3>3 DEF Reported
      <4>2. Written(log, s, events) /\ Phased(log, events, {"checkpoint"}, {}) /\ After(s, events) = x
        BY <1>1, <2>1, <3>2, HandlerEffects
      <4> HIDE DEF events
      <4>3. Tells({"checkpoint"}, {}) /\ memory' = x
        BY <1>3, <4>1, <4>2
      <4>4. Flat(x)
        BY <1>1, <4>2 DEF Written
      <4>5. /\ reached.runState = s.runState /\ reached.pending = s.pending
            /\ reached.node = [s.node EXCEPT ![n] =
                                 [state |-> "AWAITING_APPROVAL", attempt |-> a, worker |-> NoWorker]]
        BY <1>1, <1>5, <1>9, <2>1, <3>1 DEF CheckpointReached
      <4> HIDE DEF t
      <4>6. /\ x.runState = s.runState /\ x.pending \in {s.pending, s.pending \cup {t}}
            /\ x.node = reached.node
        <5>1. reached \in ExecutionStates
          BY <1>1, <1>5, <1>9, <2>1 DEF CheckpointReached
        <5> HIDE DEF reached
        <5>2. TimerScheduled(reached, t).runState = reached.runState
              /\ TimerScheduled(reached, t).node = reached.node
              /\ TimerScheduled(reached, t).pending = reached.pending \cup {t}
          BY <5>1 DEF TimerScheduled, ExecutionStates
        <5> QED BY <4>5, <5>2
      <4> HIDE DEF x
      <4>7. Leaves(n, "AWAITING_APPROVAL", a, NoWorker, {}) /\ memory'.pending = x.pending
        BY <1>4, <1>5, <2>1, <3>1, <4>3, <4>4, <4>5, <4>6
      <4>8. Pauses(n, a)
        BY <3>3, <4>3, <4>6, <4>7 DEF Pauses, x, t
      <4> QED BY <2>1, <2>2, <2>4, <4>8 DEF Reports, n, a
    <3>4. CASE ~(n = Gate /\ a = 1) /\ n \in Flaky /\ a = 1
      <4> DEFINE failed == NodeFailed(s, n, w, a)
                 t == E!Timer(n, "retry_backoff", a)
                 x == TimerScheduled(failed, t)
                 events == Failed(s, n, w, a)
      <4>1. Emit(events)
        BY <2>2, <2>4, <3>4 DEF Reported
      <4>2. Def[n].maxAttempts > 1 /\ a < Def[n].maxAttempts
        BY <3>4, DemoAssumption
      <4>3. Written(log, s, events) /\ Phased(log, events, {"retry"}, {}) /\ After(s, events) = x
        BY <1>1, <2>1, <3>2, <4>2, HandlerEffects
      <4> HIDE DEF events
      <4>4. Tells({"retry"}, {}) /\ memory' = x
        BY <1>3, <4>1, <4>3
      <4>5. Flat(x)
        BY <1>1, <4>3 DEF Written
      <4> HIDE DEF t
      <4>6. /\ x.runState = s.runState /\ x.pending = s.pending \cup {t}
            /\ x.node = [s.node EXCEPT ![n] = [state |-> "FAILED", attempt |-> a, worker |-> w]]
        BY <1>1, <1>6, <2>1 DEF TimerScheduled, NodeFailed, ExecutionStates
      <4> HIDE DEF x
      <4>7. Leaves(n, "FAILED", a, w, {}) /\ memory'.pending = x.pending
        BY <1>4, <1>5, <2>1, <3>1, <3>2, <4>4, <4>5, <4>6
      <4>8. Fails(n, w, a)
        BY <3>4, <4>4, <4>6, <4>7 DEF Fails, x, t
      <4> QED BY <2>1, <2>2, <2>4, <4>8 DEF Reports, n, a
    <3>5. CASE ~(n = Gate /\ a = 1) /\ ~(n \in Flaky /\ a = 1)
      <4> DEFINE spawned == Spawned[n]
                 valid == E!ValidSpawn(spawned)
                 x == IF valid THEN NodeCompleted(s, n, w, a, spawned) ELSE NodeFailed(s, n, w, a)
                 events == Completed(s, n, w, a)
      <4>1. Emit(events)
        BY <2>2, <2>4, <3>5 DEF Reported
      <4>2. Written(log, s, events) /\ After(s, events) = E!Advance(x)
            /\ Phased(log, events, {}, IF valid /\ spawned # {} THEN {"spawn"} ELSE {})
        BY <1>1, <2>1, <3>2, HandlerEffects
      <4> HIDE DEF events
      <4>3. /\ Tells({}, IF valid /\ spawned # {} THEN {"spawn"} ELSE {})
            /\ memory' = E!Advance(x)
        BY <1>3, <4>1, <4>2
      <4>4. n \in Flaky \cup {Gate} => a # 1
        BY <3>5
      <4>5. CASE valid
        <5>1. x = NodeCompleted(s, n, w, a, spawned)
          BY <4>5
        <5>2. spawned \in SUBSET (Nodes \ Present(s)) /\ spawned \cap Present(s) = {}
          <6>1. spawned \in SUBSET Nodes
            BY <2>1, DemoAssumption
          <6>2. spawned \cap E!Present(memory) = {}
            BY <4>5 DEF E!ValidSpawn
          <6> QED BY <6>1, <6>2 DEF E!Present, Present
        <5>3. Flat(x) /\ x.runState = s.runState
          <6> DEFINE grown == [s.node EXCEPT ![n] = [state |-> "COMPLETED", attempt |-> a, worker |-> w]]
          <6>1. Def[n].compensation = NoActivity
            BY <2>1, DemoAssumption
          <6>2. x = [s EXCEPT !.node = x.node]
            <7> DEFINE d == [s EXCEPT !.node[n] = [state |-> "COMPLETED", attempt |-> a, worker |-> w]]
            <7>1. x = MarkReadyNodes(AddNodes(d, spawned))
              BY <5>1, <6>1 DEF NodeCompleted
            <7>2. d = [s EXCEPT !.node = d.node]
              BY <1>1 DEF ExecutionStates
            <7> HIDE DEF d, x
            <7> QED BY <1>1, <7>1, <7>2 DEF MarkReadyNodes, AddNodes, ExecutionStates
          <6>3. x.node \in [Nodes -> NodeRecords]
            <7> DEFINE d == [s EXCEPT !.node[n] = [state |-> "COMPLETED", attempt |-> a, worker |-> w]]
            <7>1. d.node \in [Nodes -> NodeRecords]
              BY <1>1, <1>5, <1>6, <2>1 DEF ExecutionStates, NodeRecords
            <7>2. d = [s EXCEPT !.node = d.node]
              BY <1>1 DEF ExecutionStates
            <7>3. x = MarkReadyNodes(AddNodes(d, spawned))
              BY <5>1, <6>1 DEF NodeCompleted
            <7> HIDE DEF d, x
            <7>4. [state |-> "PENDING", attempt |-> 0, worker |-> NoWorker] \in NodeRecords
              BY DEF NodeRecords, NodeStates
            <7>5. AddNodes(d, spawned).node \in [Nodes -> NodeRecords]
              BY <1>1, <7>1, <7>2, <7>4 DEF AddNodes, ExecutionStates
            <7>6. \A r \in NodeRecords : [r EXCEPT !.state = "READY"] \in NodeRecords
              BY DEF NodeRecords, NodeStates
            <7>7. AddNodes(d, spawned) \in ExecutionStates
              <8>1. d \in ExecutionStates
                BY <1>1, <7>1, <7>2 DEF ExecutionStates
              <8> QED BY <7>5, <8>1 DEF AddNodes, ExecutionStates
            <7> QED BY <7>3, <7>5, <7>6, <7>7 DEF MarkReadyNodes, ExecutionStates
          <6> QED BY <1>1, <6>2, <6>3 DEF Flat, ExecutionStates
        <5> HIDE DEF x, spawned
        <5>4. s.runState # "COMPLETED" /\ s.node[n].state # "ABSENT"
          BY <1>2, <2>1, <3>1
        <5>5. /\ Moved(s, memory', n, spawned) /\ memory'.pending = s.pending
              /\ memory'.node[n] = [state |-> "COMPLETED", attempt |-> a, worker |-> w]
          BY <1>1, <2>1, <4>3, <5>1, <5>2, <5>3, <5>4, OneNodeMoves
        <5>6. Leaves(n, "COMPLETED", a, w, spawned)
          BY <1>2, <2>1, <3>1, <5>5 DEF Leaves
        <5>7. Completes(n, w, a)
          BY <4>3, <4>4, <4>5, <5>1, <5>2, <5>5, <5>6 DEF Completes, spawned
        <5> QED BY <2>1, <2>2, <2>4, <5>7 DEF Reports, n, a
      <4>6. CASE ~valid
        <5>1. x = NodeFailed(s, n, w, a)
          BY <4>6
        <5>2. /\ x.runState = s.runState /\ x.pending = s.pending
              /\ x.node = [s.node EXCEPT ![n] = [state |-> "FAILED", attempt |-> a, worker |-> w]]
          BY <1>1, <2>1, <5>1 DEF NodeFailed, ExecutionStates
        <5>3. Flat(x)
          <6>1. x.node \in [Nodes -> NodeRecords]
            BY <1>5, <1>6, <2>1, <5>2 DEF NodeRecords
          <6>2. x = [s EXCEPT !.node = x.node]
            BY <1>1, <5>1 DEF NodeFailed, ExecutionStates
          <6> QED BY <1>1, <6>1, <6>2 DEF Flat, ExecutionStates
        <5> HIDE DEF x, spawned
        <5>4. Leaves(n, "FAILED", a, w, {}) /\ memory'.pending = s.pending
          BY <1>4, <1>5, <2>1, <3>1, <3>2, <4>3, <5>2, <5>3
        <5>5. Completes(n, w, a)
          BY <4>3, <4>4, <4>6, <5>1, <5>4 DEF Completes, spawned
        <5> QED BY <2>1, <2>2, <2>4, <5>5 DEF Reports, n, a
      <4> QED BY <4>5, <4>6
    <3> QED BY <3>3, <3>4, <3>5
  <2> QED BY <2>3, <2>4
<1>10. ASSUME Approve, approver' = "watching"
       PROVE  /\ s.runState = "RUNNING" /\ s.node[Gate].state = "AWAITING_APPROVAL"
              /\ memory' = CheckpointApproved(s, Gate)
              /\ Leaves(Gate, "READY", 1, NoWorker, {}) /\ memory'.pending = s.pending
              /\ Tells({}, {"checkpoint"})
  <2> DEFINE events == << NodeEvent("CheckpointApproved", Gate, NoWorker, 0) >>
             x == CheckpointApproved(s, Gate)
  <2>1. /\ ~IsTerminal(s) /\ s.node[Gate].state = "AWAITING_APPROVAL" /\ Emit(events)
    BY <1>10 DEF Approve
  <2>2. Gate \in Nodes
    BY DemoAssumption
  <2>3. s.node[Gate].attempt = 1 /\ s.runState = "RUNNING"
    <3>1. s.runState = "RUNNING"
      BY <1>2, <2>1, <2>2 DEF IsTerminal, TerminalRunStates
    <3> QED BY <2>1, <2>2, <3>1 DEF DemoInv, Waits, InState
  <2>4. Written(log, s, events) /\ Phased(log, events, {}, {"checkpoint"}) /\ After(s, events) = x
    <3>1. E!Timer(Gate, "retry_backoff", 1) \in Timers /\ 1 \in Nat
      BY <1>5, <2>2
    <3> QED BY <1>1, <2>2, <3>1, HandlerEffects
  <2> HIDE DEF events
  <2>5. Tells({}, {"checkpoint"}) /\ memory' = x
    BY <1>3, <2>1, <2>4
  <2>6. x = Release(s, Gate, "READY")
    BY <2>1 DEF CheckpointApproved
  <2>7. /\ Flat(x) /\ x.runState = s.runState /\ x.pending = s.pending
        /\ x.node = [s.node EXCEPT ![Gate] = [state |-> "READY", attempt |-> 1, worker |-> NoWorker]]
    BY <1>1, <1>5, <1>9, <2>2, <2>3, <2>6
  <2> HIDE DEF x
  <2>8. Leaves(Gate, "READY", 1, NoWorker, {}) /\ memory'.pending = s.pending
    <3>1. "READY" \in NodeStates /\ "READY" # "ABSENT" /\ memory' \in {x, E!Advance(x)}
      BY <1>5, <2>5
    <3> QED BY <1>4, <2>1, <2>2, <2>7, <3>1
  <2> QED BY <2>1, <2>3, <2>5, <2>8 DEF x
<1>11. ASSUME NEW n \in Nodes, ExpireLease(n)
       PROVE  /\ memory' = E!Advance(LeaseExpired(s, n))
              /\ Leaves(n, "READY", s.node[n].attempt, NoWorker, {}) /\ memory'.pending = s.pending
              /\ Tells({}, {})
  <2> DEFINE events == Expired(s, n)
             x == LeaseExpired(s, n)
             a == s.node[n].attempt
  <2>1. s.node[n].state = "RUNNING" /\ Emit(events)
    BY <1>11 DEF ExpireLease
  <2>2. Written(log, s, events) /\ Phased(log, events, {}, {}) /\ After(s, events) = E!Advance(x)
    <3>1. E!Timer(n, "retry_backoff", 1) \in Timers /\ 1 \in Nat /\ NoWorker \in Workers \cup {NoWorker}
      BY <1>5
    <3> QED BY <1>1, <3>1, HandlerEffects
  <2> HIDE DEF events
  <2>3. Tells({}, {}) /\ memory' = E!Advance(x)
    BY <1>3, <2>1, <2>2
  <2>4. /\ Flat(x) /\ x.runState = s.runState /\ x.pending = s.pending
        /\ x.node = [s.node EXCEPT ![n] = [state |-> "READY", attempt |-> a, worker |-> NoWorker]]
    <3>1. x = Release(s, n, "READY") /\ "READY" \in NodeStates /\ s \in ExecutionStates /\ Flat(s)
      BY <1>1, <1>5 DEF LeaseExpired
    <3> HIDE DEF x
    <3> QED BY <1>9, <3>1
  <2>5. a \in Nat
    BY <1>5
  <2> HIDE DEF x, a
  <2>6. Leaves(n, "READY", a, NoWorker, {}) /\ memory'.pending = s.pending
    BY <1>4, <1>5, <2>1, <2>3, <2>4, <2>5
  <2> QED BY <2>3, <2>6 DEF x, a
<1>12. ASSUME NEW n \in Nodes, NEW t \in {RetryTimer(n), ApprovalTimer(n)}, FireTimer(t)
       PROVE  Fires(t)
  <2> DEFINE node == s.node[n]
             fired == TimerFired(s, t)
             events == Fired(s, t)
             marked == [s EXCEPT !.pending = @ \ {t}, !.fired = @ \cup {t}]
             x == IF E!ShouldFailNode(fired, t)
                    THEN NodeFailed(fired, n, node.worker, node.attempt) ELSE fired
  <2>1. /\ t \in s.pending /\ t \in Timers /\ ~IsTerminal(s) /\ Emit(events)
        /\ t.node = n /\ t.attempt = 1 /\ t.purpose \in {"retry_backoff", "checkpoint_timeout"}
    BY <1>1, <1>6, <1>12 DEF FireTimer, RetryTimer, ApprovalTimer, E!Timer
  <2>2. Written(log, s, events) /\ After(s, events) = E!Advance(x)
        /\ Phased(log, events, {}, IF t.purpose = "retry_backoff" THEN {"retry"} ELSE {})
    <3>1. 1 \in Nat /\ NoWorker \in Workers \cup {NoWorker}
      OBVIOUS
    <3>2. /\ Written(log, s, events)
          /\ Phased(log, events, {}, IF t.purpose = "retry_backoff" THEN {"retry"} ELSE {})
      BY <1>1, <2>1, <3>1, HandlerEffects
    <3>3. After(s, events) = E!Advance(x)
      BY <1>1, <2>1, <3>1, HandlerEffects
    <3> QED BY <3>2, <3>3
  <2> HIDE DEF events
  <2>3. /\ Tells({}, IF t.purpose = "retry_backoff" THEN {"retry"} ELSE {})
        /\ memory' = E!Advance(x)
    BY <1>3, <2>1, <2>2
  <2>4. /\ marked.runState = s.runState /\ marked.node = s.node /\ marked.pending = s.pending \ {t}
        /\ marked \in ExecutionStates /\ Flat(marked)
    BY <1>1, <2>1 DEF Flat, ExecutionStates
  <2>5. CASE t.purpose = "retry_backoff"
    <3>1. node.state = "FAILED" /\ node.attempt = 1
      BY <2>1, <2>5 DEF DemoInv, Retries
    <3>2. fired = Release(marked, n, "READY")
      BY <2>1, <2>5, <3>1 DEF TimerFired
    <3>3. ~E!ShouldFailNode(fired, t)
      BY <2>5 DEF E!ShouldFailNode
    <3>4. x = Release(marked, n, "READY")
      BY <3>2, <3>3
    <3> HIDE DEF marked
    <3>5. /\ Flat(x) /\ x.runState = s.runState /\ x.pending = s.pending \ {t}
          /\ x.node = [s.node EXCEPT ![n] = [state |-> "READY", attempt |-> 1, worker |-> NoWorker]]
      <4>1. "READY" \in NodeStates /\ marked.node[n].attempt = 1
        BY <1>5, <2>4, <3>1
      <4> HIDE DEF x, fired, node
      <4> QED BY <1>9, <2>4, <3>4, <4>1
    <3>6. s.node[n].state \notin {"ABSENT", "COMPLETED"} /\ 1 \in Nat /\ NoWorker \in Workers \cup {NoWorker}
      BY <3>1
    <3> HIDE DEF x, fired
    <3>7. Leaves(n, "READY", 1, NoWorker, {}) /\ memory'.pending = s.pending \ {t}
      <4>1. "READY" \in NodeStates /\ "READY" # "ABSENT" /\ memory' \in {x, E!Advance(x)}
        BY <1>5, <2>3
      <4>2. Leaves(n, "READY", 1, NoWorker, {}) /\ memory'.pending = x.pending
        BY <1>4, <3>5, <3>6, <4>1
      <4> QED BY <3>5, <4>2
    <3>8. s.runState = "RUNNING"
      BY <1>2, <2>1, <3>6 DEF IsTerminal, TerminalRunStates
    <3> QED BY <2>1, <2>3, <2>5, <3>5, <3>7, <3>8 DEF Fires, x, fired
  <2>6. CASE t.purpose = "checkpoint_timeout"
    <3>1. fired = marked
      BY <2>6 DEF TimerFired
    <3>2. E!ShouldFailNode(fired, t) <=> node.state = "AWAITING_APPROVAL" /\ node.attempt = 1
      <4>1. fired.node[t.node] = node
        BY <2>1, <2>4, <3>1
      <4> HIDE DEF fired, node
      <4> QED BY <2>1, <2>6, <4>1 DEF E!ShouldFailNode
    <3>3. s.runState = "RUNNING"
      <4>1. s.runState # "NONE"
        <5>1. New.pending = {}
          BY DEF New
        <5> QED BY <2>1, <5>1 DEF DemoInv, Begun
      <4> QED BY <1>1, <2>1, <4>1 DEF Flat, IsTerminal, TerminalRunStates
    <3> HIDE DEF marked
    <3>4. CASE node.state = "AWAITING_APPROVAL"
      <4>1. node.attempt = 1
        BY <3>4 DEF DemoInv, Waits, InState
      <4>2. x = NodeFailed(marked, n, node.worker, node.attempt)
        BY <3>1, <3>2, <3>4, <4>1
      <4>3. node.attempt \in Nat /\ node.worker \in Workers \cup {NoWorker}
        BY <1>5
      <4> DEFINE r == [state |-> "FAILED", attempt |-> node.attempt, worker |-> node.worker]
      <4>4. r \in NodeRecords
        BY <1>5, <4>3 DEF NodeRecords
      <4>5. x = [marked EXCEPT !.node[n] = r]
        BY <4>2 DEF NodeFailed
      <4> HIDE DEF r
      <4>6. /\ Flat(x) /\ x.runState = s.runState /\ x.pending = s.pending \ {t}
            /\ x.node = [s.node EXCEPT ![n] = r]
        <5> HIDE DEF x
        <5> QED BY <2>4, <4>4, <4>5 DEF Flat, ExecutionStates
      <4> HIDE DEF x, fired
      <4>7. Leaves(n, "FAILED", node.attempt, node.worker, {}) /\ memory'.pending = s.pending \ {t}
        <5>1. /\ "FAILED" \in NodeStates /\ "FAILED" # "ABSENT" /\ memory' \in {x, E!Advance(x)}
              /\ s.node[n].state \notin {"ABSENT", "COMPLETED"}
          BY <1>5, <2>3, <3>4
        <5>2. x.node = [s.node EXCEPT ![n] =
                          [state |-> "FAILED", attempt |-> node.attempt, worker |-> node.worker]]
          BY <4>6 DEF r
        <5> HIDE DEF node
        <5>3. Leaves(n, "FAILED", node.attempt, node.worker, {}) /\ memory'.pending = x.pending
          BY <1>4, <4>3, <4>6, <5>1, <5>2
        <5> QED BY <4>6, <5>3
      <4> QED BY <2>1, <2>3, <2>6, <3>3, <3>4, <4>6, <4>7 DEF Fires, x, fired
    <3>5. CASE node.state # "AWAITING_APPROVAL"
      <4>1. x = marked
        BY <3>1, <3>2, <3>5
      <4> DEFINE r == s.node[n]
      <4>2. r \in NodeRecords /\ marked.node = [s.node EXCEPT ![n] = r]
        BY <1>1, <1>6, <2>4
      <4> HIDE DEF x, fired, r
      <4>5. Flat(x)
        BY <2>4, <4>1
      <4>3. memory' \in {marked, E!Advance(marked)} /\ s.runState # "COMPLETED"
        BY <2>3, <3>3, <4>1
      <4>4. Moved(s, memory', n, {}) /\ memory'.node[n] = r /\ memory'.pending = s.pending \ {t}
        <5>1. Moved(s, memory', n, {}) /\ memory'.node[n] = r
          <6>1. r.state = "ABSENT" <=> s.node[n].state = "ABSENT"
            BY DEF r
          <6>2. Flat(marked) /\ marked.runState = s.runState /\ Flat(s)
            BY <1>1, <2>4
          <6>3. \A m \in InState(s, {"ABSENT", "PENDING"}) : s.node[m].attempt = 0
            BY <1>1
          <6>4. \A q \in NodeRecords :
                  /\ marked.node = [s.node EXCEPT ![n] = q]
                  /\ q.state = "ABSENT" <=> s.node[n].state = "ABSENT"
                  => Moved(s, memory', n, {}) /\ memory'.node[n] = q
            BY <4>3, <6>2, <6>3, OneNodeMoves
          <6> QED BY <4>2, <6>1, <6>4
        <5>2. memory'.pending = marked.pending
          BY <1>1, <2>4, <4>3, OneNodeMoves
        <5> QED BY <2>4, <4>2, <5>1, <5>2 DEF r
      <4> QED BY <2>1, <2>3, <2>6, <3>3, <4>4, <4>5 DEF Fires, x, fired, r
    <3> QED BY <3>4, <3>5
  <2> QED BY <2>1, <2>5, <2>6
<1>13. ASSUME StartRun PROVE Starts
  <2> DEFINE e == Event("WorkflowStarted")
             fresh == [state |-> "PENDING", attempt |-> 0, worker |-> NoWorker]
             none  == [state |-> "ABSENT", attempt |-> 0, worker |-> NoWorker]
             grown == [AddNodes(New, InitialNodes) EXCEPT !.runState = "RUNNING"]
             t == WorkflowStarted(New)
             start == [NewLog EXCEPT !.recent = {NewLog.state}]
             l == AppendedEvent(start, e)
  <2>1. memory = New /\ Emit(<< e >>)
    BY <1>13 DEF StartRun
  <2>2. log = NewLog
    BY <2>1 DEF DemoInv, Begun, New
  <2>3. e.type = "WorkflowStarted" /\ e.spawned = {} /\ e.node = 0 /\ ~e.retryable
    BY DEF Event, NodeEvent
  <2> HIDE DEF e
  <2>4. /\ \A y : Apply(y, e) = WorkflowStarted(y)
        /\ Begins(e) = {} /\ Ends(e) = {} /\ EventNodeIDs(e) = {0}
    BY <2>3 DEF Apply, Begins, Ends, EventNodeIDs
  <2> HIDE DEF start
  <2>5. memory' = t /\ log' = l
    <3>1. After(New, << e >>) = Apply(New, e) /\ Appended(NewLog, << e >>) = l
      BY EventByEvent DEF start
    <3> QED BY <2>1, <2>2, <2>4, <3>1 DEF Emit
  <2>6. fresh \in NodeRecords /\ none \in NodeRecords
    BY DEF NodeRecords, NodeStates
  <2>7. /\ grown.node = [n \in Nodes |-> IF n \in InitialNodes THEN fresh ELSE none]
        /\ grown = [New EXCEPT !.runState = "RUNNING", !.node = grown.node]
    BY DEF AddNodes, New
  <2>8. grown.node \in [Nodes -> NodeRecords]
    BY <2>6, <2>7
  <2> HIDE DEF grown
  <2>9. /\ t.node = [n \in Nodes |-> IF grown.node[n].state = "PENDING" /\ DependenciesCompleted(grown, n)
                                        THEN [grown.node[n] EXCEPT !.state = "READY"]
                                        ELSE grown.node[n]]
        /\ t = [New EXCEPT !.runState = "RUNNING", !.node = t.node]
    <3>1. t = MarkReadyNodes(grown)
      BY DEF WorkflowStarted, grown
    <3> HIDE DEF t
    <3> QED BY <2>7, <3>1 DEF MarkReadyNodes, New
  <2>10. t.node \in [Nodes -> NodeRecords]
    <3>1. \A r \in NodeRecords : [r EXCEPT !.state = "READY"] \in NodeRecords
      BY DEF NodeRecords, NodeStates
    <3> QED BY <2>8, <2>9, <3>1
  <2> HIDE DEF t
  <2>11. Flat(t) /\ t.runState = "RUNNING" /\ t.pending = {}
    <3>1. New \in ExecutionStates
      BY <2>6 DEF New, ExecutionStates, RunStates, TerminalRunStates
    <3>2. t \in ExecutionStates
      BY <2>9, <2>10, <3>1 DEF ExecutionStates, RunStates
    <3>3. t.runState = "RUNNING" /\ t.pending = {} /\ ~t.cancelRequested /\ t.stack = << >> /\ t.active = NoCompensation
      BY <2>9 DEF New
    <3> QED BY <3>2, <3>3 DEF Flat
  <2>12. ASSUME NEW n \in Nodes
         PROVE  /\ t.node[n].attempt = 0
                /\ IF n \notin InitialNodes THEN t.node[n].state = "ABSENT"
                   ELSE \/ t.node[n].state = "PENDING"
                        \/ t.node[n].state = "READY" /\ DependenciesCompleted(t, n)
    <3>1. \A m \in Nodes : grown.node[m].state # "COMPLETED"
      BY <2>7
    <3>2. DependenciesCompleted(grown, n) => DependenciesCompleted(t, n)
      BY <3>1 DEF DependenciesCompleted, InState
    <3>3. CASE n \in InitialNodes
      <4>1. grown.node[n] = fresh
        BY <2>7, <3>3
      <4> QED BY <2>9, <3>2, <3>3, <4>1
    <3>4. CASE n \notin InitialNodes
      <4>1. grown.node[n] = none
        BY <2>7, <3>4
      <4> QED BY <2>9, <3>4, <4>1
    <3> QED BY <3>3, <3>4
  <2>13. /\ l = [state |-> t, shown |-> l.shown, phases |-> l.phases, recent |-> l.recent]
         /\ l.shown = [n \in Nodes |-> IF n = 0 THEN t.node[n].state ELSE "ABSENT"]
         /\ l.phases = [p \in PhaseNames |-> "none"]
         /\ l.recent = {New, t}
    <3>1. /\ start.state = New /\ start.recent = {New}
          /\ start.shown = [n \in Nodes |-> "ABSENT"]
          /\ start.phases = [p \in PhaseNames |-> "none"]
      BY DEF start, NewLog, PhaseNames
    <3>2. Apply(New, e) = t
      BY <2>4 DEF t
    <3>3. \A p : Marker("none", p, e) = "none"
      BY <2>4 DEF Marker
    <3>4. l = [state  |-> t,
               shown  |-> [n \in Nodes |-> IF n \in {0} THEN t.node[n].state ELSE start.shown[n]],
               phases |-> [p \in DOMAIN start.phases |-> Marker(start.phases[p], p, e)],
               recent |-> start.recent \cup {t}]
      BY <2>4, <3>1, <3>2 DEF AppendedEvent
    <3> HIDE DEF l
    <3> QED BY <3>1, <3>3, <3>4
  <2> HIDE DEF l
  <2>14. l \in Logs
    <3>1. New \in ExecutionStates
      BY <2>6 DEF New, ExecutionStates, RunStates, TerminalRunStates
    <3>2. \A n \in Nodes : t.node[n].state \in NodeStates
      BY <2>10 DEF NodeRecords
    <3>3. t \in ExecutionStates /\ "ABSENT" \in NodeStates
      BY <2>11 DEF Flat, NodeStates
    <3>4. l.shown \in [Nodes -> NodeStates] /\ l.phases \in [PhaseNames -> {"none", "active", "complete"}]
          /\ l.recent \in SUBSET ExecutionStates
      BY <2>13, <3>1, <3>2, <3>3
    <3> QED BY <2>13, <3>3, <3>4 DEF Logs
  <2>15. Told(l)
    <3>1. l.state = t
      BY <2>13
    <3>2. Dated(l)
      BY <2>12, <2>13, <3>1 DEF Dated, Present
    <3>3. \A y \in l.recent : AtRest(y)
      BY <2>11, <2>13 DEF AtRest, New
    <3> QED BY <3>2, <3>3 DEF Told
  <2>16. l.state = t /\ \A p \in PhaseNames : l.phases[p] = "none"
    BY <2>13
  <2> QED BY <2>1, <2>2, <2>5, <2>11, <2>12, <2>14, <2>15, <2>16 DEF Starts, t
<1> QED
  BY <1>7, <1>8, <1>10, <1>11, <1>12, <1>13

(* The run in the memory of `grael start` keeps to the plan, whatever the  *)
(* second process appends to the log meanwhile: an attempt that runs has a *)
(* worker at it, dependencies are completed before a node gets ready, and  *)
(* the gate holds (GateHeld), for which the other parts are needed.        *)
THEOREM DemoInvariant == Spec => []DemoInv
<1>1. Init => DemoInv
  <2> SUFFICES ASSUME Init PROVE DemoInv
    OBVIOUS
  <2>1. [state |-> "ABSENT", attempt |-> 0, worker |-> NoWorker] \in NodeRecords
    BY DEF NodeRecords, NodeStates
  <2>2. New \in ExecutionStates
    BY <2>1 DEF New, ExecutionStates, RunStates, TerminalRunStates
  <2>3. NewLog \in Logs /\ ~(NewLog.phases["checkpoint"] = "complete")
    BY <2>2 DEF NewLog, Logs, PhaseNames, NodeStates
  <2>4. Flat(New) /\ New.runState = "NONE" /\ New.pending = {}
    BY <2>2 DEF Flat, New
  <2>5. \A n \in Nodes : New.node[n].state = "ABSENT" /\ New.node[n].attempt = 0
    BY DEF New
  <2>6. \A w \in Workers : worker[w] = Loop("starting") /\ worker[w].pc = "starting"
    BY DEF Init, Loop
  <2>7. Gate \in Nodes /\ Draft \in Nodes /\ MaxStalls \in Nat
    BY DemoAssumption
  <2>8. Typed
    <3>1. Loop("starting") \in Loops
      BY DEF Loop, Loops
    <3>2. worker \in [Workers -> Loops]
      BY <3>1 DEF Init
    <3> QED BY <2>3, <2>4, <2>7, <3>2 DEF Init, Typed
  <2>9. Begun /\ Fresh
    <3>1. ~Loaded /\ log = NewLog /\ memory = New
      BY DEF Init, Loaded
    <3>2. memory.runState = "NONE"
      BY <2>4, <3>1
    <3>3. Begun
      BY <2>6, <3>1, <3>2 DEF Begun
    <3> QED BY <2>5, <3>1, <3>3 DEF Fresh, InState
  <2>10. Ordered /\ Counted /\ Waits /\ Retries
    BY <2>4, <2>5, <2>7 DEF Init, Ordered, Counted, Waits, Retries, InState
  <2>11. Working /\ Asks /\ GateHeld
    BY <2>3, <2>5, <2>6, <2>7 DEF Init, Working, Asks, GateHeld, Approved, InState
  <2> QED BY <2>8, <2>9, <2>10, <2>11 DEF DemoInv
<1>2. ASSUME DemoInv, [Next]_vars PROVE DemoInv'
  <2> DEFINE s == memory
             t == memory'
             AtNext(w, n, a) == worker'[w] = [pc |-> "working", node |-> n, attempt |-> a]
             Others(k) == \A m \in Nodes \ {k} :
                             \/ t.node[m] = s.node[m]
                             \/ /\ s.node[m].state \in {"ABSENT", "PENDING"}
                                /\ t.node[m].attempt = 0
                                /\ t.node[m].state \in {"PENDING", "READY"}
  <2>1. /\ s \in ExecutionStates /\ Flat(s) /\ log \in Logs
        /\ worker \in [Workers -> Loops] /\ stalls \in 0 .. MaxStalls
        /\ \A n \in Nodes : s.node[n] \in NodeRecords /\ s.node[n].attempt \in Nat
        /\ Gate \in Nodes /\ Draft \in Nodes /\ MaxStalls \in Nat
        /\ "checkpoint" \in PhaseNames \ {"complete"}
        /\ log.phases["checkpoint"] \in {"none", "active", "complete"}
    BY <1>2, DemoAssumption DEF DemoInv, Typed, Flat, ExecutionStates, NodeRecords, Logs, PhaseNames
  \* A step about the node k.
  <2>2. ASSUME NEW k \in Nodes, NEW spawned, Moved(s, t, k, spawned), Flat(t),
               s.runState \in {"RUNNING", "FAILED"},
               \/ t.node[k] = s.node[k]
               \/ /\ s.node[k].state \notin {"ABSENT", "PENDING", "COMPLETED"}
                  /\ t.node[k].state \notin {"ABSENT", "PENDING"},
               stalls' \in stalls .. MaxStalls,
               t.node[k].attempt <= stalls' + 2,
               t.node[k].state = "READY" => t.node[k].attempt <= stalls' + 1
        PROVE  /\ Begun' /\ Fresh' /\ Ordered' /\ Counted'
               /\ \A m \in Nodes : s.node[m].state = "COMPLETED" => t.node[m].state = "COMPLETED"
               /\ Others(k)
    <3>1. \A m \in Nodes \ {k} :
             \/ t.node[m] = s.node[m]
             \/ /\ s.node[m].state \in {"ABSENT", "PENDING"}
                /\ t.node[m].attempt = s.node[m].attempt /\ t.node[m].attempt = 0
                /\ \/ t.node[m].state = "PENDING"
                   \/ t.node[m].state = "READY" /\ DependenciesCompleted(t, m)
      BY <1>2, <2>2 DEF Moved, DemoInv, Fresh, InState
    <3>2. \A m \in Nodes : s.node[m].state = "COMPLETED" => t.node[m].state = "COMPLETED"
      BY <2>2, <3>1
    <3>3. \A m \in Nodes : DependenciesCompleted(s, m) => DependenciesCompleted(t, m)
      BY <3>2 DEF DependenciesCompleted, InState
    <3>4. Begun'
      <4>1. t.runState # "NONE" /\ Present(s) \subseteq Present(t)
        BY <2>2 DEF Moved
      <4>2. InitialNodes \subseteq Present(s)
        BY <1>2, <2>2 DEF DemoInv, Begun
      <4>3. t.runState = "COMPLETED" => Present(t) = InState(t, {"COMPLETED"})
        BY <2>2 DEF Moved
      <4> QED BY <4>1, <4>2, <4>3 DEF Begun, Present, InState
    <3>5. Fresh'
      <4> SUFFICES ASSUME NEW n \in Nodes, t.node[n].state \in {"ABSENT", "PENDING"}
                   PROVE  t.node[n].attempt = 0
        BY DEF Fresh, InState
      <4>1. t.node[n] = s.node[n] => t.node[n].attempt = 0
        BY <1>2 DEF DemoInv, Fresh, InState
      <4> QED BY <2>2, <3>1, <4>1
    <3>6. Ordered'
      <4> SUFFICES ASSUME NEW n \in Nodes, t.node[n].state \notin {"ABSENT", "PENDING"}
                   PROVE  DependenciesCompleted(t, n)
        BY DEF Ordered, InState, DependenciesCompleted
      <4>1. s.node[n].state \notin {"ABSENT", "PENDING"} => DependenciesCompleted(t, n)
        BY <1>2, <3>3 DEF DemoInv, Ordered, InState
      <4> QED BY <2>2, <3>1, <4>1
    <3>7. Counted'
      <4> SUFFICES ASSUME NEW n \in Nodes
                   PROVE  /\ t.node[n].attempt <= stalls' + 2
                          /\ t.node[n].state = "READY" => t.node[n].attempt <= stalls' + 1
        BY DEF Counted
      <4>1. /\ s.node[n].attempt <= stalls + 2
            /\ s.node[n].state = "READY" => s.node[n].attempt <= stalls + 1
        BY <1>2 DEF DemoInv, Counted
      <4>2. t.node[n] = s.node[n] \/ t.node[n].attempt = 0 \/ n = k
        BY <3>1
      <4>3. /\ s.node[n].attempt <= stalls' + 2
            /\ s.node[n].state = "READY" => s.node[n].attempt <= stalls' + 1
        BY <2>1, <2>2, <4>1
      <4>4. 0 <= stalls' + 2 /\ 0 <= stalls' + 1
        BY <2>1, <2>2
      <4> QED BY <2>2, <4>2, <4>3, <4>4
    <3> QED BY <3>1, <3>2, <3>4, <3>5, <3>6, <3>7
  \* A step about another node than the gate.
  <2>3. ASSUME NEW k \in Nodes, k # Gate \/ t.node[Gate] = s.node[Gate],
               Others(k),
               \A m \in Nodes : s.node[m].state = "COMPLETED" => t.node[m].state = "COMPLETED",
               Approved' <=> Approved,
               s.node[Gate].state = "READY" /\ s.node[Gate].attempt = 1 =>
                  \A w \in Workers :
                     \/ worker'[w] = worker[w]
                     \/ worker'[w].pc = "ended"
                     \/ worker[w].pc # "ended" /\ worker[w].node # Gate
                     \/ worker[w].pc \in {"starting", "polling"}
        PROVE  GateHeld'
    <3>1. CASE t.node[Gate] = s.node[Gate]
      <4>1. CASE Approved
        BY <1>2, <2>1, <2>3, <3>1, <4>1 DEF DemoInv, GateHeld
      <4>2. CASE ~Approved
        <5>1. /\ s.node[Gate].attempt <= 1 /\ s.node[Gate].state # "COMPLETED"
              /\ s.node[Gate].state = "READY" /\ s.node[Gate].attempt = 1 =>
                     \A w \in Workers : Def[Gate].activity \in Skills[w] =>
                        worker[w].pc = "ended" \/ At(w, Gate, 1)
          BY <1>2, <4>2 DEF DemoInv, GateHeld
        <5>2. ASSUME s.node[Gate].state = "READY", s.node[Gate].attempt = 1,
                     NEW w \in Workers, Def[Gate].activity \in Skills[w]
              PROVE  worker'[w].pc = "ended" \/ At(w, Gate, 1)'
          BY <2>3, <5>1, <5>2 DEF At
        <5> QED BY <2>3, <3>1, <4>2, <5>1, <5>2 DEF GateHeld
      <4> QED BY <4>1, <4>2
    <3>2. CASE t.node[Gate] # s.node[Gate]
      <4>1. /\ s.node[Gate].state \in {"ABSENT", "PENDING"} /\ s.node[Gate].attempt = 0
            /\ t.node[Gate].attempt = 0 /\ t.node[Gate].state \in {"PENDING", "READY"}
        BY <1>2, <2>1, <2>3, <3>2 DEF DemoInv, Fresh, InState
      <4>2. ~Approved
        BY <1>2, <4>1 DEF DemoInv, GateHeld
      <4> QED BY <2>3, <4>1, <4>2 DEF GateHeld
    <3> QED BY <3>1, <3>2
  <2>4. ASSUME NEW begun, NEW ended, Tells(begun, ended)
        PROVE  /\ log' \in Logs /\ Flat(t)
               /\ "checkpoint" \notin ended => (Approved' <=> Approved)
               /\ "checkpoint" \in ended => Approved'
    BY <2>1, <2>4 DEF Tells, Approved
  <2>5. ASSUME NEW k \in Nodes, Others(k),
               t.node[k].state # "AWAITING_APPROVAL" \/ (k = Gate /\ t.node[k].attempt = 1)
        PROVE  Waits'
    <3> SUFFICES ASSUME NEW n \in Nodes, t.node[n].state = "AWAITING_APPROVAL"
                 PROVE  n = Gate /\ t.node[n].attempt = 1
      BY DEF Waits, InState
    <3>1. n # k => t.node[n] = s.node[n]
      BY <2>5
    <3> QED BY <1>2, <2>5, <3>1 DEF DemoInv, Waits, InState
  <2>6. ASSUME NEW k \in Nodes, Others(k),
               \A u \in t.pending : u.purpose = "retry_backoff" =>
                  \/ u \in s.pending /\ (u.node # k \/ t.node[k] = s.node[k])
                  \/ /\ u.node = k /\ k \in Flaky /\ u.attempt = 1
                     /\ t.node[k].state = "FAILED" /\ t.node[k].attempt = 1
        PROVE  Retries'
    <3> SUFFICES ASSUME NEW u \in t.pending, u.purpose = "retry_backoff"
                 PROVE  /\ u.node \in Flaky /\ u.attempt = 1
                        /\ t.node[u.node].state = "FAILED" /\ t.node[u.node].attempt = 1
      BY DEF Retries
    <3>1. CASE u \in s.pending /\ (u.node # k \/ t.node[k] = s.node[k])
      <4>1. /\ u.node \in Flaky /\ u.attempt = 1
            /\ s.node[u.node].state = "FAILED" /\ s.node[u.node].attempt = 1
        BY <1>2, <3>1 DEF DemoInv, Retries
      <4>2. u.node \in Nodes
        BY <4>1, DemoAssumption
      <4>3. t.node[u.node] = s.node[u.node]
        BY <2>6, <3>1, <4>1, <4>2
      <4> QED BY <4>1, <4>3
    <3> QED BY <2>6, <3>1
  <2>7. ASSUME NEW k \in Nodes, Others(k),
               t.node[k].state = "RUNNING" =>
                  t.node[k].worker \in Workers /\ AtNext(t.node[k].worker, k, t.node[k].attempt),
               \A m \in Nodes \ {k} :
                  s.node[m].state = "RUNNING" => worker'[s.node[m].worker] = worker[s.node[m].worker],
               \A w \in Workers : worker'[w].pc = "working" =>
                  \/ worker'[w] = worker[w]
                  \/ /\ worker'[w].node \in Nodes /\ worker'[w].attempt > 0
                     /\ Def[worker'[w].node].activity \in Skills[w]
        PROVE  Working'
    <3>1. ASSUME NEW n \in Nodes, t.node[n].state = "RUNNING"
          PROVE  t.node[n].worker \in Workers /\ AtNext(t.node[n].worker, n, t.node[n].attempt)
      <4>1. CASE n = k
        BY <2>7, <3>1, <4>1
      <4>2. CASE n # k
        <5>1. t.node[n] = s.node[n]
          BY <2>7, <3>1, <4>2
        <5>2. s.node[n].worker \in Workers /\ At(s.node[n].worker, n, s.node[n].attempt)
          BY <1>2, <3>1, <5>1 DEF DemoInv, Working, InState
        <5>3. worker'[s.node[n].worker] = worker[s.node[n].worker]
          BY <2>7, <3>1, <4>2, <5>1
        <5> QED BY <5>1, <5>2, <5>3 DEF At
      <4> QED BY <4>1, <4>2
    <3>2. ASSUME NEW w \in Workers, worker'[w].pc = "working"
          PROVE  /\ worker'[w].node \in Nodes /\ worker'[w].attempt > 0
                 /\ Def[worker'[w].node].activity \in Skills[w]
      BY <1>2, <2>7, <3>2 DEF DemoInv, Working
    <3> QED BY <3>1, <3>2 DEF Working, InState, At
  \* A step that leaves the run alone.
  <2>8. ASSUME memory' = memory, stalls' = stalls, log' \in Logs,
               Approved' <=> Approved,
               other' \in ExecutionStates \cup {Closed, Empty},
               approver' \in {"watching", "approving", "ended"},
               approver' = "approving" => s.node[Draft].state = "COMPLETED",
               worker' \in [Workers -> Loops],
               s.runState = "NONE" => /\ log' = log /\ ~Loaded'
                                      /\ \A w \in Workers : worker'[w].pc = "starting",
               \A n \in Nodes :
                  s.node[n].state = "RUNNING" => worker'[s.node[n].worker] = worker[s.node[n].worker],
               \A w \in Workers : worker'[w].pc = "working" => worker'[w] = worker[w],
               s.node[Gate].state = "READY" /\ s.node[Gate].attempt = 1 =>
                  \A w \in Workers :
                     \/ worker'[w] = worker[w]
                     \/ worker'[w].pc = "ended"
                     \/ worker[w].pc \in {"starting", "polling"}
        PROVE  DemoInv'
    <3>1. Typed'
      BY <1>2, <2>8 DEF DemoInv, Typed
    <3>2. Begun'
      BY <1>2, <2>8 DEF DemoInv, Begun
    <3>3. Fresh' /\ Ordered' /\ Counted' /\ Waits' /\ Retries' /\ Asks'
      BY <1>2, <2>8 DEF DemoInv, Fresh, Ordered, Counted, Waits, Retries, Asks
    <3>4. Others(Gate) /\ t.node[Gate] = s.node[Gate]
      BY <2>8
    <3>5. Working'
      <4>1. s.node[Gate].state = "RUNNING" =>
               s.node[Gate].worker \in Workers /\ AtNext(s.node[Gate].worker, Gate, s.node[Gate].attempt)
        <5>1. s.node[Gate].state = "RUNNING" =>
                 s.node[Gate].worker \in Workers /\ At(s.node[Gate].worker, Gate, s.node[Gate].attempt)
          BY <1>2, <2>1 DEF DemoInv, Working, InState
        <5> QED BY <2>1, <2>8, <5>1 DEF At
      <4> QED BY <2>1, <2>7, <2>8, <3>4, <4>1
    <3>6. GateHeld'
      BY <2>1, <2>3, <2>8, <3>4
    <3> QED BY <3>1, <3>2, <3>3, <3>5, <3>6 DEF DemoInv
  <2>9. /\ \A c : Loop(c) = [pc |-> c, node |-> 0, attempt |-> 0]
        /\ \A c \in {"starting", "polling", "ended"} : Loop(c) \in Loops
    BY DEF Loop, Loops
  <2>10. \A n \in Nodes : s.node[n].state = "RUNNING" =>
            LET w == s.node[n].worker
            IN  /\ w \in Workers /\ At(w, n, s.node[n].attempt)
                /\ worker[w].pc = "working" /\ worker[w].node = n /\ worker[w].attempt = s.node[n].attempt
                /\ Def[n].activity \in Skills[w]
    BY <1>2 DEF DemoInv, Working, InState, At
  <2>11. /\ other \in ExecutionStates \cup {Closed, Empty}
         /\ approver \in {"watching", "approving", "ended"}
         /\ approver = "approving" => s.node[Draft].state = "COMPLETED"
         /\ s.runState = "NONE" => /\ memory = New /\ log = NewLog /\ ~Loaded
                                   /\ \A w \in Workers : worker[w].pc = "starting"
    BY <1>2 DEF DemoInv, Typed, Asks, Begun
  <2>12. \A n \in Nodes : New.node[n].state = "ABSENT"
    BY DEF New
  <2>13. CASE StartRun
    <3>1. Starts /\ UNCHANGED <<worker, approver, other, stalls>>
      BY <1>2, <2>13, ActionsMove DEF StartRun
    <3>2. s.runState = "NONE" /\ s.pending = {}
      BY <3>1 DEF Starts, New
    <3>3. \A w \in Workers : worker[w].pc = "starting" /\ worker[w].pc # "working"
      BY <2>11, <3>2
    <3>4. approver # "approving"
      BY <2>1, <2>11, <2>12, <3>2
    <3>5. ~Approved'
      BY <2>1, <3>1 DEF Starts, Approved
    <3>6. \A n \in Nodes : t.node[n].attempt = 0 /\ t.node[n].state \in {"ABSENT", "PENDING", "READY"}
      BY <3>1 DEF Starts
    <3>7. Typed'
      BY <1>2, <3>1 DEF DemoInv, Typed, Starts
    <3>8. Begun'
      <4>1. t.runState = "RUNNING"
        BY <3>1 DEF Starts
      <4>2. \A n \in InitialNodes : n \in Nodes /\ t.node[n].state # "ABSENT"
        BY <3>1, DefinitionAssumption DEF Starts
      <4> QED BY <4>1, <4>2 DEF Begun, Present
    <3>9. Fresh'
      BY <3>6 DEF Fresh, InState
    <3>10. Ordered'
      <4> SUFFICES ASSUME NEW n \in Nodes, t.node[n].state \notin {"ABSENT", "PENDING"}
                   PROVE  DependenciesCompleted(t, n)
        BY DEF Ordered, InState, DependenciesCompleted
      <4> QED BY <3>1 DEF Starts
    <3>11. Counted'
      BY <2>1, <3>1, <3>6 DEF Counted
    <3>12. Waits' /\ Retries'
      <4>1. t.pending = {}
        BY <3>1 DEF Starts
      <4> QED BY <3>6, <4>1 DEF Waits, Retries, InState
    <3>13. Working' /\ Asks' /\ GateHeld'
      BY <2>1, <3>1, <3>3, <3>4, <3>5, <3>6 DEF Working, Asks, GateHeld, InState
    <3> QED BY <3>7, <3>8, <3>9, <3>10, <3>11, <3>12, <3>13 DEF DemoInv
  <2>14. ASSUME NEW w \in Workers, RegisterWorker(w) PROVE DemoInv'
    <3>1. /\ memory # New /\ worker[w].pc = "starting"
          /\ worker' = [worker EXCEPT ![w] = Loop("polling")]
          /\ UNCHANGED <<log, memory, approver, other, stalls>>
      BY <2>14 DEF RegisterWorker
    <3>2. s.runState # "NONE"
      BY <2>11, <3>1
    <3>3. \A n \in Nodes : s.node[n].state = "RUNNING" => worker'[s.node[n].worker] = worker[s.node[n].worker]
      BY <2>1, <2>10, <3>1
    <3>4. \A v \in Workers : IF v = w THEN worker'[v] = Loop("polling") ELSE worker'[v] = worker[v]
      BY <2>1, <3>1
    <3>5. \A v \in Workers : worker'[v].pc = "working" => worker'[v] = worker[v]
      BY <2>9, <3>4
    <3>6. worker' \in [Workers -> Loops]
      BY <2>1, <2>9, <3>1
    <3>7. \A v \in Workers : worker'[v] = worker[v] \/ worker[v].pc \in {"starting", "polling"}
      BY <3>1, <3>4
    <3>8. Approved' <=> Approved
      BY <3>1 DEF Approved
    <3> QED BY <2>1, <2>8, <2>11, <3>1, <3>2, <3>3, <3>5, <3>6, <3>7, <3>8
  <2>15. ASSUME NEW w \in Workers, ClaimTask(w) PROVE DemoInv'
    <3>1. PICK n \in Nodes, a \in Nat : Claims(w, n, a)
      BY <1>2, <2>15, ActionsMove
    <3>2. UNCHANGED <<approver, other, stalls>>
      BY <2>15 DEF ClaimTask
    <3>3. /\ s.node[n].state = "READY" /\ Def[n].activity \in Skills[w] /\ worker[w].pc = "polling"
          /\ a = s.node[n].attempt + 1 /\ Moved(s, t, n, {})
          /\ t.node[n] = [state |-> "RUNNING", attempt |-> a, worker |-> w]
          /\ t.pending = s.pending /\ s.runState \in {"RUNNING", "FAILED"}
          /\ worker' = [worker EXCEPT ![w] = [pc |-> "working", node |-> n, attempt |-> a]]
          /\ Tells({}, {})
      BY <3>1 DEF Claims, ReadyFor, InState, Leaves
    <3>4. log' \in Logs /\ Flat(t) /\ (Approved' <=> Approved)
      BY <2>4, <3>3
    <3>5. s.node[n].attempt <= stalls + 1
      BY <1>2, <3>3 DEF DemoInv, Counted
    <3>6. /\ stalls' \in stalls .. MaxStalls /\ a <= stalls' + 2
          /\ t.node[n].state = "RUNNING" /\ t.node[n].attempt = a /\ t.node[n].worker = w
      BY <2>1, <3>2, <3>3, <3>5
    <3>7. /\ Begun' /\ Fresh' /\ Ordered' /\ Counted' /\ Others(n)
          /\ \A m \in Nodes : s.node[m].state = "COMPLETED" => t.node[m].state = "COMPLETED"
      BY <2>2, <3>3, <3>4, <3>6
    <3>8. /\ worker' \in [Workers -> Loops]
          /\ worker'[w] = [pc |-> "working", node |-> n, attempt |-> a]
          /\ \A v \in Workers \ {w} : worker'[v] = worker[v]
      BY <2>1, <3>3, DefinitionAssumption DEF Loops
    <3>9. Typed'
      BY <2>1, <2>11, <3>2, <3>4, <3>8 DEF Typed
    <3>10. Waits'
      BY <2>5, <3>6, <3>7
    <3>11. Retries'
      <4>1. \A u \in s.pending : u.purpose = "retry_backoff" => s.node[u.node].state = "FAILED"
        BY <1>2 DEF DemoInv, Retries
      <4> QED BY <2>6, <3>3, <3>7, <4>1
    <3>12. Working'
      <4>1. \A m \in Nodes : s.node[m].state = "RUNNING" => worker'[s.node[m].worker] = worker[s.node[m].worker]
        BY <2>10, <3>3, <3>8
      <4>2. a > 0
        BY <2>1, <3>3
      <4>3. \A v \in Workers : worker'[v].pc = "working" =>
              \/ worker'[v] = worker[v]
              \/ /\ worker'[v].node \in Nodes /\ worker'[v].attempt > 0
                 /\ Def[worker'[v].node].activity \in Skills[v]
        BY <3>3, <3>8, <4>2
      <4> QED BY <2>7, <3>6, <3>7, <3>8, <4>1, <4>3
    <3>13. Asks'
      BY <2>1, <2>11, <3>2, <3>7 DEF Asks
    <3>14. GateHeld'
      <4>1. CASE n # Gate
        <5>1. \A v \in Workers : worker'[v] = worker[v] \/ worker[v].pc \in {"starting", "polling"}
          BY <3>3, <3>8
        <5> QED BY <2>3, <3>4, <3>7, <4>1, <5>1
      <4>2. CASE n = Gate /\ Approved
        <5>1. s.node[Draft].state = "COMPLETED" /\ s.node[Gate].attempt > 0
          BY <1>2, <4>2 DEF DemoInv, GateHeld
        <5>2. t.node[Draft].state = "COMPLETED"
          BY <2>1, <3>7, <5>1
        <5>3. a > 1
          BY <2>1, <3>3, <4>2, <5>1
        <5> QED BY <3>4, <3>6, <4>2, <5>2, <5>3 DEF GateHeld
      <4>3. CASE n = Gate /\ ~Approved
        <5>1. /\ s.node[Gate].attempt <= 1
              /\ s.node[Gate].attempt = 1 => worker[w].pc = "ended" \/ At(w, Gate, 1)
          BY <1>2, <3>3, <4>3 DEF DemoInv, GateHeld
        <5>2. a <= 1
          BY <2>1, <3>3, <4>3, <5>1 DEF At
        <5> QED BY <3>4, <3>6, <4>3, <5>2 DEF GateHeld
      <4> QED BY <4>1, <4>2, <4>3
    <3> QED BY <3>7, <3>9, <3>10, <3>11, <3>12, <3>13, <3>14 DEF DemoInv
  <2>16. ASSUME NEW w \in Workers, Report(w) PROVE DemoInv'
    <3> DEFINE n == worker[w].node
               a == worker[w].attempt
    <3>1. /\ Reports(w, n, a) /\ worker[w].pc = "working"
          /\ UNCHANGED <<approver, other, stalls>>
      BY <1>2, <2>16, ActionsMove DEF Report
    <3>2. n \in Nodes /\ a > 0 /\ a \in Nat
      BY <1>2, <2>1, <3>1 DEF DemoInv, Working, Loops
    <3>3. s.runState # "NONE"
      BY <2>11, <3>1
    <3> HIDE DEF n, a
    <3>4. CASE /\ ~E!Holds(w, n, a) /\ worker' = [worker EXCEPT ![w] = Loop("ended")]
               /\ UNCHANGED <<log, memory>>
      <4>1. Loop("ended").pc = "ended"
        BY <2>9
      <4>2. /\ worker' \in [Workers -> Loops] /\ worker'[w].pc = "ended"
            /\ \A v \in Workers \ {w} : worker'[v] = worker[v]
        BY <2>1, <2>9, <3>4, <4>1
      <4>3. \A m \in Nodes : s.node[m].state = "RUNNING" => worker'[s.node[m].worker] = worker[s.node[m].worker]
        <5> SUFFICES ASSUME NEW m \in Nodes, s.node[m].state = "RUNNING", s.node[m].worker = w PROVE FALSE
          BY <2>10, <4>2
        <5>1. m = n /\ s.node[m].attempt = a
          BY <2>10 DEF n, a
        <5>2. s.node[n] \in NodeRecords
          BY <2>1, <3>2
        <5>3. s.node[n] = [state |-> "RUNNING", attempt |-> a, worker |-> w]
          BY <5>1, <5>2 DEF NodeRecords
        <5> QED BY <3>4, <5>3 DEF E!Holds
      <4>4. Approved' <=> Approved
        BY <3>4 DEF Approved
      <4>5. \A v \in Workers : worker'[v] = worker[v] \/ worker'[v].pc = "ended"
        BY <4>2
      <4>6. \A v \in Workers : worker'[v].pc = "working" => worker'[v] = worker[v]
        BY <4>2
      <4> QED BY <2>1, <2>8, <2>11, <3>1, <3>3, <3>4, <4>2, <4>3, <4>4, <4>5, <4>6
    <3>5. CASE /\ E!Holds(w, n, a) /\ worker' = [worker EXCEPT ![w] = Loop("polling")]
               /\ Pauses(n, a) \/ Fails(n, w, a) \/ Completes(n, w, a)
      <4>1. /\ s.node[n] = [state |-> "RUNNING", attempt |-> a, worker |-> w]
            /\ s.node[n].state = "RUNNING" /\ s.node[n].attempt = a
        BY <3>5 DEF E!Holds
      <4>2. Loop("polling").pc = "polling"
        BY <2>9
      <4>3. /\ worker' \in [Workers -> Loops] /\ worker'[w].pc = "polling"
            /\ \A v \in Workers \ {w} : worker'[v] = worker[v]
        BY <2>1, <2>9, <3>5, <4>2
      <4>4. \A m \in Nodes \ {n} :
              s.node[m].state = "RUNNING" => worker'[s.node[m].worker] = worker[s.node[m].worker]
        BY <2>10, <4>3 DEF n
      <4>5. \A v \in Workers : worker'[v].pc = "working" => worker'[v] = worker[v]
        BY <4>3
      <4>6. \A u \in s.pending : u.purpose = "retry_backoff" => u \in s.pending /\ u.node # n
        BY <1>2, <4>1 DEF DemoInv, Retries
      <4>7. \A v \in Workers : worker'[v] = worker[v] \/ (worker[v].pc # "ended" /\ worker[v].node = n)
        BY <3>1, <4>3 DEF n
      <4>8. a <= stalls' + 2 /\ stalls' \in stalls .. MaxStalls
        BY <1>2, <2>1, <3>1, <3>2, <4>1 DEF DemoInv, Counted
      \* What remains to be shown of each kind of report.
      <4>9. ASSUME NEW state \in {"AWAITING_APPROVAL", "FAILED", "COMPLETED"}, NEW v, NEW spawned,
                   Leaves(n, state, a, v, spawned), log' \in Logs, Flat(t), Approved' <=> Approved,
                   state = "AWAITING_APPROVAL" => n = Gate /\ a = 1,
                   \A u \in t.pending : u.purpose = "retry_backoff" =>
                      u \in s.pending \/ (/\ u.node = n /\ n \in Flaky /\ u.attempt = 1
                                          /\ state = "FAILED" /\ a = 1),
                   n = Gate => state # "COMPLETED" \/ a # 1
            PROVE  DemoInv'
        <5>1. /\ Moved(s, t, n, spawned) /\ s.runState \in {"RUNNING", "FAILED"}
              /\ t.node[n].state = state /\ t.node[n].attempt = a
          BY <4>9 DEF Leaves
        <5>2. /\ state \notin {"ABSENT", "PENDING", "READY", "RUNNING"}
              /\ s.node[n].state \notin {"ABSENT", "PENDING", "COMPLETED"}
          BY <4>1
        <5>3. /\ Begun' /\ Fresh' /\ Ordered' /\ Counted' /\ Others(n)
              /\ \A m \in Nodes : s.node[m].state = "COMPLETED" => t.node[m].state = "COMPLETED"
          BY <2>2, <3>2, <4>8, <4>9, <5>1, <5>2
        <5>4. Typed'
          BY <2>1, <2>11, <3>1, <4>3, <4>9 DEF Typed
        <5>5. Waits'
          BY <2>5, <3>2, <4>9, <5>1, <5>3
        <5>6. Retries'
          BY <2>6, <3>2, <4>6, <4>9, <5>1, <5>3
        <5>7. Working'
          BY <2>7, <3>2, <4>4, <4>5, <5>1, <5>2, <5>3
        <5>8. Asks'
          BY <2>1, <2>11, <3>1, <5>3 DEF Asks
        <5>9. GateHeld'
          <6>1. CASE n # Gate
            BY <2>3, <3>2, <4>7, <4>9, <5>3, <6>1
          <6>2. CASE n = Gate /\ Approved
            <7>1. s.node[Draft].state = "COMPLETED" /\ a # 1
              BY <1>2, <4>1, <6>2 DEF DemoInv, GateHeld
            <7> QED BY <2>1, <3>2, <4>9, <5>1, <5>3, <6>2, <7>1 DEF GateHeld
          <6>3. CASE n = Gate /\ ~Approved
            <7>1. a <= 1
              BY <1>2, <4>1, <6>3 DEF DemoInv, GateHeld
            <7>2. a = 1
              BY <3>2, <7>1
            <7> QED BY <4>9, <5>1, <5>2, <6>3, <7>2 DEF GateHeld
          <6> QED BY <6>1, <6>2, <6>3
        <5> QED BY <5>3, <5>4, <5>5, <5>6, <5>7, <5>8, <5>9 DEF DemoInv
      <4>10. CASE Pauses(n, a)
        <5> DEFINE u == E!Timer(n, "checkpoint_timeout", a)
        <5>1. /\ n = Gate /\ a = 1 /\ Leaves(n, "AWAITING_APPROVAL", a, NoWorker, {})
              /\ t.pending \in {s.pending, s.pending \cup {u}} /\ Tells({"checkpoint"}, {})
          BY <4>10 DEF Pauses
        <5>2. u.purpose = "checkpoint_timeout"
          BY DEF E!Timer
        <5>3. log' \in Logs /\ Flat(t) /\ (Approved' <=> Approved)
          BY <2>4, <5>1
        <5> HIDE DEF u
        <5> QED BY <4>9, <5>1, <5>2, <5>3
      <4>11. CASE Fails(n, w, a)
        <5> DEFINE u == E!Timer(n, "retry_backoff", a)
        <5>1. /\ n \in Flaky /\ a = 1 /\ Leaves(n, "FAILED", a, w, {})
              /\ t.pending = s.pending \cup {u} /\ Tells({"retry"}, {})
          BY <4>11 DEF Fails
        <5>2. u.node = n /\ u.attempt = a
          BY DEF E!Timer
        <5>3. log' \in Logs /\ Flat(t) /\ (Approved' <=> Approved)
          BY <2>4, <5>1
        <5> HIDE DEF u
        <5> QED BY <4>9, <5>1, <5>2, <5>3
      <4>12. CASE Completes(n, w, a)
        <5>1. (n = Gate => a # 1) /\ t.pending = s.pending
          BY <4>12 DEF Completes
        <5>2. CASE Leaves(n, "COMPLETED", a, w, Spawned[n])
                   /\ Tells({}, IF Spawned[n] # {} THEN {"spawn"} ELSE {})
          <6>1. log' \in Logs /\ Flat(t) /\ (Approved' <=> Approved)
            BY <2>4, <5>2
          <6> QED BY <4>9, <5>1, <5>2, <6>1
        <5>3. CASE Leaves(n, "FAILED", a, w, {}) /\ Tells({}, {})
          <6>1. log' \in Logs /\ Flat(t) /\ (Approved' <=> Approved)
            BY <2>4, <5>3
          <6> QED BY <4>9, <5>1, <5>3, <6>1
        <5> QED BY <4>12, <5>2, <5>3 DEF Completes
      <4> QED BY <3>5, <4>10, <4>11, <4>12
    <3> QED BY <3>1, <3>4, <3>5 DEF Reports
  <2>17. CASE ApproverAsks
    <3>1. /\ UNCHANGED <<log, memory, worker, other, stalls>> /\ approver' = "approving"
          /\ s.node[Draft].state = "COMPLETED"
      BY <2>17 DEF ApproverAsks, CanAsk
    <3>2. Approved' <=> Approved
      BY <3>1 DEF Approved
    <3>3. Loaded' <=> Loaded
      BY <3>1 DEF Loaded
    <3> QED BY <2>1, <2>8, <2>11, <3>1, <3>2, <3>3
  <2>18. CASE Approve /\ approver' = "watching"
    <3>1. /\ s.runState = "RUNNING" /\ s.node[Gate].state = "AWAITING_APPROVAL"
          /\ Leaves(Gate, "READY", 1, NoWorker, {}) /\ t.pending = s.pending
          /\ Tells({}, {"checkpoint"})
      BY <1>2, <2>18, ActionsMove
    <3>2. /\ s.node[Draft].state = "COMPLETED"
          /\ UNCHANGED <<worker, other, stalls>>
      BY <2>11, <2>18 DEF Approve
    <3>3. log' \in Logs /\ Flat(t) /\ Approved'
      BY <2>4, <3>1
    <3>4. Moved(s, t, Gate, {}) /\ t.node[Gate].state = "READY" /\ t.node[Gate].attempt = 1
      BY <3>1 DEF Leaves
    <3>5. stalls' \in stalls .. MaxStalls /\ 1 <= stalls' + 2 /\ 1 <= stalls' + 1
      BY <2>1, <3>2
    <3>6. /\ Begun' /\ Fresh' /\ Ordered' /\ Counted' /\ Others(Gate)
          /\ \A m \in Nodes : s.node[m].state = "COMPLETED" => t.node[m].state = "COMPLETED"
      BY <2>1, <2>2, <3>1, <3>3, <3>4, <3>5
    <3>7. Typed'
      BY <2>1, <2>11, <2>18, <3>2, <3>3 DEF Typed
    <3>8. Waits'
      BY <2>1, <2>5, <3>4, <3>6
    <3>9. Retries'
      <4>1. \A u \in s.pending : u.purpose = "retry_backoff" => u.node # Gate
        BY <1>2, <3>1 DEF DemoInv, Retries
      <4> QED BY <2>1, <2>6, <3>1, <3>6, <4>1
    <3>10. Working'
      BY <2>1, <2>7, <3>2, <3>4, <3>6
    <3>11. Asks' /\ GateHeld'
      BY <2>1, <2>18, <3>2, <3>3, <3>4, <3>6 DEF Asks, GateHeld
    <3> QED BY <3>6, <3>7, <3>8, <3>9, <3>10, <3>11 DEF DemoInv
  <2>19. CASE Approve /\ approver' # "watching"
    <3>1. UNCHANGED <<log, memory, worker, other, stalls>> /\ approver' = "ended"
      BY <2>19 DEF Approve
    <3>2. (Approved' <=> Approved) /\ (Loaded' <=> Loaded)
      BY <3>1 DEF Approved, Loaded
    <3> QED BY <2>1, <2>8, <2>11, <3>1, <3>2
  <2>20. ASSUME NEW n \in Nodes, ExpireLease(n) PROVE DemoInv'
    <3> DEFINE a == s.node[n].attempt
    <3>1. /\ Leaves(n, "READY", a, NoWorker, {}) /\ t.pending = s.pending
          /\ Tells({}, {})
      BY <1>2, <2>20, ActionsMove
    <3>2. /\ s.node[n].state = "RUNNING" /\ stalls' = stalls + 1 /\ stalls < MaxStalls
          /\ UNCHANGED <<worker, approver, other>>
      BY <2>20 DEF ExpireLease
    <3>3. log' \in Logs /\ Flat(t) /\ (Approved' <=> Approved)
      BY <2>4, <3>1
    <3>4. Moved(s, t, n, {}) /\ t.node[n].state = "READY" /\ t.node[n].attempt = a
          /\ s.runState \in {"RUNNING", "FAILED"}
      BY <3>1 DEF Leaves
    <3>5. stalls' \in stalls .. MaxStalls /\ a <= stalls' + 2 /\ a <= stalls' + 1
      BY <1>2, <2>1, <3>2 DEF DemoInv, Counted
    <3> HIDE DEF a
    <3>6. /\ Begun' /\ Fresh' /\ Ordered' /\ Counted' /\ Others(n)
          /\ \A m \in Nodes : s.node[m].state = "COMPLETED" => t.node[m].state = "COMPLETED"
      BY <2>1, <2>2, <3>2, <3>3, <3>4, <3>5
    <3>7. Typed'
      BY <2>1, <2>11, <3>2, <3>3, <3>5 DEF Typed
    <3>8. Waits'
      BY <2>1, <2>5, <3>4, <3>6
    <3>9. Retries'
      <4>1. \A u \in s.pending : u.purpose = "retry_backoff" => u.node # n
        BY <1>2, <3>2 DEF DemoInv, Retries
      <4> QED BY <2>1, <2>6, <3>1, <3>6, <4>1
    <3>10. Working'
      BY <2>1, <2>7, <3>2, <3>4, <3>6
    <3>11. Asks'
      BY <2>1, <2>11, <3>2, <3>6 DEF Asks
    <3>12. GateHeld'
      <4>1. CASE n # Gate
        BY <2>3, <3>2, <3>3, <3>6, <4>1
      <4>2. CASE n = Gate /\ Approved
        <5>1. s.node[Draft].state = "COMPLETED" /\ a > 0 /\ a # 1
          BY <1>2, <3>2, <4>2 DEF DemoInv, GateHeld, a
        <5> QED BY <2>1, <3>3, <3>4, <3>6, <4>2, <5>1 DEF GateHeld
      <4>3. CASE n = Gate /\ ~Approved
        <5>1. a <= 1
          BY <1>2, <4>3 DEF DemoInv, GateHeld, a
        <5>2. ASSUME a = 1, NEW v \in Workers, Def[Gate].activity \in Skills[v]
              PROVE  At(v, Gate, 1)'
          <6> DEFINE u == s.node[n].worker
          <6>1. u \in Workers /\ At(u, Gate, 1) /\ Def[Gate].activity \in Skills[u]
            BY <2>10, <3>2, <4>3, <5>2 DEF a
          <6>2. u = v
            BY <5>2, <6>1, DemoAssumption
          <6> HIDE DEF u
          <6> QED BY <3>2, <6>1, <6>2 DEF At
        <5> QED BY <3>3, <3>4, <4>3, <5>1, <5>2 DEF GateHeld
      <4> QED BY <4>1, <4>2, <4>3
    <3> QED BY <3>6, <3>7, <3>8, <3>9, <3>10, <3>11, <3>12 DEF DemoInv
  <2>21. ASSUME NEW k \in Nodes, NEW u \in {RetryTimer(k), ApprovalTimer(k)}, FireTimer(u) PROVE DemoInv'
    <3> DEFINE n == u.node
               a == s.node[n].attempt
    <3>1. Fires(u) /\ u \in s.pending /\ UNCHANGED <<worker, approver, other, stalls>>
      BY <1>2, <2>21, ActionsMove DEF FireTimer
    <3>2. u \in Timers
      BY <2>1, <3>1 DEF ExecutionStates
    <3>3. n \in Nodes
      BY <3>2 DEF Timers
    <3>4. t.pending = s.pending \ {u} /\ s.runState = "RUNNING"
      BY <3>1 DEF Fires
    \* The timer is used, and no other retry of its node is pending.
    <3>5. ASSUME NEW v \in t.pending, v.purpose = "retry_backoff"
          PROVE  v \in s.pending /\ (v.node # n \/ u.purpose # "retry_backoff")
      <4>1. v \in s.pending /\ v # u /\ v \in Timers
        BY <2>1, <3>4 DEF ExecutionStates
      <4>2. v.attempt = 1 /\ u.purpose = "retry_backoff" => u.attempt = 1
        BY <1>2, <3>1, <3>5, <4>1 DEF DemoInv, Retries
      <4>3. \A x, y \in Timers : x.node = y.node /\ x.purpose = y.purpose /\ x.attempt = y.attempt => x = y
        BY DEF Timers
      <4>4. v.attempt = 1
        BY <1>2, <3>5, <4>1 DEF DemoInv, Retries
      <4> QED BY <3>2, <3>5, <4>1, <4>2, <4>3, <4>4
    <3>6. stalls' \in stalls .. MaxStalls /\ a <= stalls' + 2 /\ (s.node[n].state = "READY" => a <= stalls' + 1)
          /\ 1 <= stalls' + 1 /\ 1 <= stalls' + 2
      BY <1>2, <2>1, <3>1, <3>3 DEF DemoInv, Counted
    \* What remains to be shown of each timer.
    <3>7. ASSUME Moved(s, t, n, {}), log' \in Logs, Flat(t), Approved' <=> Approved,
                 \/ t.node[n] = s.node[n] /\ u.purpose # "retry_backoff"
                 \/ /\ u.purpose = "retry_backoff" /\ n \in Flaky
                    /\ s.node[n].state = "FAILED"
                    /\ t.node[n].state = "READY" /\ t.node[n].attempt = 1
                 \/ /\ u.purpose # "retry_backoff"
                    /\ s.node[n].state = "AWAITING_APPROVAL"
                    /\ t.node[n].state = "FAILED" /\ t.node[n].attempt = a
          PROVE  DemoInv'
      <4>1. /\ t.node[n].attempt <= stalls' + 2
            /\ t.node[n].state = "READY" => t.node[n].attempt <= stalls' + 1
        BY <3>6, <3>7
      <4>2. /\ Begun' /\ Fresh' /\ Ordered' /\ Counted' /\ Others(n)
            /\ \A m \in Nodes : s.node[m].state = "COMPLETED" => t.node[m].state = "COMPLETED"
        BY <2>2, <3>3, <3>4, <3>6, <3>7, <4>1
      <4>3. Typed'
        BY <2>1, <2>11, <3>1, <3>7 DEF Typed
      <4>4. Waits'
        <5>1. t.node[n] = s.node[n] /\ t.node[n].state = "AWAITING_APPROVAL" =>
                 n = Gate /\ t.node[n].attempt = 1
          BY <1>2, <3>3 DEF DemoInv, Waits, InState
        <5> QED BY <2>5, <3>3, <3>7, <4>2, <5>1
      <4>5. Retries'
        <5>1. \A v \in s.pending : v.purpose = "retry_backoff" => s.node[v.node].state = "FAILED"
          BY <1>2 DEF DemoInv, Retries
        <5> QED BY <2>6, <3>3, <3>5, <3>7, <4>2, <5>1
      <4>6. Working'
        <5>1. t.node[n].state = "RUNNING" =>
                 t.node[n].worker \in Workers /\ AtNext(t.node[n].worker, n, t.node[n].attempt)
          BY <2>10, <3>1, <3>3, <3>7 DEF At
        <5> QED BY <2>7, <3>1, <3>3, <4>2, <5>1
      <4>7. Asks'
        BY <2>1, <2>11, <3>1, <4>2 DEF Asks
      <4>8. GateHeld'
        <5>1. CASE n # Gate \/ t.node[Gate] = s.node[Gate]
          BY <2>3, <3>1, <3>3, <3>7, <4>2, <5>1
        <5>2. CASE n = Gate /\ t.node[Gate] # s.node[Gate]
          <6>1. /\ s.node[Gate].state = "AWAITING_APPROVAL" /\ t.node[Gate].state = "FAILED"
                /\ t.node[Gate].attempt = s.node[Gate].attempt
            BY <3>7, <5>2, DemoAssumption
          <6>2. s.node[Gate].attempt = 1
            BY <1>2, <2>1, <6>1 DEF DemoInv, Waits, InState
          <6>3. ~Approved
            BY <1>2, <6>1, <6>2 DEF DemoInv, GateHeld
          <6> QED BY <3>7, <6>1, <6>2, <6>3 DEF GateHeld
        <5> QED BY <5>1, <5>2
      <4> QED BY <4>2, <4>3, <4>4, <4>5, <4>6, <4>7, <4>8 DEF DemoInv
    <3>8. CASE u.purpose = "retry_backoff"
      <4>1. Leaves(n, "READY", 1, NoWorker, {}) /\ Tells({}, {"retry"})
        BY <3>1, <3>8 DEF Fires
      <4>2. n \in Flaky /\ s.node[n].state = "FAILED"
        BY <1>2, <3>1, <3>8 DEF DemoInv, Retries
      <4>3. log' \in Logs /\ Flat(t) /\ (Approved' <=> Approved)
        BY <2>4, <4>1
      <4> QED BY <3>7, <3>8, <4>1, <4>2, <4>3 DEF Leaves
    <3>9. CASE u.purpose = "checkpoint_timeout"
      <4>1. /\ Tells({}, {})
            /\ \/ /\ s.node[n].state = "AWAITING_APPROVAL"
                  /\ Leaves(n, "FAILED", a, s.node[n].worker, {})
               \/ t.node[n] = s.node[n] /\ Moved(s, t, n, {})
        BY <3>1, <3>9 DEF Fires
      <4>2. log' \in Logs /\ Flat(t) /\ (Approved' <=> Approved)
        BY <2>4, <4>1
      <4> QED BY <3>7, <3>9, <4>1, <4>2 DEF Leaves
    <3> QED BY <3>1, <3>8, <3>9 DEF Fires
  \* The second process.
  <2>22. ASSUME NEW y \in ExecutionStates, NEW events, EmitOther(y, events), Written(log, y, events),
                NEW ended \in {{}, {"retry"}}, Phased(log, events, {}, ended), s.runState # "NONE"
         PROVE  DemoInv'
    <3>1. /\ log' = Appended(log, events) /\ other' = After(y, events)
          /\ UNCHANGED <<memory, worker, approver, stalls>>
      BY <2>22 DEF EmitOther
    <3>2. log' \in Logs /\ other' \in ExecutionStates /\ (Approved' <=> Approved)
      BY <2>1, <2>22, <3>1 DEF Written, Phased, Approved
    <3> QED BY <2>1, <2>8, <2>11, <2>22, <3>1, <3>2
  <2>23. ASSUME NEW y \in log.recent, y # New
         PROVE  y \in ExecutionStates /\ s.runState # "NONE"
    <3>1. NewLog.recent = {New}
      BY DEF NewLog
    <3> QED BY <2>1, <2>11, <2>23, <3>1 DEF Logs
  <2>24. CASE OpenOther
    <3>1. PICK y \in log.recent : IF y = New
                                    THEN /\ other' = Empty
                                         /\ UNCHANGED <<log, memory, worker, approver, stalls, foreign, watched>>
                                    ELSE EmitOther(y, Advanced(y))
      BY <2>24 DEF OpenOther
    <3>2. CASE y = New
      <4>1. UNCHANGED <<log, memory, worker, approver, stalls>> /\ ~Loaded' /\ other' = Empty
        BY <3>1, <3>2 DEF Loaded
      <4>2. Approved' <=> Approved
        BY <4>1 DEF Approved
      <4> QED BY <2>1, <2>8, <2>11, <4>1, <4>2
    <3>3. CASE y # New
      <4>1. y \in ExecutionStates /\ s.runState # "NONE"
        BY <2>23, <3>3
      <4>2. Written(log, y, Advanced(y)) /\ Phased(log, Advanced(y), {}, {})
        <5>1. E!Timer(Gate, "retry_backoff", 1) \in Timers /\ NoWorker \in Workers \cup {NoWorker} /\ 1 \in Nat
          BY <2>1 DEF E!Timer, Timers, Purposes
        <5> QED BY <2>1, <4>1, <5>1, HandlerEffects
      <4> QED BY <2>22, <3>1, <3>3, <4>1, <4>2
    <3> QED BY <3>2, <3>3
  <2>25. CASE LookOther
    <3>1. /\ other' \in log.recent \ {New}
          /\ UNCHANGED <<log, memory, worker, approver, stalls>>
      BY <2>25 DEF LookOther
    <3>2. other' \in ExecutionStates /\ s.runState # "NONE"
      BY <2>23, <3>1
    <3>3. Approved' <=> Approved
      BY <3>1 DEF Approved
    <3> QED BY <2>1, <2>8, <2>11, <3>1, <3>2, <3>3
  <2>26. ASSUME Loaded PROVE other \in ExecutionStates /\ s.runState # "NONE"
    BY <2>11, <2>26 DEF Loaded
  <2>27. ASSUME NEW n \in Nodes, ExpireOther(n) PROVE DemoInv'
    <3>1. Loaded /\ EmitOther(other, Expired(other, n))
      BY <2>27 DEF ExpireOther
    <3>2. other \in ExecutionStates /\ s.runState # "NONE"
      BY <2>26, <3>1
    <3>3. Written(log, other, Expired(other, n)) /\ Phased(log, Expired(other, n), {}, {})
      <4>1. E!Timer(Gate, "retry_backoff", 1) \in Timers /\ NoWorker \in Workers \cup {NoWorker} /\ 1 \in Nat
        BY <2>1 DEF E!Timer, Timers, Purposes
      <4> QED BY <2>1, <3>2, <4>1, HandlerEffects
    <3> QED BY <2>22, <3>1, <3>2, <3>3
  <2>28. ASSUME NEW n \in Nodes, NEW u \in {RetryTimer(n), ApprovalTimer(n)}, FireOther(u) PROVE DemoInv'
    <3> DEFINE ended == IF u.purpose = "retry_backoff" THEN {"retry"} ELSE {}
    <3>1. Loaded /\ u \in other.pending /\ EmitOther(other, Fired(other, u))
      BY <2>28 DEF FireOther
    <3>2. other \in ExecutionStates /\ s.runState # "NONE"
      BY <2>26, <3>1
    <3>3. u \in Timers
      BY <3>1, <3>2 DEF ExecutionStates
    <3>4. Written(log, other, Fired(other, u)) /\ Phased(log, Fired(other, u), {}, ended)
      <4>1. NoWorker \in Workers \cup {NoWorker} /\ 1 \in Nat
        OBVIOUS
      <4> QED BY <2>1, <3>2, <3>3, <4>1, HandlerEffects
    <3>5. ended \in {{}, {"retry"}}
      OBVIOUS
    <3> HIDE DEF ended
    <3> QED BY <2>22, <3>1, <3>2, <3>4, <3>5
  <2>29. CASE UNCHANGED vars
    <3>1. UNCHANGED <<log, memory, worker, approver, other, stalls>>
      BY <2>29 DEF vars
    <3>2. (Approved' <=> Approved) /\ (Loaded' <=> Loaded)
      BY <3>1 DEF Approved, Loaded
    <3> QED BY <2>1, <2>8, <2>11, <3>1, <3>2
  <2> QED
    BY <1>2, <2>13, <2>14, <2>15, <2>16, <2>17, <2>18, <2>19, <2>20, <2>21, <2>24, <2>25, <2>27,
       <2>28, <2>29 DEF Next, Go
<1> QED
  BY <1>1, <1>2, PTL DEF Spec

(* Nothing that waits for the gate starts before the gate was approved:    *)
(* what it waits for is completed (Ordered), and the gate completes only   *)
(* on an attempt that follows its approval (GateHeld).                     *)
THEOREM NothingIsPublishedUnapproved == Spec => []NothingPublishedUnapproved
<1>1. DemoInv => NothingPublishedUnapproved
  <2> SUFFICES ASSUME DemoInv PROVE NothingPublishedUnapproved
    OBVIOUS
  <2>1. Gate \in Nodes /\ (Approved <=> log.phases.checkpoint = "complete")
    BY DemoAssumption DEF Approved
  <2>2. Approved => memory.node[Draft].state = "COMPLETED"
    BY DEF DemoInv, GateHeld
  <2>3. ASSUME NEW n \in InState(memory, {"RUNNING", "COMPLETED"}), Gate \in Def[n].deps
        PROVE  Approved
    <3>1. Gate \in InState(memory, {"COMPLETED"})
      BY <2>3 DEF DemoInv, Ordered, InState, DependenciesCompleted
    <3> QED BY <3>1 DEF DemoInv, GateHeld, InState
  <2> QED BY <2>1, <2>2, <2>3 DEF NothingPublishedUnapproved
<1> QED
  BY <1>1, DemoInvariant, PTL

(* The node that fails once does so on its first attempt, and that is the  *)
(* only retry the log tells of.                                            *)
RetryTold ==
    \A n \in Flaky : log.phases["retry"] # "none" =>
        /\ memory.node[n].attempt > 0
        /\ memory.node[n].attempt = 1 => memory.node[n].state \in {"FAILED", "READY"}

(* Until a second process finds the run unfinished, the log is the state   *)
(* of `grael start`; one that finds it completed has nothing to do.        *)
Timeline ==
    /\ ~Loaded => ~watched
    /\ watched \/ /\ log.state = memory /\ Told(log) /\ PhasesAgree /\ RetryTold
                  /\ Loaded => other.runState = "COMPLETED" /\ InState(other, {"RUNNING"}) = {}

(* What the demo tells from the events is what the run's state says.       *)
THEOREM TheTimelineTellsTheRun == Spec => []TimelineTellsTheRun
<1>1. Init => Timeline
  <2> SUFFICES ASSUME Init PROVE Timeline
    OBVIOUS
  <2>1. log = NewLog /\ memory = New /\ ~Loaded /\ ~watched
    BY DEF Init, Loaded
  <2>2. /\ NewLog.state = New /\ NewLog.recent = {New}
        /\ \A p \in {"spawn", "retry", "checkpoint", "complete"} : NewLog.phases[p] = "none"
    BY DEF NewLog
  <2>3. /\ \A n \in Nodes : New.node[n].state = "ABSENT"
        /\ New.runState = "NONE" /\ New.pending = {}
    BY DEF New
  <2>4. Present(New) = {}
    BY <2>3 DEF Present
  <2>5. Told(log)
    BY <2>1, <2>2, <2>3, <2>4 DEF Told, Dated, AtRest
  <2>6. PhasesAgree /\ RetryTold
    <3>1. Gate \in Nodes
      BY DemoAssumption
    <3> QED BY <2>1, <2>2, <2>3, <2>4, <3>1 DEF PhasesAgree, RetryTold
  <2> QED BY <2>1, <2>2, <2>5, <2>6 DEF Timeline
<1>2. ASSUME DemoInv, Timeline, [Next]_vars PROVE Timeline'
  <2> DEFINE s == memory
             t == memory'
             phase == log.phases
             told  == log'.phases
             Other(m) == \/ t.node[m] = s.node[m]
                         \/ /\ s.node[m].state \in {"ABSENT", "PENDING"}
                            /\ s.node[m].attempt = 0 /\ t.node[m].attempt = 0
                            /\ t.node[m].state \in {"PENDING", "READY"}
             Retried(pending) == \E u \in pending : u.purpose = "retry_backoff"
  <2>1. /\ Gate \in Nodes /\ Flaky \subseteq Nodes /\ Gate \notin Flaky
        /\ PhaseNames = {"spawn", "retry", "checkpoint", "complete"}
        /\ \A p \in PhaseNames : phase[p] \in {"none", "active", "complete"}
        /\ log \in Logs /\ Flat(s) /\ s \in ExecutionStates
    <3>1. log \in Logs /\ Flat(s)
      BY <1>2 DEF DemoInv, Typed
    <3>2. \A p \in PhaseNames : phase[p] \in {"none", "active", "complete"}
      BY <3>1 DEF Logs
    <3> QED BY <3>1, <3>2, DemoAssumption DEF Flat, PhaseNames
  <2>2. ASSUME UNCHANGED <<other, watched>>
        PROVE  /\ watched => Timeline'
               /\ UNCHANGED <<log, memory>> => Timeline'
    <3>1. Loaded' <=> Loaded
      BY <2>2 DEF Loaded
    <3>2. ~Loaded' => ~watched'
      BY <1>2, <2>2, <3>1 DEF Timeline
    <3>3. CASE watched
      BY <2>2, <3>2, <3>3 DEF Timeline
    <3>4. CASE ~watched /\ UNCHANGED <<log, memory>>
      <4>1. /\ log.state = memory /\ Told(log) /\ PhasesAgree /\ RetryTold
            /\ Loaded => other.runState = "COMPLETED" /\ InState(other, {"RUNNING"}) = {}
        BY <1>2, <3>4 DEF Timeline
      <4>2. PhasesAgree' /\ RetryTold'
        BY <3>4, <4>1 DEF PhasesAgree, RetryTold, Present
      <4> QED BY <2>2, <3>1, <3>2, <3>4, <4>1, <4>2 DEF Timeline
    <3> QED BY <3>3, <3>4
  <2>3. ASSUME ~watched
        PROVE  /\ log.state = memory /\ Told(log) /\ PhasesAgree /\ RetryTold
               /\ Loaded => other.runState = "COMPLETED" /\ InState(other, {"RUNNING"}) = {}
    BY <1>2, <2>3 DEF Timeline
  \* A step of `grael start` about the node k, nobody watching.
  <2>4. ASSUME NEW k \in Nodes, NEW spawned, NEW begun, NEW ended,
               Moved(s, t, k, spawned), Tells(begun, ended), s.runState \in {"RUNNING", "FAILED"},
               UNCHANGED <<other, watched>>, ~watched,
               spawned \cap Present(s) = {}, "spawn" \in ended <=> spawned # {},
               "checkpoint" \in ended => t.node[Gate].state = "READY",
               "checkpoint" \in begun =>
                  /\ t.node[Gate].state = "AWAITING_APPROVAL"
                  /\ ~Approved /\ "checkpoint" \notin ended,
               "checkpoint" \notin begun \cup ended /\ k = Gate =>
                  \/ t.node[k].state = s.node[k].state
                  \/ s.node[k].state \notin {"AWAITING_APPROVAL", "FAILED"} /\ t.node[k].state # "AWAITING_APPROVAL"
                  \/ t.node[k].state = "FAILED",
               "retry" \in begun => /\ Retried(t.pending) /\ phase["retry"] = "none" /\ "retry" \notin ended
                                    /\ k \in Flaky /\ t.node[k].state = "FAILED" /\ t.node[k].attempt = 1,
               "retry" \in ended => /\ ~Retried(t.pending)
                                    /\ k \in Flaky /\ t.node[k].state = "READY" /\ t.node[k].attempt = 1,
               "retry" \notin begun \cup ended =>
                  /\ Retried(t.pending) <=> Retried(s.pending)
                  /\ \/ k \notin Flaky
                     \/ s.node[k].attempt > 0 /\ t.node[k].attempt > 1
                     \/ phase["retry"] = "none"
                     \/ t.node[k].attempt = s.node[k].attempt /\ s.node[k].attempt # 1
                     \/ t.node[k] = s.node[k]
        PROVE  Timeline'
    <3>1. /\ log.state = memory /\ Told(log) /\ PhasesAgree /\ RetryTold
          /\ (Loaded => other.runState = "COMPLETED" /\ InState(other, {"RUNNING"}) = {})
          /\ s.runState # "COMPLETED"
      BY <2>3, <2>4
    <3>2. /\ log'.state = t /\ Told(log)'
          /\ told["complete"] = IF t.runState = "COMPLETED" THEN "complete" ELSE phase["complete"]
          /\ \A p \in {"spawn", "retry", "checkpoint"} :
                told[p] = IF p \in ended \/ phase[p] = "complete" THEN "complete"
                          ELSE IF p \in begun THEN "active" ELSE phase[p]
      BY <2>1, <2>4, <3>1 DEF Tells, Told, Dated
    <3>3. \A m \in Nodes \ {k} : Other(m)
      BY <1>2, <2>4 DEF Moved, DemoInv, Fresh, InState
    <3>4. (told["spawn"] = "complete") = (Present(t) \ InitialNodes # {})
      <4>1. (phase["spawn"] = "complete") = (Present(s) \ InitialNodes # {})
        BY <3>1 DEF PhasesAgree
      <4>2. Present(t) = Present(s) \cup spawned
        BY <2>4 DEF Moved
      <4>3. InitialNodes \subseteq Present(s)
        BY <1>2, <2>4 DEF DemoInv, Begun
      <4>4. CASE spawned = {}
        <5>1. told["spawn"] = "complete" <=> phase["spawn"] = "complete"
          BY <2>4, <3>2, <4>4
        <5> QED BY <4>1, <4>2, <4>4, <5>1
      <4>5. CASE spawned # {}
        <5>1. told["spawn"] = "complete"
          BY <2>4, <3>2, <4>5
        <5>2. Present(t) \ InitialNodes # {}
          BY <2>4, <4>2, <4>3, <4>5
        <5> QED BY <5>1, <5>2
      <4> QED BY <4>4, <4>5
    <3>5. (told["complete"] = "complete") = (t.runState = "COMPLETED")
      <4>1. phase["complete"] # "complete"
        BY <3>1 DEF PhasesAgree
      <4> QED BY <3>2, <4>1
    <3>6. /\ told["checkpoint"] = "active" => t.node[Gate].state \in {"AWAITING_APPROVAL", "FAILED"}
          /\ t.node[Gate].state = "AWAITING_APPROVAL" => told["checkpoint"] = "active"
      <4>1. /\ phase["checkpoint"] = "active" => s.node[Gate].state \in {"AWAITING_APPROVAL", "FAILED"}
            /\ s.node[Gate].state = "AWAITING_APPROVAL" => phase["checkpoint"] = "active"
        BY <3>1 DEF PhasesAgree
      <4>2. CASE "checkpoint" \in ended
        BY <2>4, <3>2, <4>2
      <4>3. CASE "checkpoint" \in begun
        BY <2>4, <3>2, <4>3 DEF Approved
      <4>4. CASE "checkpoint" \notin begun \cup ended
        <5>1. told["checkpoint"] = phase["checkpoint"]
          BY <2>1, <3>2, <4>4
        <5>2. CASE k = Gate
          BY <2>4, <4>1, <4>4, <5>1, <5>2
        <5>3. CASE k # Gate
          BY <2>1, <3>3, <4>1, <5>1, <5>3
        <5> QED BY <5>2, <5>3
      <4> QED BY <4>2, <4>3, <4>4
    <3>7. told["retry"] = "active" <=> Retried(t.pending)
      <4>1. phase["retry"] = "active" <=> Retried(s.pending)
        BY <3>1 DEF PhasesAgree
      <4>2. CASE "retry" \in ended
        <5>1. told["retry"] = "complete"
          BY <3>2, <4>2
        <5> QED BY <2>4, <4>2, <5>1
      <4>3. CASE "retry" \in begun
        <5>1. told["retry"] = "active"
          BY <2>4, <3>2, <4>3
        <5> QED BY <2>4, <4>3, <5>1
      <4>4. CASE "retry" \notin begun \cup ended
        <5>1. told["retry"] = phase["retry"]
          BY <2>1, <3>2, <4>4
        <5>2. Retried(t.pending) <=> Retried(s.pending)
          BY <2>4, <4>4
        <5> QED BY <4>1, <5>1, <5>2
      <4> QED BY <4>2, <4>3, <4>4
    <3>8. PhasesAgree'
      BY <3>4, <3>5, <3>6, <3>7 DEF PhasesAgree, Present
    <3>9. RetryTold'
      <4> SUFFICES ASSUME NEW n \in Flaky, told["retry"] # "none"
                   PROVE  /\ t.node[n].attempt > 0
                          /\ t.node[n].attempt = 1 => t.node[n].state \in {"FAILED", "READY"}
        BY DEF RetryTold
      <4>1. CASE "retry" \in begun \cup ended
        BY <2>4, <4>1, DemoAssumption
      <4>2. CASE "retry" \notin begun \cup ended
        <5>1. told["retry"] = phase["retry"]
          BY <2>1, <3>2, <4>2
        <5>2. /\ s.node[n].attempt > 0
              /\ s.node[n].attempt = 1 => s.node[n].state \in {"FAILED", "READY"}
          BY <3>1, <5>1 DEF RetryTold
        <5>3. CASE n = k
          <6>1. \/ s.node[k].attempt > 0 /\ t.node[k].attempt > 1
                \/ t.node[k].attempt = s.node[k].attempt /\ s.node[k].attempt # 1
                \/ t.node[k] = s.node[k]
            BY <2>4, <4>2, <5>1, <5>3
          <6>2. t.node[k].attempt \in Nat
            BY <2>4 DEF Tells, Flat, ExecutionStates, NodeRecords
          <6> QED BY <5>2, <5>3, <6>1, <6>2
        <5>4. CASE n # k
          BY <2>1, <3>3, <5>2, <5>4
        <5> QED BY <5>3, <5>4
      <4> QED BY <4>1, <4>2
    <3>10. /\ Loaded' <=> Loaded
           /\ other' = other /\ watched' = watched
      BY <2>4 DEF Loaded
    <3> QED BY <1>2, <2>4, <3>1, <3>2, <3>8, <3>9, <3>10 DEF Timeline

  <2>5. CASE StartRun
    <3>1. Starts /\ UNCHANGED <<other, watched>>
      BY <1>2, <2>5, ActionsMove DEF StartRun
    <3>2. s.runState = "NONE"
      BY <3>1 DEF Starts, New
    <3>3. ~Loaded /\ ~Loaded' /\ ~watched'
      <4>1. ~Loaded
        BY <1>2, <3>2 DEF DemoInv, Begun
      <4> QED BY <1>2, <3>1, <4>1 DEF Timeline, Loaded
    <3>4. /\ log'.state = t /\ Told(log)' /\ t.runState = "RUNNING" /\ t.pending = {}
          /\ told["spawn"] = "none" /\ told["retry"] = "none"
          /\ told["checkpoint"] = "none" /\ told["complete"] = "none"
          /\ \A n \in Nodes : t.node[n].state # "AWAITING_APPROVAL"
      BY <2>1, <3>1 DEF Starts, Told, Dated
    <3>5. Present(t) \ InitialNodes = {}
      BY <3>1 DEF Starts, Present
    <3>6. PhasesAgree' /\ RetryTold'
      BY <2>1, <3>4, <3>5 DEF PhasesAgree, RetryTold, Present
    <3> QED BY <3>3, <3>4, <3>6 DEF Timeline
  <2>6. ASSUME NEW w \in Workers, ClaimTask(w) PROVE Timeline'
    <3>1. PICK n \in Nodes, a \in Nat : Claims(w, n, a)
      BY <1>2, <2>6, ActionsMove
    <3>2. UNCHANGED <<other, watched>>
      BY <2>6 DEF ClaimTask
    <3> SUFFICES ASSUME ~watched PROVE Timeline'
      BY <2>2, <3>2
    <3>3. /\ s.node[n].state = "READY" /\ a = s.node[n].attempt + 1
          /\ Moved(s, t, n, {}) /\ s.runState \in {"RUNNING", "FAILED"} /\ Tells({}, {})
          /\ t.node[n] = [state |-> "RUNNING", attempt |-> a, worker |-> w]
          /\ t.pending = s.pending
      BY <3>1 DEF Claims, ReadyFor, InState, Leaves
    <3>4. s.node[n].attempt \in Nat
      BY <2>1 DEF ExecutionStates, NodeRecords
    <3>5. n \notin Flaky \/ (s.node[n].attempt > 0 /\ a > 1) \/ phase["retry"] = "none"
      BY <2>3, <3>3, <3>4 DEF RetryTold
    <3>6. t.node[n].state = "RUNNING" /\ t.node[n].attempt = a
      BY <3>3
    <3> QED BY <2>4, <3>2, <3>3, <3>5, <3>6
  <2>7. ASSUME NEW w \in Workers, Report(w) PROVE Timeline'
    <3> DEFINE n == worker[w].node
               a == worker[w].attempt
    <3>1. Reports(w, n, a) /\ UNCHANGED <<other, watched>> /\ worker[w].pc = "working"
      BY <1>2, <2>7, ActionsMove DEF Report
    <3>2. n \in Nodes /\ a > 0 /\ a \in Nat
      BY <1>2, <3>1 DEF DemoInv, Typed, Working, Loops
    <3> HIDE DEF n, a
    <3>3. CASE UNCHANGED <<log, memory>>
      BY <2>2, <3>1, <3>3
    <3>4. CASE E!Holds(w, n, a) /\ (Pauses(n, a) \/ Fails(n, w, a) \/ Completes(n, w, a)) /\ ~watched
      <4>1. s.node[n].state = "RUNNING" /\ s.node[n].attempt = a
        BY <3>4 DEF E!Holds
      <4>2. CASE Pauses(n, a)
        <5>1. /\ n = Gate /\ a = 1 /\ Leaves(n, "AWAITING_APPROVAL", a, NoWorker, {})
              /\ t.pending \in {s.pending, s.pending \cup {E!Timer(n, "checkpoint_timeout", a)}}
              /\ Tells({"checkpoint"}, {})
          BY <4>2 DEF Pauses
        <5>2. Retried(t.pending) <=> Retried(s.pending)
          BY <5>1 DEF E!Timer
        <5>3. ~Approved
          BY <1>2, <4>1, <5>1 DEF DemoInv, GateHeld
        <5>4. /\ Moved(s, t, n, {}) /\ s.runState \in {"RUNNING", "FAILED"}
              /\ t.node[n].state = "AWAITING_APPROVAL"
          BY <5>1 DEF Leaves
        <5> HIDE DEF Retried
        <5> QED BY <2>1, <2>4, <3>1, <3>4, <5>1, <5>2, <5>3, <5>4
      <4>3. CASE Fails(n, w, a)
        <5> DEFINE u == E!Timer(n, "retry_backoff", a)
        <5>1. /\ n \in Flaky /\ a = 1 /\ Leaves(n, "FAILED", a, w, {})
              /\ t.pending = s.pending \cup {u} /\ Tells({"retry"}, {})
          BY <4>3 DEF Fails
        <5>2. Retried(t.pending)
          <6>1. u.purpose = "retry_backoff"
            BY DEF E!Timer
          <6> HIDE DEF u
          <6> QED BY <5>1, <6>1
        <5>3. phase["retry"] = "none"
          BY <2>3, <3>4, <4>1, <5>1 DEF RetryTold
        <5>4. /\ Moved(s, t, n, {}) /\ s.runState \in {"RUNNING", "FAILED"}
              /\ t.node[n].state = "FAILED" /\ t.node[n].attempt = 1
          BY <5>1 DEF Leaves
        <5> HIDE DEF Retried, u
        <5> QED BY <2>1, <2>4, <3>1, <3>4, <5>1, <5>2, <5>3, <5>4
      <4>4. CASE Completes(n, w, a)
        <5>1. (n \in Flaky => a # 1) /\ t.pending = s.pending
          BY <4>4 DEF Completes
        <5>2. n \in Flaky => a > 1
          BY <3>2, <5>1
        <5>3. CASE /\ Spawned[n] \cap Present(s) = {} /\ Leaves(n, "COMPLETED", a, w, Spawned[n])
                   /\ Tells({}, IF Spawned[n] # {} THEN {"spawn"} ELSE {})
          <6> DEFINE ended == IF Spawned[n] # {} THEN {"spawn"} ELSE {}
          <6>1. /\ Moved(s, t, n, Spawned[n]) /\ s.runState \in {"RUNNING", "FAILED"}
                /\ t.node[n].state = "COMPLETED" /\ t.node[n].attempt = a
            BY <5>3 DEF Leaves
          <6>2. Tells({}, ended) /\ ("spawn" \in ended <=> Spawned[n] # {}) /\ ended \subseteq {"spawn"}
            BY <5>3
          <6> HIDE DEF ended
          <6> QED BY <2>4, <3>1, <3>2, <3>4, <4>1, <5>1, <5>2, <5>3, <6>1, <6>2
        <5>4. CASE Leaves(n, "FAILED", a, w, {}) /\ Tells({}, {})
          <6>1. /\ Moved(s, t, n, {}) /\ s.runState \in {"RUNNING", "FAILED"}
                /\ t.node[n].state = "FAILED" /\ t.node[n].attempt = a
            BY <5>4 DEF Leaves
          <6> QED BY <2>4, <3>1, <3>2, <3>4, <4>1, <5>1, <5>2, <5>4, <6>1
        <5> QED BY <4>4, <5>3, <5>4 DEF Completes
      <4> QED BY <3>4, <4>2, <4>3, <4>4
    <3> QED BY <2>2, <3>1, <3>3, <3>4 DEF Reports
  <2>8. CASE Approve
    <3>1. UNCHANGED <<other, watched>>
      BY <2>8 DEF Approve
    <3>2. CASE approver' # "watching"
      <4>1. UNCHANGED <<log, memory>>
        BY <2>8, <3>2 DEF Approve
      <4> QED BY <2>2, <3>1, <4>1
    <3>3. CASE approver' = "watching" /\ ~watched
      <4>1. /\ s.node[Gate].state = "AWAITING_APPROVAL" /\ t.pending = s.pending
            /\ Leaves(Gate, "READY", 1, NoWorker, {}) /\ Tells({}, {"checkpoint"})
        BY <1>2, <2>8, <3>3, ActionsMove
      <4>2. /\ Moved(s, t, Gate, {}) /\ s.runState \in {"RUNNING", "FAILED"}
            /\ t.node[Gate].state = "READY"
        BY <4>1 DEF Leaves
      <4> QED BY <2>1, <2>4, <3>1, <3>3, <4>1, <4>2
    <3> QED BY <2>2, <3>1, <3>2, <3>3
  <2>9. ASSUME NEW n \in Nodes, ExpireLease(n) PROVE Timeline'
    <3>1. UNCHANGED <<other, watched>> /\ s.node[n].state = "RUNNING"
      BY <2>9 DEF ExpireLease
    <3>2. CASE ~watched
      <4>1. /\ t.pending = s.pending /\ Tells({}, {})
            /\ Leaves(n, "READY", s.node[n].attempt, NoWorker, {})
        BY <1>2, <2>9, ActionsMove
      <4>2. /\ Moved(s, t, n, {}) /\ s.runState \in {"RUNNING", "FAILED"}
            /\ t.node[n].state = "READY" /\ t.node[n].attempt = s.node[n].attempt
        BY <4>1 DEF Leaves
      <4>3. n \in Flaky /\ s.node[n].attempt = 1 => phase["retry"] = "none"
        BY <2>3, <3>1, <3>2 DEF RetryTold
      <4> QED BY <2>4, <3>1, <3>2, <4>1, <4>2, <4>3
    <3> QED BY <2>2, <3>1, <3>2
  <2>10. ASSUME NEW k \in Nodes, NEW u \in {RetryTimer(k), ApprovalTimer(k)}, FireTimer(u)
         PROVE  Timeline'
    <3> DEFINE n == u.node
    <3>1. Fires(u) /\ u \in s.pending /\ UNCHANGED <<other, watched>>
      BY <1>2, <2>10, ActionsMove DEF FireTimer
    <3>2. u \in Timers /\ n \in Nodes /\ s.pending \subseteq Timers
      BY <2>1, <3>1 DEF ExecutionStates, Timers
    <3>3. t.pending = s.pending \ {u} /\ s.runState = "RUNNING"
      BY <3>1 DEF Fires
    <3>4. CASE u.purpose = "retry_backoff" /\ ~watched
      <4>1. Leaves(n, "READY", 1, NoWorker, {}) /\ Tells({}, {"retry"})
        BY <3>1, <3>4 DEF Fires
      <4>2. /\ Moved(s, t, n, {}) /\ t.node[n].state = "READY" /\ t.node[n].attempt = 1
        BY <4>1 DEF Leaves
      <4>3. n \in Flaky /\ u.attempt = 1
        BY <1>2, <3>1, <3>4 DEF DemoInv, Retries
      \* There is one node that fails, and one attempt on which it does.
      <4>4. ~Retried(t.pending)
        <5> SUFFICES ASSUME NEW v \in t.pending, v.purpose = "retry_backoff" PROVE FALSE
          OBVIOUS
        <5>1. v \in s.pending /\ v # u /\ v \in Timers
          BY <3>2, <3>3
        <5>2. v.node \in Flaky /\ v.attempt = 1
          BY <1>2, <5>1 DEF DemoInv, Retries
        <5>3. v.node = u.node
          BY <4>3, <5>2, DemoAssumption
        <5>4. v = u
          BY <3>2, <3>4, <4>3, <5>1, <5>2, <5>3 DEF Timers
        <5> QED BY <5>1, <5>4
      <4> HIDE DEF Retried, n
      <4> QED BY <2>1, <2>4, <3>1, <3>2, <3>3, <3>4, <4>1, <4>2, <4>3, <4>4
    <3>5. CASE u.purpose = "checkpoint_timeout" /\ ~watched
      <4>1. /\ Tells({}, {})
            /\ \/ /\ s.node[n].state = "AWAITING_APPROVAL"
                  /\ Leaves(n, "FAILED", s.node[n].attempt, s.node[n].worker, {})
               \/ t.node[n] = s.node[n] /\ Moved(s, t, n, {})
        BY <3>1, <3>5 DEF Fires
      <4>2. /\ Moved(s, t, n, {})
            /\ \/ t.node[n] = s.node[n]
               \/ n = Gate /\ t.node[n].state = "FAILED"
        BY <1>2, <3>2, <4>1 DEF Leaves, DemoInv, Waits, InState
      <4>3. Retried(t.pending) <=> Retried(s.pending)
        BY <3>3, <3>5
      <4> HIDE DEF Retried, n
      <4> QED BY <2>1, <2>4, <3>1, <3>2, <3>3, <3>5, <4>1, <4>2, <4>3
    <3> QED BY <2>2, <3>1, <3>4, <3>5 DEF Fires
  \* The second process.
  <2>11. ASSUME NEW y \in log.recent, ~watched, y.runState = "COMPLETED", y \notin {Closed, Empty},
                UNCHANGED <<log, memory>>, other' = y, ~watched'
         PROVE  Timeline'
    <3>1. log.state = memory /\ Told(log) /\ PhasesAgree /\ RetryTold
      BY <2>3, <2>11
    <3>2. InState(y, {"RUNNING"}) = {}
      BY <2>11, <3>1 DEF Told, AtRest
    <3>3. PhasesAgree' /\ RetryTold'
      BY <2>11, <3>1 DEF PhasesAgree, RetryTold, Present
    <3> QED BY <2>11, <3>1, <3>2, <3>3 DEF Timeline
  <2>12. ASSUME Loaded', watched' PROVE Timeline'
    BY <2>12 DEF Timeline
  <2>13. \A y \in ExecutionStates : y \notin {Closed, Empty}
    BY DemoAssumption
  <2>14. ~Loaded => ~watched
    BY <1>2 DEF Timeline
  <2>15. \A y \in log.recent : y \in ExecutionStates
    BY <2>1 DEF Logs
  <2>16. 1 \in Nat /\ NoWorker \in Workers \cup {NoWorker} /\ E!Timer(Gate, "retry_backoff", 1) \in Timers
    BY <2>1 DEF E!Timer, Timers, Purposes
  <2>17. CASE OpenOther
    <3>1. ~Loaded /\ ~watched
      BY <2>14, <2>17 DEF OpenOther, Loaded
    <3>2. PICK y \in log.recent :
             IF y = New
               THEN other' = Empty /\ UNCHANGED <<log, memory, watched>>
               ELSE EmitOther(y, Advanced(y)) /\ watched' = (y.runState # "COMPLETED")
      BY <2>17 DEF OpenOther
    <3>3. CASE y = New
      <4>1. ~Loaded' /\ UNCHANGED <<log, memory, watched>>
        BY <3>2, <3>3 DEF Loaded
      <4>2. log.state = memory /\ Told(log) /\ PhasesAgree /\ RetryTold
        BY <2>3, <3>1
      <4>3. PhasesAgree' /\ RetryTold'
        BY <4>1, <4>2 DEF PhasesAgree, RetryTold, Present
      <4> QED BY <3>1, <4>1, <4>2, <4>3 DEF Timeline
    <3>4. CASE y # New /\ y.runState # "COMPLETED"
      <4>1. After(y, Advanced(y)) \in ExecutionStates
        BY <2>1, <2>15, <2>16, HandlerEffects DEF Written
      <4>2. other' = After(y, Advanced(y)) /\ watched'
        BY <3>2, <3>4 DEF EmitOther
      <4> QED BY <2>12, <2>13, <4>1, <4>2 DEF Loaded
    <3>5. CASE y # New /\ y.runState = "COMPLETED"
      <4>1. Advanced(y) = << >>
        BY <3>5 DEF Advanced, IsTerminal, TerminalRunStates
      <4>2. After(y, << >>) = y /\ Appended(log, << >>) = log
        BY EventByEvent DEF Appended
      <4>3. UNCHANGED <<log, memory>> /\ other' = y /\ ~watched'
        BY <3>2, <3>5, <4>1, <4>2 DEF EmitOther
      <4> QED BY <2>11, <2>13, <2>15, <3>1, <3>5, <4>3
    <3> QED BY <3>3, <3>4, <3>5
  <2>18. CASE LookOther
    <3>1. /\ other' \in log.recent /\ watched' = (other'.runState # "COMPLETED")
          /\ UNCHANGED <<log, memory>> /\ ~Loaded
      BY <2>18 DEF LookOther, Loaded
    <3>2. ~watched /\ Loaded'
      BY <2>13, <2>14, <2>15, <3>1 DEF Loaded
    <3>3. CASE watched'
      BY <2>12, <3>2, <3>3
    <3>4. CASE ~watched'
      <4>1. other'.runState = "COMPLETED" /\ other' \notin {Closed, Empty}
        BY <2>13, <2>15, <3>1, <3>4
      <4> QED BY <2>11, <3>1, <3>2, <3>4, <4>1
    <3> QED BY <3>3, <3>4
  <2>19. ASSUME Loaded PROVE other \in ExecutionStates
    BY <1>2, <2>19 DEF DemoInv, Typed, Loaded
  <2>20. ASSUME NEW n \in Nodes, ExpireOther(n) PROVE Timeline'
    <3>1. /\ Loaded /\ other.node[n].state = "RUNNING" /\ watched' = watched
          /\ other' = After(other, Expired(other, n))
      BY <2>20 DEF ExpireOther, EmitOther
    <3>2. watched
      BY <2>3, <3>1 DEF InState
    <3>3. other' \in ExecutionStates
      BY <2>1, <2>16, <2>19, <3>1, HandlerEffects DEF Written
    <3> QED BY <2>12, <2>13, <3>1, <3>2, <3>3 DEF Loaded
  <2>21. ASSUME NEW n \in Nodes, NEW u \in {RetryTimer(n), ApprovalTimer(n)}, FireOther(u)
         PROVE  Timeline'
    <3>1. /\ Loaded /\ ~IsTerminal(other) /\ u \in other.pending /\ watched' = watched
          /\ other' = After(other, Fired(other, u))
      BY <2>21 DEF FireOther, EmitOther
    <3>2. watched
      BY <2>3, <3>1 DEF IsTerminal, TerminalRunStates
    <3>3. u \in Timers
      BY <2>19, <3>1 DEF ExecutionStates
    <3>4. other' \in ExecutionStates
      BY <2>1, <2>16, <2>19, <3>1, <3>3, HandlerEffects DEF Written
    <3> QED BY <2>12, <2>13, <3>1, <3>2, <3>4 DEF Loaded
  <2>22. ASSUME NEW w \in Workers, RegisterWorker(w) PROVE Timeline'
    BY <2>2, <2>22 DEF RegisterWorker
  <2>23. CASE ApproverAsks
    BY <2>2, <2>23 DEF ApproverAsks
  <2>24. CASE UNCHANGED vars
    BY <2>2, <2>24 DEF vars
  <2> QED
    BY <1>2, <2>5, <2>6, <2>7, <2>8, <2>9, <2>10, <2>17, <2>18, <2>20, <2>21, <2>22, <2>23, <2>24
       DEF Next, Go
<1>3. Timeline => TimelineTellsTheRun
  <2> SUFFICES ASSUME ~watched, Timeline PROVE TimelineTellsTheRun
    BY DEF TimelineTellsTheRun
  <2>1. log.state = memory /\ Told(log) /\ PhasesAgree
    BY DEF Timeline
  <2>2. TransitionsAreDated
    BY <2>1 DEF Told, Dated, TransitionsAreDated
  <2> QED BY <2>1, <2>2 DEF TimelineTellsTheRun
<1> QED
  BY <1>1, <1>2, <1>3, DemoInvariant, PTL DEF Spec

(* Each step of `grael start` has the effect of one action of module       *)
(* Engine, and the second process takes no part in what it does.           *)
THEOREM DemoImplementsEngine == Spec => ImplementsEngine
<1> DEFINE registered == {w \in Workers : worker[w].pc # "starting"}
<1>1. Init => E!Init
  <2> SUFFICES ASSUME Init PROVE E!Init
    OBVIOUS
  <2>1. memory = E!New
    BY DEF Init, New, E!New
  <2>2. registered = {}
    BY DEF Init, Loop
  <2> QED BY <2>1, <2>2 DEF E!Init
<1>2. ASSUME DemoInv, [Next]_vars PROVE [E!Next]_(E!vars)
  <2> DEFINE s == memory
  <2>1. /\ Flat(s) /\ s \in ExecutionStates /\ worker \in [Workers -> Loops]
        /\ \A n \in Nodes : s.node[n] \in NodeRecords /\ s.node[n].attempt \in Nat
        /\ stalls \in 0 .. MaxStalls /\ MaxStalls \in Nat
        /\ Gate \in Nodes
    BY <1>2, DemoAssumption DEF DemoInv, Typed, Flat, ExecutionStates, NodeRecords
  <2>3. ASSUME worker' = worker PROVE registered' = registered
    BY <2>3
  <2>4. ASSUME UNCHANGED memory, registered' = registered PROVE UNCHANGED E!vars
    BY <2>4 DEF E!vars
  <2>5. /\ E!Exists <=> s.runState # "NONE"
        /\ \A y : E!IsTerminal(y) <=> IsTerminal(y)
        /\ ~s.cancelRequested
    BY <2>1 DEF E!Exists, E!IsTerminal, E!TerminalRunStates, IsTerminal, TerminalRunStates, Flat
  \* The run is advanced at the end of a handler as a pass reconciles it.
  <2>6. ASSUME NEW y, ~y.cancelRequested PROVE E!Reconcile(y) = E!Advance(y)
    BY <2>6 DEF E!Reconcile, E!Advance
  <2>7. CASE StartRun
    <3>1. Starts /\ worker' = worker
      BY <1>2, <2>7, ActionsMove DEF StartRun
    <3>2. memory' = E!WorkflowStarted(s) /\ s.runState = "NONE"
      BY <3>1 DEF Starts, WorkflowStarted, E!WorkflowStarted, MarkReadyNodes, E!MarkReadyNodes,
                  AddNodes, E!AddNodes, DependenciesCompleted, E!DependenciesCompleted,
                  InState, E!InState, New
    <3>3. E!NormalizedDefinition
      BY DemoAssumption DEF E!NormalizedDefinition
    <3>4. E!StartRun
      BY <2>3, <2>5, <3>1, <3>2, <3>3 DEF E!StartRun, E!Commit
    <3> QED BY <3>4 DEF E!Next
  <2>8. ASSUME NEW w \in Workers, RegisterWorker(w) PROVE E!Next
    <3>1. worker' = [worker EXCEPT ![w] = Loop("polling")] /\ UNCHANGED memory
      BY <2>8 DEF RegisterWorker
    <3>2. Loop("polling").pc = "polling"
      BY DEF Loop
    <3>3. /\ worker'[w].pc = "polling"
          /\ \A v \in Workers \ {w} : worker'[v] = worker[v]
      BY <2>1, <3>1, <3>2
    <3>4. registered' = registered \cup {w}
      BY <3>3
    <3>5. Skills[w] # {}
      BY DemoAssumption
    <3>6. E!RegisterWorker(w)
      BY <3>1, <3>4, <3>5 DEF E!RegisterWorker
    <3> QED BY <3>6 DEF E!Next
  \* The scripted nodes have no deadlines of their own.
  <2>9. ASSUME NEW y, NEW n \in Nodes, NEW a
        PROVE  /\ E!ScheduleLimit(y, n, "node_exec_deadline", a) = y
               /\ E!ScheduleAbsoluteDeadline(y, n) = y
    <3>1. "node_exec_deadline" \notin Def[n].limits /\ "node_abs_deadline" \notin Def[n].limits
      BY DemoAssumption
    <3> QED BY <3>1 DEF E!ScheduleLimit, E!ScheduleAbsoluteDeadline
  <2>10. ASSUME NEW w \in Workers, ClaimTask(w) PROVE E!Next
    <3>1. PICK n \in Nodes, a \in Nat : Claims(w, n, a)
      BY <1>2, <2>10, ActionsMove
    <3>2. /\ n \in ReadyFor(w) /\ \A m \in ReadyFor(w) : n <= m
          /\ worker[w].pc = "polling" /\ a = s.node[n].attempt + 1 /\ s.runState = "RUNNING"
          /\ memory' = NodeStarted(LeaseGranted(s, n, w, a), n, w, a)
          /\ worker' = [worker EXCEPT ![w] = [pc |-> "working", node |-> n, attempt |-> a]]
      BY <3>1 DEF Claims
    <3>3. E!ReadyFor(w) = ReadyFor(w)
      BY <3>2 DEF E!ReadyFor, E!CanHandle, ReadyFor, E!InState, InState
    <3>4. E!Claimable /\ s.runState # "COMPENSATING"
      BY <2>5, <3>2 DEF E!Claimable, IsTerminal, TerminalRunStates
    <3>5. E!NextAttempt(n) = a
      BY <3>2 DEF E!NextAttempt
    <3>6. registered' = registered
      <4>1. /\ worker'[w].pc = "working"
            /\ \A v \in Workers \ {w} : worker'[v] = worker[v]
        BY <2>1, <3>2
      <4> QED BY <3>2, <4>1
    <3>7. /\ \A y : E!LeaseGranted(y, n, w, a) = LeaseGranted(y, n, w, a)
          /\ \A y : E!NodeStarted(y, n, w, a) = NodeStarted(y, n, w, a)
      BY DEF E!LeaseGranted, LeaseGranted, E!NodeStarted, NodeStarted
    <3> DEFINE started == E!NodeStarted(E!LeaseGranted(s, n, w, a), n, w, a)
               limited == E!ScheduleLimit(started, n, "node_exec_deadline", a)
    <3>8. memory' = E!ScheduleAbsoluteDeadline(limited, n)
      <4>1. memory' = started
        BY <3>2, <3>7
      <4> HIDE DEF started
      <4>2. limited = started
        BY <2>9
      <4> HIDE DEF limited
      <4>3. E!ScheduleAbsoluteDeadline(limited, n) = limited
        BY <2>9
      <4> QED BY <4>1, <4>2, <4>3
    <3>9. E!ClaimReadyTask(w)
      <4> DEFINE b == E!NextAttempt(n)
                 granted == E!LeaseGranted(s, n, w, b)
                 running == E!NodeStarted(granted, n, w, b)
                 timed == E!ScheduleLimit(running, n, "node_exec_deadline", b)
      <4>1. memory' = E!ScheduleAbsoluteDeadline(timed, n)
        BY <3>5, <3>8
      <4> HIDE DEF granted, running, timed
      <4>2. E!Commit({granted, running, timed}, E!ScheduleAbsoluteDeadline(timed, n))
        BY <3>6, <4>1 DEF E!Commit
      <4>3. \A m \in E!ReadyFor(w) : n <= m
        BY <3>2, <3>3
      <4> QED BY <3>2, <3>3, <3>4, <4>2, <4>3 DEF E!ClaimReadyTask, granted, running, timed
    <3> QED BY <3>9 DEF E!Next, E!ClaimTask
  <2>11. ASSUME NEW w \in Workers, Report(w) PROVE E!Next \/ UNCHANGED E!vars
    <3> DEFINE n == worker[w].node
               a == worker[w].attempt
    <3>1. Reports(w, n, a) /\ worker[w].pc = "working"
      BY <1>2, <2>11, ActionsMove DEF Report
    <3>2. registered' = registered
      <4>1. \A v \in Workers : worker'[v].pc # "starting" <=> worker[v].pc # "starting"
        <5>1. \/ worker' = [worker EXCEPT ![w] = Loop("polling")]
              \/ worker' = [worker EXCEPT ![w] = Loop("ended")]
          BY <3>1 DEF Reports
        <5>2. Loop("polling").pc # "starting" /\ Loop("ended").pc # "starting"
          BY DEF Loop
        <5> QED BY <2>1, <3>1, <5>1, <5>2
      <4> QED BY <4>1
    <3> HIDE DEF n, a
    <3>3. CASE UNCHANGED <<log, memory>>
      BY <2>4, <3>2, <3>3
    <3>4. CASE /\ E!Holds(w, n, a) /\ n \in Nodes
               /\ Pauses(n, a) \/ Fails(n, w, a) \/ Completes(n, w, a)
      <4>1. a \in E!Attempts /\ a < MaxStalls + 3
        <5>1. s.node[n].attempt = a /\ a \in Nat /\ a > 0
          BY <1>2, <2>1, <3>1, <3>4 DEF E!Holds, DemoInv, Working, a
        <5>2. a <= stalls + 2
          BY <1>2, <3>4, <5>1 DEF DemoInv, Counted
        <5> QED BY <2>1, <5>1, <5>2 DEF E!Attempts
      <4>2. ASSUME E!Report(w, n, a) PROVE E!Next
        BY <3>4, <4>1, <4>2 DEF E!Next
      <4>3. \A y, t : E!TimerScheduled(y, t) = TimerScheduled(y, t)
        BY DEF E!TimerScheduled, TimerScheduled
      <4>4. \A y : E!NodeFailed(y, n, w, a) = NodeFailed(y, n, w, a)
        BY DEF E!NodeFailed, NodeFailed
      <4>5. CASE Pauses(n, a)
        <5> DEFINE reached == E!CheckpointReached(s, n)
        <5>1. reached = CheckpointReached(s, n)
          BY DEF E!CheckpointReached, CheckpointReached, E!Release, Release
        <5>2. memory' = E!ScheduleLimit(reached, n, "checkpoint_timeout", a)
          BY <4>3, <4>5, <5>1 DEF Pauses, E!ScheduleLimit
        <5> HIDE DEF reached
        <5>3. E!Commit({reached}, E!ScheduleLimit(reached, n, "checkpoint_timeout", a))
          BY <3>2, <5>2 DEF E!Commit
        <5>4. E!ReachCheckpoint(w, n, a)
          BY <2>5, <3>4, <4>1, <5>3 DEF E!ReachCheckpoint, reached
        <5> QED BY <4>2, <5>4 DEF E!Report
      <4>6. CASE Fails(n, w, a)
        <5> DEFINE u == E!Timer(n, "retry_backoff", a)
                   failed == E!NodeFailed(s, n, w, a)
                   armed == IF TRUE THEN E!ScheduleRetry(failed, n, a) ELSE failed
        <5>1. n \in Flaky /\ a = 1 /\ memory' = TimerScheduled(NodeFailed(s, n, w, a), u)
          BY <4>6 DEF Fails
        <5>2. Def[n].maxAttempts > 1 /\ a < Def[n].maxAttempts
          BY <5>1, DemoAssumption
        <5>3. armed = E!TimerScheduled(failed, u)
          BY <5>2 DEF E!ScheduleRetry
        <5>4. memory' = armed
          BY <4>3, <4>4, <5>1, <5>3
        <5>5. E!HasPendingRetryTimer(armed, n, a)
          <6>1. u \in s.pending \cup {u} /\ memory'.pending = s.pending \cup {u}
            BY <4>6 DEF Fails
          <6> QED BY <5>4, <6>1 DEF E!HasPendingRetryTimer
        <5> HIDE DEF armed, failed, u
        <5>6. E!FailTask(w, n, a, TRUE)
          <6>1. ~s.cancelRequested
            BY <2>5
          <6>2. (IF TRUE /\ E!HasPendingRetryTimer(armed, n, a) THEN armed ELSE E!Advance(armed)) = armed
            BY <5>5
          <6>3. E!Commit({failed}, IF TRUE /\ E!HasPendingRetryTimer(armed, n, a) THEN armed
                                                                              ELSE E!Advance(armed))
            BY <3>2, <5>4, <6>2 DEF E!Commit
          <6> QED BY <3>4, <6>1, <6>3 DEF E!FailTask, armed, failed
        <5> QED BY <4>2, <5>6 DEF E!Report
      <4>7. CASE Completes(n, w, a)
        <5> DEFINE spawned == Spawned[n]
                   ended == IF E!ValidSpawn(spawned) THEN E!NodeCompleted(s, n, w, a, spawned)
                                                     ELSE E!NodeFailed(s, n, w, a)
        <5>1. E!NodeCompleted(s, n, w, a, spawned) = NodeCompleted(s, n, w, a, spawned)
          BY DEF E!NodeCompleted, NodeCompleted, MarkReadyNodes, E!MarkReadyNodes,
                 AddNodes, E!AddNodes, DependenciesCompleted, E!DependenciesCompleted,
                 InState, E!InState
        <5>2. memory' = E!Advance(ended)
          BY <4>4, <4>7, <5>1 DEF Completes
        <5>3. E!Commit({ended}, E!Advance(ended))
          <6> HIDE DEF ended
          <6> QED BY <3>2, <5>2 DEF E!Commit
        <5>4. E!CompleteTask(w, n, a, spawned)
          BY <2>5, <3>4, <5>3 DEF E!CompleteTask
        <5>5. spawned \in {Spawned[m] : m \in Nodes} \cup {{}}
          BY <3>4
        <5> HIDE DEF spawned
        <5> QED BY <4>2, <5>4, <5>5 DEF E!Report
      <4> QED BY <3>4, <4>5, <4>6, <4>7
    <3> QED BY <3>1, <3>3, <3>4 DEF Reports
  <2>12. CASE Approve
    <3>1. worker' = worker
      BY <2>12 DEF Approve
    <3>2. CASE approver' # "watching"
      <4>1. UNCHANGED memory
        BY <2>12, <3>2 DEF Approve
      <4> QED BY <2>3, <2>4, <3>1, <4>1
    <3>3. CASE approver' = "watching"
      <4>1. /\ s.runState = "RUNNING" /\ s.node[Gate].state = "AWAITING_APPROVAL"
            /\ memory' = CheckpointApproved(s, Gate)
        BY <1>2, <2>12, <3>3, ActionsMove
      <4>2. memory' = E!CheckpointApproved(s, Gate)
        BY <4>1 DEF CheckpointApproved, E!CheckpointApproved, Release, E!Release
      <4>3. E!Commit({}, E!CheckpointApproved(s, Gate))
        BY <2>3, <3>1, <4>2 DEF E!Commit
      <4>4. E!ApproveCheckpoint(Gate)
        BY <2>5, <4>1, <4>3 DEF E!ApproveCheckpoint, IsTerminal, TerminalRunStates
      <4> QED BY <2>1, <4>4 DEF E!Next
    <3> QED BY <3>2, <3>3
  <2>13. ASSUME NEW n \in Nodes, ExpireLease(n) PROVE E!Next
    <3> DEFINE x == LeaseExpired(s, n)
               expired == E!ExpireLeases(s, {n})
    <3>1. /\ s.node[n].state = "RUNNING" /\ worker' = worker /\ stalls < MaxStalls
          /\ memory' = E!Advance(x)
      BY <1>2, <2>13, ActionsMove DEF ExpireLease
    <3>2. expired = x
      <4> DEFINE r == [s.node[n] EXCEPT !.state = "READY", !.worker = NoWorker]
      <4>1. s.node \in [Nodes -> NodeRecords]
        BY <2>1 DEF ExecutionStates
      <4>2. x = [s EXCEPT !.node = [s.node EXCEPT ![n] = r]]
        BY <2>1 DEF LeaseExpired, Release, ExecutionStates
      <4>3. expired = [s EXCEPT !.node = [m \in Nodes |-> IF m \in {n} THEN r ELSE s.node[m]]]
        BY DEF E!ExpireLeases
      <4> HIDE DEF r
      <4>4. [s.node EXCEPT ![n] = r] = [m \in Nodes |-> IF m \in {n} THEN r ELSE s.node[m]]
        BY <4>1
      <4> HIDE DEF x, expired
      <4> QED BY <4>2, <4>3, <4>4
    <3>3. ~expired.cancelRequested
      <4>1. x.cancelRequested = s.cancelRequested
        BY <2>1 DEF LeaseExpired, Release, ExecutionStates
      <4> QED BY <2>5, <3>2, <4>1
    <3>4. {n} \in SUBSET E!OverdueLeases
      <4>1. s.node[n].attempt < MaxStalls + 3
        BY <1>2, <2>1 DEF DemoInv, Counted
      <4> QED BY <3>1, <4>1 DEF E!OverdueLeases, E!MayRepeat, E!InState
    <3> HIDE DEF x, expired
    <3>5. memory' = E!Reconcile(expired)
      BY <2>6, <3>1, <3>2, <3>3
    <3>6. E!ExpireOverdueLeases
      <4> DEFINE Guard(ids, overdue) ==
                   /\ overdue => /\ s.active # NoCompensation
                                 /\ E!MayRepeat(s.active.attempt)
                   /\ ids # {} \/ overdue
                 Left(ids, overdue) ==
                   LET gone == E!ExpireLeases(s, ids)
                   IN  IF overdue THEN E!CompensationReleased(gone) ELSE gone
      <4>1. Guard({n}, FALSE) /\ Left({n}, FALSE) = expired
        BY DEF expired
      <4> HIDE DEF Guard, Left
      <4>2. \E ids \in SUBSET E!OverdueLeases, overdue \in BOOLEAN :
              Guard(ids, overdue) /\ memory' = E!Reconcile(Left(ids, overdue))
        BY <3>4, <3>5, <4>1
      <4>3. registered' = registered
        BY <2>3, <3>1
      <4> QED BY <4>2, <4>3 DEF E!ExpireOverdueLeases, E!Commit, Guard, Left
    <3> QED BY <3>6 DEF E!Next
  <2>14. ASSUME NEW k \in Nodes, NEW t \in {RetryTimer(k), ApprovalTimer(k)}, FireTimer(t)
         PROVE  E!Next
    <3> DEFINE n == t.node
               fired == TimerFired(s, t)
               ended == IF E!ShouldFailNode(fired, t)
                          THEN NodeFailed(fired, n, s.node[n].worker, s.node[n].attempt) ELSE fired
               step == E!FireTimer(s, t, TRUE)
               order == [i \in 1 .. 1 |-> t]
               pass == E!FirePass(s, order, {})
    <3>1. Fires(t) /\ t \in s.pending /\ worker' = worker /\ ~IsTerminal(s)
      BY <1>2, <2>14, ActionsMove DEF FireTimer
    <3>2. /\ Flat(ended) /\ memory' = E!Advance(ended)
          /\ t.purpose \in {"retry_backoff", "checkpoint_timeout"}
      BY <3>1 DEF Fires
    <3>3. E!TimerFired(s, t) = fired
      BY DEF E!TimerFired, TimerFired, E!Release, Release
    <3>4. E!ShouldFailNode(fired, t) => E!TimeOutNode(fired, n) = ended
      <4> SUFFICES ASSUME E!ShouldFailNode(fired, t) PROVE E!TimeOutNode(fired, n) = ended
        OBVIOUS
      <4>1. t.purpose = "checkpoint_timeout"
        BY <3>2 DEF E!ShouldFailNode
      <4>2. fired.node = s.node
        BY <2>1, <4>1 DEF TimerFired, ExecutionStates
      <4> HIDE DEF fired
      <4> QED BY <4>2 DEF E!TimeOutNode, E!NodeFailed, NodeFailed
    <3>5. /\ E!Reconcile(ended) = E!Advance(ended)
          /\ E!Reconcile(E!Advance(ended)) = E!Advance(ended)
      <4>1. ~ended.cancelRequested
        BY <3>2 DEF Flat
      <4>2. Flat(memory') /\ ~memory'.cancelRequested
        <5>1. \E b, e : Tells(b, e)
          BY <3>1 DEF Fires
        <5> QED BY <5>1 DEF Tells, Flat
      <4>3. E!Advance(memory') = memory'
        <5> HIDE DEF ended
        <5>1. \/ E!Advance(ended) = ended
              \/ E!Advance(ended) = SetRunState(ended, "COMPLETED")
              \/ E!Advance(ended) = SetRunState(ended, "FAILED")
          BY <3>2, AdvancedAdvances
        <5>2. CASE E!Advance(ended) = ended
          BY <3>2, <5>2
        <5>3. CASE \/ E!Advance(ended) = SetRunState(ended, "COMPLETED")
                   \/ E!Advance(ended) = SetRunState(ended, "FAILED")
          <6>1. memory'.runState \in {"COMPLETED", "FAILED"}
            BY <3>2, <5>3 DEF SetRunState, Flat, ExecutionStates
          <6> QED BY <2>5, <6>1 DEF E!Advance, IsTerminal, TerminalRunStates
        <5> QED BY <5>1, <5>2, <5>3
      <4> HIDE DEF ended
      <4> QED BY <2>6, <3>2, <4>1, <4>2, <4>3
    <3>6. step \in {ended, E!Advance(ended)}
      <4>1. E!FireTimer(s, t, TRUE) = IF E!ShouldFailNode(fired, t)
                                        THEN E!Reconcile(E!TimeOutNode(fired, n)) ELSE fired
        BY <2>5, <3>1, <3>3 DEF E!FireTimer
      <4> QED BY <3>4, <3>5, <4>1
    <3>7. Len(order) = 1 /\ order[1] = t /\ order \in [1 .. 1 -> s.pending]
      BY <3>1
    <3>8. pass[1] = step
      <4> HIDE DEF order, step, fired, ended
      <4> DEFINE IsPass(f) == f = [i \in 0 .. Len(order) |->
                                     IF i = 0 THEN s
                                     ELSE E!FireTimer(f[i - 1], order[i], order[i] \notin {})]
                 f1 == [i \in 0 .. Len(order) |-> IF i = 0 THEN s ELSE step]
      <4>1. IsPass(f1)
        <5>1. \A i \in 0 .. Len(order) : i = 0 \/ i = 1
          BY <3>7
        <5>2. f1[0] = s
          BY <3>7
        <5>3. E!FireTimer(s, order[1], order[1] \notin {}) = step
          BY <3>7 DEF step
        <5>4. \A i \in 0 .. Len(order) :
                 f1[i] = IF i = 0 THEN s ELSE E!FireTimer(f1[i - 1], order[i], order[i] \notin {})
          BY <5>1, <5>2, <5>3
        <5> QED BY <5>4
      <4>2. PICK f : IsPass(f) /\ f = CHOOSE g : IsPass(g)
        <5> HIDE DEF IsPass, f1
        <5> QED BY <4>1
      <4>3. pass = f
        BY <4>2 DEF E!FirePass
      <4>4. f[0] = s /\ f[1] = E!FireTimer(f[0], order[1], order[1] \notin {})
        BY <3>7, <4>2
      <4>5. (order[1] \notin {}) = TRUE
        OBVIOUS
      <4> QED BY <3>7, <4>3, <4>4, <4>5 DEF step
    <3>9. order \in E!DueOrders
      <4>1. \A i, j \in 1 .. 1 : i # j => order[i] # order[j]
        OBVIOUS
      <4> HIDE DEF order
      <4> QED BY <3>7, <4>1 DEF E!DueOrders
    <3> HIDE DEF ended, step, fired
    <3>10. memory' = E!Reconcile(pass[Len(order)])
      BY <3>2, <3>5, <3>6, <3>7, <3>8
    <3> HIDE DEF order, pass
    <3>11. \A cuts : E!Commit(cuts, E!Reconcile(pass[Len(order)]))
      BY <2>3, <3>1, <3>10 DEF E!Commit
    <3>12. E!FireDueTimers
      BY <2>5, <3>1, <3>9, <3>11 DEF E!FireDueTimers, pass
    <3> QED BY <3>12 DEF E!Next
  <2>15. ASSUME UNCHANGED <<memory, worker>> PROVE UNCHANGED E!vars
    BY <2>3, <2>4, <2>15
  <2>16. CASE ApproverAsks
    BY <2>15, <2>16 DEF ApproverAsks
  <2>17. CASE OpenOther
    BY <2>15, <2>17 DEF OpenOther, EmitOther
  <2>18. CASE LookOther
    BY <2>15, <2>18 DEF LookOther
  <2>19. ASSUME NEW n \in Nodes, ExpireOther(n) PROVE UNCHANGED E!vars
    BY <2>15, <2>19 DEF ExpireOther, EmitOther
  <2>20. ASSUME NEW n \in Nodes, NEW t, FireOther(t) PROVE UNCHANGED E!vars
    BY <2>15, <2>20 DEF FireOther, EmitOther
  <2>21. CASE UNCHANGED vars
    BY <2>15, <2>21 DEF vars
  <2> QED
    BY <1>2, <2>7, <2>8, <2>10, <2>11, <2>12, <2>13, <2>14, <2>16, <2>17, <2>18, <2>19, <2>20, <2>21
       DEF Next, Go
<1> QED
  BY <1>1, <1>2, DemoInvariant, PTL DEF Spec, ImplementsEngine, E!Spec
====
