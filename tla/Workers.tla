------------------------------ MODULE Workers ------------------------------
(***************************************************************************)
(* Worker processes, polls, heartbeats and leases over several runs, with  *)
(* a clock (internal/engine/engine.go, internal/worker/registry.go,        *)
(* sdk/worker.go, internal/grpcserver/server.go).                          *)
(*                                                                         *)
(* Covered: the SDK worker's loop; the registry; PollTask as a heartbeat   *)
(* and a scan of all runs; the lease monitor; reports accepted or refused; *)
(* processes that stop, share an id or never come back; calls that outlive *)
(* their caller; a claim that fails half way; a run that takes no event    *)
(* any more; the engine's restarts.                                        *)
(* Not covered: what a handler appends and how readiness, retries and      *)
(* compensation follow (module Engine).  A task is what a poll may hand    *)
(* out: a ready node, or the compensation that is next in its run.         *)
(***************************************************************************)
EXTENDS Naturals, FiniteSets

CONSTANTS
    Processes,     \* worker processes
    Ids, IdOf,     \* worker ids, and the one each process is configured with
    Activities,
    Handlers,      \* Handlers[p]: the activities a process registers
    Tasks,         \* naturals, in the order of the scan: by run, then by node
    RunOf, ActivityOf,
    Compensations, \* the tasks that are compensations, of runs that compensate
    NoWorker, NoTask,
    Timeout,       \* defaultHeartbeatTimeout, in ticks
    MaxAttempts,   \* bound: leases of one task
    MaxFaults      \* bound: processes stopped, answers lost, appends failed, reports
                   \* over the log's limit, restarts

ASSUME WorkersAssumption ==
    /\ IsFiniteSet(Tasks) /\ Tasks \subseteq Nat
    /\ IdOf \in [Processes -> Ids] /\ NoWorker \notin Ids
    /\ Handlers \in [Processes -> (SUBSET Activities) \ {{}}]
    /\ ActivityOf \in [Tasks -> Activities] /\ NoTask \notin Tasks
    /\ Compensations \subseteq Tasks
    /\ \A t \in Compensations, u \in Tasks : RunOf[u] = RunOf[t] => u = t
    /\ {Timeout, MaxAttempts, MaxFaults} \subseteq Nat

Runs == {RunOf[t] : t \in Tasks}

VARIABLES
    task,      \* task[t]: state, attempt, lease holder, ticks since LastHeartbeatAt
    over,      \* runs in a terminal state
    cancelled, \* runs with CancelRequested
    log,       \* log[r]: "readable"; "refusing": its last event is longer than the log's
               \* scanner takes; "skipped": and a restart left the run out of memory
    registry,  \* registry[i]: the activities registered for an id; {}: unknown
    process,   \* process[p]: where the SDK worker's loop is, and with what task
    orphan,    \* ids with a poll in the engine whose caller is gone
    up, faults,
    silent     \* history: ticks since the engine last heard of an id

vars == <<task, over, cancelled, log, registry, process, orphan, up, faults, silent>>

Overdue == Timeout + 1  \* ages are told apart up to here

-----------------------------------------------------------------------------
Free(state, attempt) == [state |-> state, attempt |-> attempt, worker |-> NoWorker, age |-> 0]

Leased(attempt, i) == [state |-> "RUNNING", attempt |-> attempt, worker |-> i, age |-> 0]

At(pc) == [pc |-> pc, task |-> NoTask, attempt |-> 0]

Handling(t, attempt) == [pc |-> "handling", task |-> t, attempt |-> attempt]

HeldBy(i) == {t \in Tasks : task[t].state = "RUNNING" /\ task[t].worker = i}

Open(t) == RunOf[t] \notin over \cup cancelled

(* Every append to the run of t returns an error.                          *)
Refused(t) == log[RunOf[t]] # "readable"

(* What a poll of i may come upon; MaxAttempts is the model's bound.       *)
Claimable(i) ==
    {t \in Tasks : /\ task[t].state = "READY" /\ Open(t)
                   /\ log[RunOf[t]] # "skipped"
                   /\ ActivityOf[t] \in registry[i]
                   /\ task[t].attempt < MaxAttempts}

First(S) == CHOOSE t \in S : \A u \in S : t <= u

Init ==
    /\ task = [t \in Tasks |-> Free("READY", 0)]
    /\ over = {} /\ cancelled = {}
    /\ log \in [Runs -> {"readable", "refusing"}]
    /\ registry = [i \in Ids |-> {}]
    /\ process = [p \in Processes |-> At("down")]
    /\ orphan = {}
    /\ up = TRUE
    /\ faults = 0
    /\ silent = [i \in Ids |-> 0]

Fault == faults < MaxFaults /\ faults' = faults + 1

-----------------------------------------------------------------------------
(* Heartbeat renews whatever the id holds, in every run that is not over   *)
(* and takes the event.                                                    *)

Renewed(i) ==
    [t \in Tasks |-> IF t \in HeldBy(i) /\ RunOf[t] \notin over /\ ~Refused(t)
                       THEN [task[t] EXCEPT !.age = 0] ELSE task[t]]

Beat(i) ==
    /\ task' = Renewed(i)
    /\ silent' = [silent EXCEPT ![i] = 0]

(* Heartbeat, called by a handler that takes long; its error is the        *)
(* handler's affair.                                                       *)
Heartbeat(p) ==
    /\ up
    /\ process[p].pc = "handling"
    /\ registry[IdOf[p]] # {}
    /\ Beat(IdOf[p])
    /\ UNCHANGED <<over, cancelled, log, registry, process, orphan, up, faults>>

-----------------------------------------------------------------------------
(* The SDK worker: Worker.Run *)

(* A process is started, by whoever operates it, and registers.            *)
StartWorker(p) ==
    /\ up
    /\ process[p].pc = "down"
    /\ registry' = [registry EXCEPT ![IdOf[p]] = Handlers[p]]
    /\ process' = [process EXCEPT ![p] = At("idle")]
    /\ UNCHANGED <<task, over, cancelled, log, orphan, up, faults, silent>>

(* Mutation: a poll of an unknown worker is answered with no task.         *)
PollUnchecked(p) ==
    /\ up
    /\ process[p].pc = "idle"
    /\ Beat(IdOf[p])
    /\ process' = [process EXCEPT ![p] = At("polling")]
    /\ UNCHANGED <<over, cancelled, log, registry, orphan, up, faults>>

(* PollTask begins with a heartbeat; an error, such as an unknown worker   *)
(* after a restart of the engine, ends Run.                                *)
Poll(p) ==
    /\ up
    /\ process[p].pc = "idle"
    /\ IF registry[IdOf[p]] = {}
         THEN /\ process' = [process EXCEPT ![p] = At("down")]
              /\ UNCHANGED <<task, silent>>
         ELSE /\ Beat(IdOf[p])
              /\ process' = [process EXCEPT ![p] = At("polling")]
    /\ UNCHANGED <<over, cancelled, log, registry, orphan, up, faults>>

(* tryClaimTask: the first task in the order of the scan.  The registry is *)
(* looked up again; a process that shares its id may be given an activity  *)
(* it has no handler for, and ends.  A run that refuses the event ends the *)
(* scan, whatever later runs have, and the error ends Run.                 *)
Claim(p) ==
    /\ up
    /\ process[p].pc = "polling"
    /\ Claimable(IdOf[p]) # {}
    /\ LET t == First(Claimable(IdOf[p]))
           a == task[t].attempt + 1
       IN  /\ task' = IF Refused(t) THEN task ELSE [task EXCEPT ![t] = Leased(a, IdOf[p])]
           /\ process' = [process EXCEPT ![p] =
                            IF ~Refused(t) /\ ActivityOf[t] \in Handlers[p]
                              THEN Handling(t, a) ELSE At("down")]
    /\ UNCHANGED <<over, cancelled, log, registry, orphan, up, faults, silent>>

(* An append or the save fails once, before LeaseGranted, after it, or     *)
(* after NodeStarted: the scan ends there, and the error ends Run.  Or the *)
(* answer with the task is lost.                                           *)
ClaimFails(p) ==
    /\ up
    /\ process[p].pc = "polling"
    /\ Claimable(IdOf[p]) # {}
    /\ Fault
    /\ LET t == First(Claimable(IdOf[p]))
           a == task[t].attempt + 1
       IN  \/ UNCHANGED task
           \/ /\ ~Refused(t) /\ t \notin Compensations
              /\ task' = [task EXCEPT ![t] = [@ EXCEPT !.attempt = a, !.worker = IdOf[p]]]
           \/ ~Refused(t) /\ task' = [task EXCEPT ![t] = Leased(a, IdOf[p])]
    /\ process' = [process EXCEPT ![p] = At("down")]
    /\ UNCHANGED <<over, cancelled, log, registry, orphan, up, silent>>

(* The deadline of the poll passes and the last scan found nothing.        *)
PollTimesOut(p) ==
    /\ up
    /\ process[p].pc = "polling"
    /\ Claimable(IdOf[p]) = {}
    /\ process' = [process EXCEPT ![p] = At("idle")]
    /\ UNCHANGED <<task, over, cancelled, log, registry, orphan, up, faults, silent>>

(* Mutation: reports are told apart by worker only.                        *)
CurrentByWorker(p) ==
    LET t == process[p].task
    IN  /\ process[p].pc = "handling"
        /\ task[t].state = "RUNNING"
        /\ task[t].worker = IdOf[p]

(* The lease a report must be under.                                       *)
Current(p) ==
    LET t == process[p].task
    IN  /\ process[p].pc = "handling"
        /\ task[t].state = "RUNNING"
        /\ task[t].worker = IdOf[p]
        /\ task[t].attempt = process[p].attempt

Terminal == {"COMPLETED", "FAILED", "CANCELLED"}

Accepted(p, outcome) ==
    /\ Current(p)
    /\ ~Refused(process[p].task)
    /\ \/ RunOf[process[p].task] \notin cancelled
       \/ outcome = "CANCELLED"
       \/ process[p].task \in Compensations

(* Whether tasks in such states end the run; a failure does (compensation  *)
(* is module Engine's), and so does a compensation, either way.            *)
RunEnds(r, newTask) ==
    LET states == {newTask[t].state : t \in {u \in Tasks : RunOf[u] = r}}
    IN  \/ states = {"COMPLETED"}
        \/ "FAILED" \in states /\ r \notin cancelled
        \/ states \subseteq Terminal /\ r \in cancelled

(* CompleteTask; FailTask; FailTask with Cancelled, the only report on a   *)
(* node that a cancelled run takes, and none of its own for a compensation.*)
(* Any error ends Run, and so does an answer that is lost.  An output or   *)
(* message over the log's limit is accepted, and what the handler would    *)
(* then append about the run is refused.                                   *)
Report(p, outcome) ==
    /\ up
    /\ process[p].pc = "handling"
    /\ process[p].task \in Compensations => outcome # "CANCELLED"
    /\ LET t == process[p].task
       IN IF Accepted(p, outcome)
            THEN /\ task' = [task EXCEPT ![t] = Free(outcome, @.attempt)]
                 /\ \/ /\ over' = over \cup {r \in {RunOf[t]} : RunEnds(r, task')}
                       /\ \/ process' = [process EXCEPT ![p] = At("idle")] /\ UNCHANGED faults
                          \/ process' = [process EXCEPT ![p] = At("down")] /\ Fault
                       /\ UNCHANGED log
                    \/ /\ outcome = "FAILED" \/ (outcome = "COMPLETED" /\ t \notin Compensations)
                       /\ Fault
                       /\ log' = [log EXCEPT ![RunOf[t]] = "refusing"]
                       /\ process' = [process EXCEPT ![p] =
                                        At(IF RunEnds(RunOf[t], task') THEN "down" ELSE "idle")]
                       /\ UNCHANGED over
            ELSE /\ process' = [process EXCEPT ![p] = At("down")]
                 /\ UNCHANGED <<task, over, log, faults>>
    /\ UNCHANGED <<cancelled, registry, orphan, up, silent>>

(* The context ends or the process is killed, and nothing is reported.  A  *)
(* poll it had in the engine goes on: the transport's handler does not     *)
(* look at the caller's context.                                           *)
Stops(p, pc) ==
    /\ process[p].pc \notin {"down", "gone"}
    /\ process' = [process EXCEPT ![p] = At(pc)]
    /\ orphan' = IF process[p].pc = "polling" THEN orphan \cup {IdOf[p]} ELSE orphan

StopWorker(p) ==
    /\ Stops(p, "down")
    /\ Fault
    /\ UNCHANGED <<task, over, cancelled, log, registry, up, silent>>

(* For good.                                                               *)
LoseWorker(p) ==
    /\ Stops(p, "gone")
    /\ UNCHANGED <<task, over, cancelled, log, registry, up, faults, silent>>

(* The poll of a caller that is gone claims a task for nobody, or ends.    *)
OrphanPoll(i) ==
    /\ up
    /\ i \in orphan
    /\ orphan' = orphan \ {i}
    /\ \/ /\ Claimable(i) # {}
          /\ LET t == First(Claimable(i))
             IN  task' = IF Refused(t) THEN task
                                       ELSE [task EXCEPT ![t] = Leased(@.attempt + 1, i)]
       \/ Claimable(i) = {} /\ UNCHANGED task
    /\ UNCHANGED <<over, cancelled, log, registry, process, up, faults, silent>>

-----------------------------------------------------------------------------
(* Client, lease monitor, clock, engine *)

(* Nodes that are not out with a worker are cancelled at once; a run whose *)
(* nodes are done with is CANCELLED even while a compensation is out.      *)
CancelRun(r) ==
    /\ up
    /\ r \notin over \cup cancelled
    /\ log[r] = "readable"
    /\ cancelled' = cancelled \cup {r}
    /\ task' = [t \in Tasks |->
                  IF RunOf[t] = r /\ task[t].state = "READY" /\ t \notin Compensations
                    THEN Free("CANCELLED", task[t].attempt) ELSE task[t]]
    /\ over' = IF \A t \in Tasks \ Compensations : RunOf[t] = r => task'[t].state \in Terminal
                 THEN over \cup {r} ELSE over
    /\ UNCHANGED <<log, registry, process, orphan, up, faults, silent>>

(* Mutations: a lease is late as soon as the timeout is reached; cancelled  *)
(* runs are skipped.                                                       *)
LateEarly(t) == task[t].state = "RUNNING" /\ task[t].age >= Timeout /\ ~Refused(t)

LateUncancelled(t) ==
    task[t].state = "RUNNING" /\ task[t].age > Timeout /\ ~Refused(t) /\ RunOf[t] \notin cancelled

Late(t) == task[t].state = "RUNNING" /\ task[t].age > Timeout /\ ~Refused(t)

(* A pass over all runs, those that are over included; a cancelled run     *)
(* that is not over yet is then reconciled, while a run that refuses the   *)
(* event is left as it is.                                                 *)
ExpireOverdueLeases ==
    /\ up
    /\ \E t \in Tasks : Late(t)
    /\ task' = [t \in Tasks |->
                  IF ~Late(t) THEN task[t]
                  ELSE IF RunOf[t] \in cancelled \ over THEN Free("CANCELLED", task[t].attempt)
                  ELSE Free("READY", task[t].attempt)]
    /\ over' = over \cup {r \in cancelled : RunEnds(r, task')}
    /\ UNCHANGED <<cancelled, log, registry, process, orphan, up, faults, silent>>

Older(n) == IF n < Overdue THEN n + 1 ELSE n

Tick ==
    /\ task' = [t \in Tasks |-> IF task[t].state = "RUNNING"
                                  THEN [task[t] EXCEPT !.age = Older(@)] ELSE task[t]]
    /\ silent' = [i \in Ids |-> Older(silent[i])]
    /\ UNCHANGED <<over, cancelled, log, registry, process, orphan, up, faults>>

(* The registry is in memory only.  Leases and their instants are in the   *)
(* log.  Polls under way fail.                                             *)
Crash ==
    /\ up
    /\ Fault
    /\ up' = FALSE
    /\ registry' = [i \in Ids |-> {}]
    /\ orphan' = {}
    /\ process' = [p \in Processes |-> IF process[p].pc = "polling" THEN At("down") ELSE process[p]]
    /\ UNCHANGED <<task, over, cancelled, log, silent>>

(* Runs whose log cannot be read are not loaded.                           *)
Restart ==
    /\ ~up
    /\ up' = TRUE
    /\ log' = [r \in Runs |-> IF log[r] = "readable" THEN "readable" ELSE "skipped"]
    /\ UNCHANGED <<task, over, cancelled, registry, process, orphan, faults, silent>>

Outcomes == {"COMPLETED", "FAILED", "CANCELLED"}

Next ==
    \/ \E p \in Processes :
        \/ StartWorker(p) \/ Poll(p) \/ Claim(p) \/ ClaimFails(p) \/ PollTimesOut(p)
        \/ Heartbeat(p) \/ StopWorker(p) \/ LoseWorker(p)
        \/ \E outcome \in Outcomes : Report(p, outcome)
    \/ \E i \in Ids : OrphanPoll(i)
    \/ \E r \in Runs : CancelRun(r)
    \/ ExpireOverdueLeases
    \/ Tick
    \/ Crash
    \/ Restart

Spec == Init /\ [][Next]_vars

(* Processes that are down are started again, their loop and their         *)
(* handlers go on, polls end, time passes, the monitor ticks, and a        *)
(* stopped engine is restarted.                                            *)
FairSpec ==
    /\ Spec
    /\ \A p \in Processes :
        /\ WF_vars(StartWorker(p)) /\ WF_vars(Poll(p)) /\ WF_vars(Claim(p))
        /\ WF_vars(PollTimesOut(p)) /\ WF_vars(Report(p, "COMPLETED"))
    /\ \A i \in Ids : WF_vars(OrphanPoll(i))
    /\ WF_vars(Tick) /\ WF_vars(ExpireOverdueLeases) /\ WF_vars(Restart)

-----------------------------------------------------------------------------
(* Properties *)

(* However many processes think they work on a task, because it was taken  *)
(* from them unnoticed or because they share an id, the engine takes a     *)
(* report from one of them only (attempt numbers in CompleteTask and       *)
(* FailTask).                                                              *)
OneReportCounts ==
    \A p, q \in Processes :
        Current(p) /\ Current(q) /\ process[p].task = process[q].task => p = q

(* A worker that is heard of in time keeps what it holds: the monitor      *)
(* takes a lease only from an id that was silent for longer than the       *)
(* timeout, or in a run that is over (Heartbeat over all runs, tasks and   *)
(* compensations, and expireOverdueLeases).                                *)
HeardOfKeepLeases ==
    [][\A t \in Tasks :
        /\ task[t].state = "RUNNING" /\ RunOf[t] \notin over
        /\ task'[t].state # "RUNNING" /\ process' = process
        => silent[task[t].worker] > Timeout]_vars

(* A worker id nobody uses any more holds nothing for ever, whatever it    *)
(* held, in whichever run that takes events, and whatever calls it left    *)
(* behind in the engine (UAT-C4-02: "a disappeared worker does not hold a  *)
(* task forever").                                                         *)
LostWorkersHoldNothing ==
    \A i \in Ids :
        (\A p \in Processes : IdOf[p] = i => process[p].pc = "gone")
            ~> (\A t \in HeldBy(i) : Refused(t))

Served(t) == \E p \in Processes : ActivityOf[t] \in Handlers[p] /\ process[p].pc # "gone"

(* A task that a run looked at before t's refuses to hand out.             *)
Blocked(t) ==
    \E u \in Tasks : /\ u < t /\ task[u].state = "READY" /\ Open(u)
                     /\ log[RunOf[u]] = "refusing"

(* A task that waits is handed out, in whichever run it is: no engine      *)
(* restart that forgets the workers, no failed append in a run that is     *)
(* looked at before its own, no run behind it or restarted without it that *)
(* takes no event any more, and no call without a caller keeps it back,    *)
(* unless its run ends or takes no event, the workers for it are gone for  *)
(* good, its leases are used up, which stands for tasks before it that     *)
(* expire again and again, or a run before it refuses its own task.        *)
WaitingTasksAreHandedOut ==
    \A t \in Tasks :
        (task[t].state = "READY" /\ Open(t)) ~>
        (\/ task[t].state # "READY" \/ ~Open(t) \/ Refused(t) \/ Blocked(t)
         \/ ~Served(t) \/ task[t].attempt = MaxAttempts)

(* A task nobody works on comes back (UAT-C4-02: "the task does not remain *)
(* stuck in perpetual running state"); each poll of a worker that lost it  *)
(* renews its lease.                                                       *)
WorkedOn(t) ==
    \E p \in Processes : process[p].pc = "handling" /\ process[p].task = t /\ Current(p)

AbandonedTasksComeBack ==
    \A t \in Tasks :
        (task[t].state = "RUNNING" /\ ~WorkedOn(t)) ~> (task[t].state # "RUNNING" \/ WorkedOn(t))
=============================================================================
