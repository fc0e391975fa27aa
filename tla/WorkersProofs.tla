---------------------------- MODULE WorkersProofs ----------------------------
(***************************************************************************)
(* Theorems about Workers, for every set of processes, ids, tasks and runs *)
(* and every timeout.                                                      *)
(***************************************************************************)
EXTENDS Workers, NaturalLemmas

TaskRecords ==
    [state   : {"READY", "RUNNING"} \cup Terminal,
     attempt : Nat,
     worker  : Ids \cup {NoWorker},
     age     : 0 .. Overdue]

ProcessRecords ==
    [pc      : {"down", "idle", "polling", "handling", "gone"},
     task    : Tasks \cup {NoTask},
     attempt : Nat]

Typed ==
    /\ task \in [Tasks -> TaskRecords]
    /\ process \in [Processes -> ProcessRecords]
    /\ silent \in [Ids -> 0 .. Overdue]
    /\ log \in [Runs -> {"readable", "refusing", "skipped"}]
    /\ \A t \in Tasks : task[t].state = "RUNNING" => task[t].worker \in Ids
    /\ \A p \in Processes : process[p].pc = "handling" => process[p].task \in Tasks

(* What a process works on was given to it under an attempt that exists,   *)
(* and to no other process under the same one.                             *)
GivenOnce ==
    \A p \in Processes :
        process[p].pc = "handling" =>
            /\ process[p].attempt <= task[process[p].task].attempt
            /\ \A q \in Processes \ {p} :
                   /\ process[q].pc = "handling"
                   /\ process[q].task = process[p].task
                   => process[q].attempt # process[p].attempt

(* The engine heard of a holder no later than of its lease, in a run that  *)
(* takes the event of the heartbeat.                                       *)
HeardSince ==
    \A t \in Tasks :
        task[t].state = "RUNNING" /\ RunOf[t] \notin over /\ ~Refused(t)
            => task[t].age <= silent[task[t].worker]

-----------------------------------------------------------------------------
(* The engine takes a report from one process only: an attempt is given to *)
(* one process, under a number the task never had, and a report counts     *)
(* only under the task's latest.  Tasks, processes and clocks stay well    *)
(* typed: a lease has a holder, a handler a task.                          *)
THEOREM ReportsCountOnce == Spec => [](Typed /\ OneReportCounts)
<1> DEFINE TR == TaskRecords
           PR == ProcessRecords
<1>1. Timeout \in Nat /\ Overdue = Timeout + 1 /\ Overdue \in Nat /\ 0 \in 0 .. Overdue
  BY WorkersAssumption DEF Overdue
<1>2. /\ \A p \in Processes : IdOf[p] \in Ids
      /\ \A state \in {"READY"} \cup Terminal, a \in Nat : Free(state, a) \in TR
      /\ \A i \in Ids, a \in Nat : Leased(a, i) \in TR
      /\ \A pc \in {"down", "idle", "polling", "gone"} : At(pc) \in PR /\ At(pc).pc # "handling"
      /\ \A t \in Tasks, a \in Nat : Handling(t, a) \in PR /\ Handling(t, a).task \in Tasks
  BY <1>1, WorkersAssumption DEF TaskRecords, ProcessRecords, Free, Leased, At, Handling
<1>3. Init => Typed
  <2>1. Free("READY", 0) \in TR /\ Free("READY", 0).state # "RUNNING"
    BY <1>2 DEF Free
  <2>2. At("down") \in PR /\ At("down").pc # "handling"
    BY <1>2
  <2> QED BY <1>1, <2>1, <2>2 DEF Init, Typed
<1>4. ASSUME Typed, [Next]_vars PROVE Typed'
  <2> DEFINE TasksTyped == /\ task' \in [Tasks -> TR]
                           /\ \A t \in Tasks : task'[t].state = "RUNNING" => task'[t].worker \in Ids
             ProcessesTyped == /\ process' \in [Processes -> PR]
                               /\ \A p \in Processes :
                                    process'[p].pc = "handling" => process'[p].task \in Tasks
             ClockTyped == silent' \in [Ids -> 0 .. Overdue]
             Parts == TasksTyped /\ ProcessesTyped /\ ClockTyped
  <2>1. \A t \in Tasks : /\ task[t] \in TR
                         /\ task[t].attempt \in Nat
                         /\ task[t].age \in 0 .. Overdue
                         /\ task[t].state = "RUNNING" => task[t].worker \in Ids
    BY <1>4 DEF Typed, TaskRecords
  <2>2. \A p \in Processes : process[p] \in PR
    BY <1>4 DEF Typed
  <2>3. UNCHANGED task => TasksTyped
    BY <1>4 DEF Typed
  <2>4. UNCHANGED process => ProcessesTyped
    BY <1>4 DEF Typed
  <2>5. UNCHANGED silent => ClockTyped
    BY <1>4 DEF Typed
  <2>6. ASSUME NEW p \in Processes, NEW pc \in {"down", "idle", "polling", "gone"},
               process' = [process EXCEPT ![p] = At(pc)]
        PROVE  ProcessesTyped
    BY <1>2, <1>4, <2>6 DEF Typed
  <2>7. ASSUME NEW i \in Ids, Beat(i) PROVE TasksTyped /\ ClockTyped
    <3>1. \A t \in Tasks : [task[t] EXCEPT !.age = 0] \in TR
      BY <1>1, <2>1 DEF TaskRecords
    <3>2. ClockTyped
      BY <1>1, <1>4, <2>7 DEF Typed, Beat
    <3> QED BY <2>1, <2>7, <3>1, <3>2 DEF Beat, Renewed, TaskRecords
  <2>8. ASSUME NEW t \in Tasks, NEW x \in TR, x.state = "RUNNING" => x.worker \in Ids,
               task' = [task EXCEPT ![t] = x]
        PROVE  TasksTyped
    BY <1>4, <2>1, <2>8 DEF Typed
  <2>9. ASSUME NEW i \in Ids, Claimable(i) # {}
        PROVE  /\ First(Claimable(i)) \in Tasks
               /\ task[First(Claimable(i))].state = "READY"
               /\ task[First(Claimable(i))].attempt + 1 \in Nat
               /\ Leased(task[First(Claimable(i))].attempt + 1, i) \in TR
               /\ Leased(task[First(Claimable(i))].attempt + 1, i).worker = i
    <3> DEFINE t == First(Claimable(i))
    <3>1. t \in Tasks /\ task[t].state = "READY"
      <4>1. \E u \in Claimable(i) : \A v \in Claimable(i) : u <= v
        <5>1. Claimable(i) \in SUBSET Nat
          BY WorkersAssumption DEF Claimable
        <5> QED BY <2>9, <5>1, SetInduction
      <4>2. First(Claimable(i)) \in Claimable(i)
        BY <4>1 DEF First
      <4> QED BY <4>2 DEF Claimable
    <3> HIDE DEF t
    <3>2. task[t].attempt + 1 \in Nat
      BY <2>1, <3>1
    <3>3. Leased(task[t].attempt + 1, i) \in TR /\ Leased(task[t].attempt + 1, i).worker = i
      BY <1>2, <3>2 DEF Leased
    <3> QED BY <3>1, <3>2, <3>3 DEF t
  <2>10. ASSUME NEW p \in Processes, StartWorker(p) \/ Poll(p) \/ PollTimesOut(p) \/ Heartbeat(p)
         PROVE  Parts
    BY <1>2, <2>3, <2>4, <2>5, <2>6, <2>7, <2>10
    DEF StartWorker, Poll, PollTimesOut, Heartbeat, Typed
  <2>11. ASSUME NEW p \in Processes, Claim(p) PROVE Parts
    <3> DEFINE t == First(Claimable(IdOf[p]))
               a == task[t].attempt + 1
    <3>1. /\ IdOf[p] \in Ids /\ Claimable(IdOf[p]) # {} /\ UNCHANGED silent
          /\ task' \in {task, [task EXCEPT ![t] = Leased(a, IdOf[p])]}
          /\ process' \in {[process EXCEPT ![p] = Handling(t, a)], [process EXCEPT ![p] = At("down")]}
      BY <1>2, <2>11 DEF Claim
    <3>2. t \in Tasks /\ a \in Nat /\ Leased(a, IdOf[p]) \in TR /\ Leased(a, IdOf[p]).worker \in Ids
      BY <2>9, <3>1
    <3> HIDE DEF t, a
    <3>3. TasksTyped
      BY <2>3, <2>8, <3>1, <3>2
    <3>4. Handling(t, a) \in PR /\ Handling(t, a).task \in Tasks
      BY <1>2, <3>2
    <3>5. process' = [process EXCEPT ![p] = Handling(t, a)] => ProcessesTyped
      BY <1>4, <3>4 DEF Typed
    <3>6. process' = [process EXCEPT ![p] = At("down")] => ProcessesTyped
      BY <2>6
    <3>7. ProcessesTyped
      BY <3>1, <3>5, <3>6
    <3>8. ClockTyped
      BY <2>5, <3>1
    <3> QED BY <3>3, <3>7, <3>8
  <2>12. ASSUME NEW p \in Processes, ClaimFails(p) PROVE Parts
    <3> DEFINE t == First(Claimable(IdOf[p]))
               a == task[t].attempt + 1
    <3>1. /\ IdOf[p] \in Ids /\ Claimable(IdOf[p]) # {} /\ UNCHANGED silent
          /\ \/ UNCHANGED task
             \/ task' = [task EXCEPT ![t] = [@ EXCEPT !.attempt = a, !.worker = IdOf[p]]]
             \/ task' = [task EXCEPT ![t] = Leased(a, IdOf[p])]
          /\ process' = [process EXCEPT ![p] = At("down")]
      BY <1>2, <2>12 DEF ClaimFails
    <3>2. t \in Tasks /\ a \in Nat /\ Leased(a, IdOf[p]) \in TR /\ Leased(a, IdOf[p]).worker \in Ids
      BY <2>9, <3>1
    <3> HIDE DEF t, a
    <3>3. [task[t] EXCEPT !.attempt = a, !.worker = IdOf[p]] \in TR
      BY <2>1, <3>1, <3>2 DEF TaskRecords
    <3>4. [task[t] EXCEPT !.attempt = a, !.worker = IdOf[p]].worker \in Ids
      BY <2>1, <3>1, <3>2 DEF TaskRecords
    <3>5. task' = [task EXCEPT ![t] = [@ EXCEPT !.attempt = a, !.worker = IdOf[p]]] =>
            task' = [task EXCEPT ![t] = [task[t] EXCEPT !.attempt = a, !.worker = IdOf[p]]]
      BY <1>4, <3>2 DEF Typed
    <3>6. TasksTyped
      BY <2>3, <2>8, <3>1, <3>2, <3>3, <3>4, <3>5
    <3> QED BY <2>5, <2>6, <3>1, <3>6 DEF Typed
  <2>13. ASSUME NEW p \in Processes, StopWorker(p) \/ LoseWorker(p) PROVE Parts
    BY <2>3, <2>5, <2>6, <2>13 DEF StopWorker, LoseWorker, Stops, Typed
  <2>14. ASSUME NEW p \in Processes, NEW outcome \in Outcomes, Report(p, outcome) PROVE Parts
    <3> DEFINE t == process[p].task
    <3>1. t \in Tasks
      BY <1>4, <2>14 DEF Report, Typed
    <3>2. \/ task' = [task EXCEPT ![t] = Free(outcome, @.attempt)]
          \/ UNCHANGED task
      BY <2>14 DEF Report
    <3>3. Free(outcome, task[t].attempt) \in TR /\ Free(outcome, task[t].attempt).state # "RUNNING"
      BY <1>2, <2>1, <3>1 DEF Free, Outcomes, Terminal
    <3> HIDE DEF t
    <3>4. TasksTyped
      <4>1. task' = [task EXCEPT ![t] = Free(outcome, @.attempt)] =>
              task' = [task EXCEPT ![t] = Free(outcome, task[t].attempt)]
        BY <1>4, <3>1 DEF Typed
      <4> QED BY <2>3, <2>8, <3>1, <3>2, <3>3, <4>1
    <3>5. ProcessesTyped /\ ClockTyped
      BY <2>5, <2>6, <2>14 DEF Report
    <3> QED BY <3>4, <3>5 DEF Typed
  <2>15. ASSUME NEW i \in Ids, OrphanPoll(i) PROVE Parts
    <3> DEFINE t == First(Claimable(i))
    <3>1. /\ UNCHANGED <<process, silent>>
          /\ \/ UNCHANGED task
             \/ Claimable(i) # {} /\ task' = [task EXCEPT ![t] = Leased(@.attempt + 1, i)]
      BY <2>15 DEF OrphanPoll
    <3>2. Claimable(i) # {} => /\ t \in Tasks
                               /\ Leased(task[t].attempt + 1, i) \in TR
                               /\ Leased(task[t].attempt + 1, i).worker = i
      BY <2>9
    <3> HIDE DEF t
    <3>3. t \in Tasks => [task EXCEPT ![t] = Leased(@.attempt + 1, i)]
                           = [task EXCEPT ![t] = Leased(task[t].attempt + 1, i)]
      BY <1>4 DEF Typed
    <3>4. TasksTyped
      BY <2>3, <2>8, <3>1, <3>2, <3>3
    <3> QED BY <2>4, <2>5, <3>1, <3>4 DEF Typed
  <2>16. ASSUME NEW r \in Runs, CancelRun(r) PROVE Parts
    <3>1. task' = [t \in Tasks |->
                    IF RunOf[t] = r /\ task[t].state = "READY" /\ t \notin Compensations
                      THEN Free("CANCELLED", task[t].attempt) ELSE task[t]]
      BY <2>16 DEF CancelRun
    <3>2. TasksTyped
      BY <1>2, <2>1, <3>1 DEF Free, Terminal
    <3> QED BY <2>4, <2>5, <2>16, <3>2 DEF CancelRun, Typed
  <2>17. ASSUME ExpireOverdueLeases PROVE Parts
    <3>1. task' = [t \in Tasks |->
                    IF ~Late(t) THEN task[t]
                    ELSE IF RunOf[t] \in cancelled \ over THEN Free("CANCELLED", task[t].attempt)
                    ELSE Free("READY", task[t].attempt)]
      BY <2>17 DEF ExpireOverdueLeases
    <3>2. TasksTyped
      BY <1>2, <2>1, <3>1 DEF Free, Terminal
    <3>3. UNCHANGED process /\ UNCHANGED silent
      BY <2>17 DEF ExpireOverdueLeases
    <3> QED BY <2>4, <2>5, <3>2, <3>3
  <2>18. ASSUME Tick PROVE Parts
    <3>1. \A n \in 0 .. Overdue : Older(n) \in 0 .. Overdue
      BY <1>1 DEF Older
    <3>2. \A t \in Tasks : [task[t] EXCEPT !.age = Older(@)] \in TR
      BY <2>1, <3>1 DEF TaskRecords
    <3>3. TasksTyped
      BY <2>1, <2>18, <3>2 DEF Tick, TaskRecords
    <3>4. ClockTyped
      BY <1>4, <2>18, <3>1 DEF Tick, Typed
    <3>5. UNCHANGED process
      BY <2>18 DEF Tick
    <3> QED BY <2>4, <3>3, <3>4, <3>5
  <2>19. ASSUME Crash PROVE Parts
    <3>1. UNCHANGED task /\ UNCHANGED silent
      BY <2>19 DEF Crash
    <3>2. process' = [p \in Processes |-> IF process[p].pc = "polling" THEN At("down") ELSE process[p]]
      BY <2>19 DEF Crash
    <3>3. ProcessesTyped
      BY <1>2, <1>4, <3>2 DEF Typed
    <3> QED BY <2>3, <2>5, <3>1, <3>3
  <2>20. ASSUME Restart \/ UNCHANGED vars PROVE Parts
    <3>1. UNCHANGED task /\ UNCHANGED process /\ UNCHANGED silent
      BY <2>20 DEF Restart, vars
    <3> QED BY <2>3, <2>4, <2>5, <3>1
  <2>21. log' \in [Runs -> {"readable", "refusing", "skipped"}]
    <3>1. log \in [Runs -> {"readable", "refusing", "skipped"}]
      BY <1>4 DEF Typed
    <3>2. ASSUME NEW p \in Processes, NEW outcome \in Outcomes, Report(p, outcome)
          PROVE  log' = log \/ \E t \in Tasks : log' = [log EXCEPT ![RunOf[t]] = "refusing"]
      BY <1>4, <3>2 DEF Report, Typed
    <3>3. \/ log' = log
          \/ \E t \in Tasks : log' = [log EXCEPT ![RunOf[t]] = "refusing"]
          \/ log' = [r \in Runs |-> IF log[r] = "readable" THEN "readable" ELSE "skipped"]
      BY <1>4, <3>2
      DEF Next, vars, StartWorker, Poll, Claim, ClaimFails, PollTimesOut, Heartbeat, StopWorker,
          LoseWorker, OrphanPoll, CancelRun, ExpireOverdueLeases, Tick, Crash, Restart
    <3> QED BY <3>1, <3>3
  <2> HIDE DEF Parts
  <2>22. Parts
    BY <1>4, <2>10, <2>11, <2>12, <2>13, <2>14, <2>15, <2>16, <2>17, <2>18, <2>19, <2>20 DEF Next
  <2> QED BY <2>21, <2>22 DEF Parts, Typed
<1>5. Init => GivenOnce
  BY DEF Init, GivenOnce, At
<1>6. ASSUME Typed, GivenOnce, [Next]_vars PROVE GivenOnce'
  <2> DEFINE Grows == \A t \in Tasks : task'[t].attempt \in Nat /\ task[t].attempt <= task'[t].attempt
             Kept == \A p \in Processes : process'[p].pc = "handling" => process'[p] = process[p]
             Given(p) == /\ process'[p].task \in Tasks
                         /\ process'[p].attempt \in Nat
                         /\ task[process'[p].task].attempt < process'[p].attempt
                         /\ process'[p].attempt <= task'[process'[p].task].attempt
                         /\ \A q \in Processes \ {p} : process'[q] = process[q]
  <2>1. /\ \A t \in Tasks : task[t] \in TaskRecords /\ task[t].attempt \in Nat
        /\ \A p \in Processes :
             /\ process[p].attempt \in Nat
             /\ process[p].pc = "handling" =>
                  /\ process[p].task \in Tasks
                  /\ process[p].attempt <= task[process[p].task].attempt
    BY <1>6 DEF Typed, TaskRecords, ProcessRecords, GivenOnce
  <2>2. ASSUME Grows, Kept PROVE GivenOnce'
    BY <1>6, <2>1, <2>2 DEF GivenOnce
  <2>3. ASSUME Grows, NEW p \in Processes, Given(p) PROVE GivenOnce'
    <3>1. ASSUME NEW q \in Processes, process'[q].pc = "handling"
          PROVE  process'[q].attempt <= task'[process'[q].task].attempt
      BY <2>1, <2>3, <3>1
    <3>2. ASSUME NEW q \in Processes \ {p}, process'[q].pc = "handling",
                 process'[q].task = process'[p].task
          PROVE  process'[q].attempt # process'[p].attempt
      BY <2>1, <2>3, <3>2
    <3>3. ASSUME NEW q \in Processes \ {p}, process'[q].pc = "handling",
                 NEW r \in Processes \ {p, q}, process'[r].pc = "handling",
                 process'[r].task = process'[q].task
          PROVE  process'[r].attempt # process'[q].attempt
      BY <1>6, <2>3, <3>3 DEF GivenOnce
    <3> QED BY <3>1, <3>2, <3>3 DEF GivenOnce
  <2>4. UNCHANGED task => Grows
    BY <2>1
  <2>5. UNCHANGED process => Kept
    OBVIOUS
  <2>6. ASSUME NEW p \in Processes, NEW pc \in {"down", "idle", "polling", "gone"},
               process' = [process EXCEPT ![p] = At(pc)]
        PROVE  Kept
    BY <1>6, <2>6 DEF Typed, At
  <2>7. ASSUME NEW i \in Ids, Beat(i) PROVE Grows
    BY <2>1, <2>7 DEF Beat, Renewed, TaskRecords
  <2>8. ASSUME NEW t \in Tasks, NEW x, x.attempt \in Nat, task[t].attempt <= x.attempt,
               task' = [task EXCEPT ![t] = x]
        PROVE  Grows
    BY <1>6, <2>1, <2>8 DEF Typed
  <2>9. ASSUME NEW i, Claimable(i) # {} PROVE First(Claimable(i)) \in Tasks
    <3>1. \E u \in Claimable(i) : \A v \in Claimable(i) : u <= v
      <4>1. Claimable(i) \in SUBSET Nat
        BY WorkersAssumption DEF Claimable
      <4> QED BY <2>9, <4>1, SetInduction
    <3>2. First(Claimable(i)) \in Claimable(i)
      BY <3>1 DEF First
    <3> QED BY <3>2 DEF Claimable
  <2>10. ASSUME NEW p \in Processes, StartWorker(p) \/ Poll(p) \/ PollTimesOut(p) \/ Heartbeat(p)
         PROVE  GivenOnce'
    <3>1. IdOf[p] \in Ids
      BY WorkersAssumption
    <3> QED BY <2>2, <2>4, <2>5, <2>6, <2>7, <2>10, <3>1 DEF StartWorker, Poll, PollTimesOut, Heartbeat
  <2>11. ASSUME NEW p \in Processes, Claim(p) PROVE GivenOnce'
    <3> DEFINE t == First(Claimable(IdOf[p]))
               a == task[t].attempt + 1
    <3>1. \/ /\ task' = [task EXCEPT ![t] = Leased(a, IdOf[p])]
             /\ process' = [process EXCEPT ![p] = Handling(t, a)]
          \/ /\ task' \in {task, [task EXCEPT ![t] = Leased(a, IdOf[p])]}
             /\ process' = [process EXCEPT ![p] = At("down")]
      BY <2>11 DEF Claim
    <3>2. t \in Tasks /\ a \in Nat /\ task[t].attempt < a
      BY <2>1, <2>9, <2>11 DEF Claim
    <3> HIDE DEF t, a
    <3>3. Leased(a, IdOf[p]).attempt = a
      BY DEF Leased
    <3>4. Grows
      <4>1. CASE task' = [task EXCEPT ![t] = Leased(a, IdOf[p])]
        BY <2>1, <2>8, <3>2, <3>3, <4>1
      <4> QED BY <2>4, <3>1, <4>1
    <3>5. CASE /\ task' = [task EXCEPT ![t] = Leased(a, IdOf[p])]
               /\ process' = [process EXCEPT ![p] = Handling(t, a)]
      <4>1. Handling(t, a).task = t /\ Handling(t, a).attempt = a
        BY DEF Handling
      <4>2. process'[p] = Handling(t, a) /\ task'[t] = Leased(a, IdOf[p])
        BY <1>6, <3>2, <3>5 DEF Typed
      <4>3. \A q \in Processes \ {p} : process'[q] = process[q]
        BY <1>6, <3>5 DEF Typed
      <4>4. Given(p)
        BY <3>2, <3>3, <4>1, <4>2, <4>3
      <4> QED BY <2>3, <3>4, <4>4
    <3>6. CASE process' = [process EXCEPT ![p] = At("down")]
      BY <2>2, <2>6, <3>4, <3>6
    <3> QED BY <3>1, <3>5, <3>6
  <2>12. ASSUME NEW p \in Processes, ClaimFails(p) PROVE GivenOnce'
    <3> DEFINE t == First(Claimable(IdOf[p]))
               a == task[t].attempt + 1
    <3>1. /\ \/ UNCHANGED task
             \/ task' = [task EXCEPT ![t] = [@ EXCEPT !.attempt = a, !.worker = IdOf[p]]]
             \/ task' = [task EXCEPT ![t] = Leased(a, IdOf[p])]
          /\ process' = [process EXCEPT ![p] = At("down")]
      BY <2>12 DEF ClaimFails
    <3>2. t \in Tasks /\ a \in Nat /\ task[t].attempt < a
      BY <2>1, <2>9, <2>12 DEF ClaimFails
    <3> HIDE DEF t, a
    <3>3. /\ Leased(a, IdOf[p]).attempt = a
          /\ [task[t] EXCEPT !.attempt = a, !.worker = IdOf[p]].attempt = a
      BY <2>1, <3>2 DEF Leased, TaskRecords
    <3>4. task' = [task EXCEPT ![t] = [@ EXCEPT !.attempt = a, !.worker = IdOf[p]]] =>
            task' = [task EXCEPT ![t] = [task[t] EXCEPT !.attempt = a, !.worker = IdOf[p]]]
      BY <1>6, <3>2 DEF Typed
    <3>5. Grows
      <4>1. CASE task' = [task EXCEPT ![t] = Leased(a, IdOf[p])]
        BY <2>1, <2>8, <3>2, <3>3, <4>1
      <4>2. CASE task' = [task EXCEPT ![t] = [task[t] EXCEPT !.attempt = a, !.worker = IdOf[p]]]
        BY <2>1, <2>8, <3>2, <3>3, <4>2
      <4> QED BY <2>4, <3>1, <3>4, <4>1, <4>2
    <3> QED BY <2>2, <2>6, <3>1, <3>5
  <2>13. ASSUME NEW p \in Processes, StopWorker(p) \/ LoseWorker(p) PROVE GivenOnce'
    BY <2>2, <2>4, <2>6, <2>13 DEF StopWorker, LoseWorker, Stops
  <2>14. ASSUME NEW p \in Processes, NEW outcome \in Outcomes, Report(p, outcome) PROVE GivenOnce'
    <3> DEFINE t == process[p].task
    <3>1. t \in Tasks
      BY <2>1, <2>14 DEF Report
    <3>2. \/ task' = [task EXCEPT ![t] = Free(outcome, @.attempt)]
          \/ UNCHANGED task
      BY <2>14 DEF Report
    <3>3. Kept
      BY <2>6, <2>14 DEF Report
    <3> HIDE DEF t
    <3>4. Grows
      BY <1>6, <2>1, <2>4, <3>1, <3>2 DEF Typed, Free
    <3> QED BY <2>2, <3>3, <3>4
  <2>15. ASSUME NEW i \in Ids, OrphanPoll(i) PROVE GivenOnce'
    <3> DEFINE t == First(Claimable(i))
    <3>1. /\ UNCHANGED process
          /\ \/ UNCHANGED task
             \/ t \in Tasks /\ task' = [task EXCEPT ![t] = Leased(@.attempt + 1, i)]
      BY <2>9, <2>15 DEF OrphanPoll
    <3> HIDE DEF t
    <3>2. Grows
      BY <1>6, <2>1, <2>4, <3>1 DEF Typed, Leased
    <3> QED BY <2>2, <2>5, <3>1, <3>2
  <2>16. ASSUME NEW r \in Runs, CancelRun(r) PROVE GivenOnce'
    <3>1. Grows
      BY <2>1, <2>16 DEF CancelRun, Free
    <3> QED BY <2>2, <2>5, <2>16, <3>1 DEF CancelRun
  <2>17. CASE ExpireOverdueLeases
    <3>1. Grows
      BY <2>1, <2>17 DEF ExpireOverdueLeases, Free
    <3> QED BY <2>2, <2>5, <2>17, <3>1 DEF ExpireOverdueLeases
  <2>18. CASE Tick
    <3>1. Grows
      BY <2>1, <2>18 DEF Tick, TaskRecords
    <3> QED BY <2>2, <2>5, <2>18, <3>1 DEF Tick
  <2>19. CASE Crash
    BY <2>2, <2>4, <2>19 DEF Crash, At
  <2>20. CASE Restart \/ UNCHANGED vars
    BY <2>2, <2>4, <2>5, <2>20 DEF Restart, vars
  <2> QED BY <1>6, <2>10, <2>11, <2>12, <2>13, <2>14, <2>15, <2>16, <2>17, <2>18, <2>19, <2>20 DEF Next
<1>7. GivenOnce => OneReportCounts
  BY DEF GivenOnce, OneReportCounts, Current
<1> QED
  BY <1>3, <1>4, <1>5, <1>6, <1>7, PTL DEF Spec

(* The monitor takes a lease only from an id that was silent for longer    *)
(* than the timeout, or in a run that is over: each poll and heartbeat     *)
(* renews all leases of its id, so none is older than the silence.         *)
THEOREM HeardOfWorkersKeepLeases == Spec => HeardOfKeepLeases
<1> DEFINE Lost(t) == /\ task[t].state = "RUNNING" /\ RunOf[t] \notin over
                      /\ task'[t].state # "RUNNING" /\ process' = process
<1>1. Init => HeardSince
  BY DEF Init, HeardSince, Free
<1>2. ASSUME Typed, Typed', HeardSince, [Next]_vars
      PROVE  HeardSince' /\ \A t \in Tasks : Lost(t) => silent[task[t].worker] > Timeout
  <2> DEFINE Still == \A t \in Tasks : ~Lost(t)
             Renewing == \A t \in Tasks :
                            task'[t].state = "RUNNING" /\ RunOf[t] \notin over /\ ~Refused(t) =>
                                /\ task'[t].worker \in Ids
                                /\ \/ task'[t].age = 0
                                   \/ /\ task'[t] = task[t]
                                      /\ silent'[task[t].worker] = silent[task[t].worker]
  <2>1. Timeout \in Nat /\ Overdue = Timeout + 1 /\ Overdue \in Nat
    BY WorkersAssumption DEF Overdue
  <2>2. /\ \A t \in Tasks : task[t].age \in 0 .. Overdue
        /\ \A t \in Tasks : task[t].state = "RUNNING" => task[t].worker \in Ids
        /\ \A i \in Ids : silent[i] \in 0 .. Overdue
    BY <1>2 DEF Typed, TaskRecords
  <2>3. ASSUME Renewing, over \subseteq over', silent' \in [Ids -> 0 .. Overdue],
               \A t \in Tasks : Refused(t) => Refused(t)'
        PROVE  HeardSince'
    <3>1. ASSUME NEW t \in Tasks, task'[t].state = "RUNNING", RunOf[t] \notin over', ~Refused(t)'
          PROVE  task'[t].age <= silent'[task'[t].worker]
      BY <1>2, <2>1, <2>2, <2>3, <3>1 DEF HeardSince
    <3> QED BY <3>1 DEF HeardSince
  <2> DEFINE Proved == HeardSince' /\ \A t \in Tasks : Lost(t) => silent[task[t].worker] > Timeout
  <2>4. UNCHANGED <<task, silent>> => Still /\ Renewing
    BY <2>2
  <2>5. ASSUME NEW i \in Ids, Beat(i) PROVE Still /\ Renewing
    <3>1. \A t \in Tasks : task[t] \in TaskRecords
      BY <1>2 DEF Typed
    <3>2. \A j \in Ids \ {i} : silent'[j] = silent[j]
      BY <1>2, <2>5 DEF Beat, Typed
    <3>3. \A t \in Tasks :
            IF t \in HeldBy(i) /\ RunOf[t] \notin over /\ ~Refused(t)
              THEN /\ task'[t].age = 0
                   /\ task'[t].state = task[t].state /\ task'[t].worker = task[t].worker
              ELSE task'[t] = task[t]
      BY <2>5, <3>1 DEF Beat, Renewed, TaskRecords
    <3> QED BY <2>2, <3>2, <3>3 DEF HeldBy
  <2>6. ASSUME NEW t \in Tasks, NEW x, task' = [task EXCEPT ![t] = x], UNCHANGED silent,
               \/ x.state = "RUNNING" /\ x.worker \in Ids /\ x.age = 0
               \/ x.state # "RUNNING"
        PROVE  Renewing
    BY <1>2, <2>2, <2>6 DEF Typed
  <2>7. ASSUME NEW i, Claimable(i) # {}
        PROVE  First(Claimable(i)) \in Tasks /\ task[First(Claimable(i))].state = "READY"
    <3>1. \E u \in Claimable(i) : \A v \in Claimable(i) : u <= v
      <4>1. Claimable(i) \in SUBSET Nat
        BY WorkersAssumption DEF Claimable
      <4> QED BY <2>7, <4>1, SetInduction
    <3>2. First(Claimable(i)) \in Claimable(i)
      BY <3>1 DEF First
    <3> QED BY <3>2 DEF Claimable
  <2>8. ASSUME NEW p \in Processes, NEW pc \in {"down", "idle", "polling", "gone"},
               process[p].pc # pc, process' = [process EXCEPT ![p] = At(pc)]
        PROVE  Still
    BY <1>2, <2>8 DEF Typed, At
  <2>9. over \subseteq over'
    <3>1. CASE UNCHANGED over
      BY <3>1
    <3>2. CASE over' # over
      <4>1. \A p \in Processes, outcome \in Outcomes : Report(p, outcome) => over \subseteq over'
        BY DEF Report
      <4>2. \A r \in Runs : CancelRun(r) => over \subseteq over'
        BY DEF CancelRun
      <4>3. ExpireOverdueLeases => over \subseteq over'
        BY DEF ExpireOverdueLeases
      <4> QED BY <1>2, <3>2, <4>1, <4>2, <4>3
        DEF Next, vars, StartWorker, Poll, Claim, ClaimFails, PollTimesOut, Heartbeat, StopWorker,
            LoseWorker, OrphanPoll, Tick, Crash, Restart
    <3> QED BY <3>1, <3>2
  <2>10. /\ silent' \in [Ids -> 0 .. Overdue]
         /\ \A t \in Tasks : Refused(t) => Refused(t)'
    <3>1. \A p \in Processes, outcome \in Outcomes : Report(p, outcome) =>
            log' = log \/ \E t \in Tasks : log' = [log EXCEPT ![RunOf[t]] = "refusing"]
      BY <1>2 DEF Report, Typed
    <3>2. \/ log' = log
          \/ \E t \in Tasks : log' = [log EXCEPT ![RunOf[t]] = "refusing"]
          \/ log' = [r \in Runs |-> IF log[r] = "readable" THEN "readable" ELSE "skipped"]
      BY <1>2, <3>1
      DEF Next, vars, StartWorker, Poll, Claim, ClaimFails, PollTimesOut, Heartbeat, StopWorker,
          LoseWorker, OrphanPoll, CancelRun, ExpireOverdueLeases, Tick, Crash, Restart
    <3>3. log \in [Runs -> {"readable", "refusing", "skipped"}] /\ \A t \in Tasks : RunOf[t] \in Runs
      BY <1>2 DEF Typed, Runs
    <3> QED BY <1>2, <3>2, <3>3 DEF Refused, Typed
  <2>11. ASSUME NEW p \in Processes, StartWorker(p) \/ Poll(p) \/ PollTimesOut(p) \/ Heartbeat(p)
         PROVE  Still /\ Renewing
    <3>1. IdOf[p] \in Ids
      BY WorkersAssumption
    <3> QED BY <2>4, <2>5, <2>11, <3>1 DEF StartWorker, Poll, PollTimesOut, Heartbeat
  <2>12. ASSUME NEW p \in Processes, Claim(p) \/ ClaimFails(p) PROVE Still /\ Renewing
    <3> DEFINE t == First(Claimable(IdOf[p]))
               a == task[t].attempt + 1
    <3>1. /\ process[p].pc = "polling" /\ UNCHANGED silent /\ IdOf[p] \in Ids
          /\ Claimable(IdOf[p]) # {}
          /\ \/ UNCHANGED task
             \/ task' = [task EXCEPT ![t] = [@ EXCEPT !.attempt = a, !.worker = IdOf[p]]]
             \/ task' = [task EXCEPT ![t] = Leased(a, IdOf[p])]
          /\ \/ process' = [process EXCEPT ![p] = Handling(t, a)]
             \/ process' = [process EXCEPT ![p] = At("down")]
      BY <2>12, WorkersAssumption DEF Claim, ClaimFails
    <3>2. t \in Tasks /\ task[t].state = "READY" /\ task[t] \in TaskRecords
      BY <1>2, <2>7, <3>1 DEF Typed
    <3> HIDE DEF t, a
    <3>3. Still
      BY <1>2, <3>1 DEF Typed, Handling, At
    <3>4. CASE task' = [task EXCEPT ![t] = Leased(a, IdOf[p])]
      <4>1. /\ Leased(a, IdOf[p]).state = "RUNNING" /\ Leased(a, IdOf[p]).worker \in Ids
            /\ Leased(a, IdOf[p]).age = 0
        BY <3>1 DEF Leased
      <4> QED BY <2>6, <3>1, <3>2, <3>3, <3>4, <4>1
    <3>5. CASE task' = [task EXCEPT ![t] = [@ EXCEPT !.attempt = a, !.worker = IdOf[p]]]
      <4>1. task' = [task EXCEPT ![t] = [task[t] EXCEPT !.attempt = a, !.worker = IdOf[p]]]
        BY <1>2, <3>2, <3>5 DEF Typed
      <4>2. [task[t] EXCEPT !.attempt = a, !.worker = IdOf[p]].state # "RUNNING"
        BY <3>2 DEF TaskRecords
      <4> QED BY <2>6, <3>1, <3>2, <3>3, <4>1, <4>2
    <3> QED BY <2>4, <3>1, <3>3, <3>4, <3>5
  <2>13. ASSUME NEW p \in Processes, StopWorker(p) \/ LoseWorker(p) PROVE Still /\ Renewing
    BY <2>4, <2>13 DEF StopWorker, LoseWorker
  <2>14. ASSUME NEW p \in Processes, NEW outcome \in Outcomes, Report(p, outcome)
         PROVE  Still /\ Renewing
    <3> DEFINE t == process[p].task
    <3>1. t \in Tasks /\ process[p].pc = "handling" /\ UNCHANGED silent
      BY <1>2, <2>14 DEF Report, Typed
    <3>2. \/ task' = [task EXCEPT ![t] = Free(outcome, @.attempt)]
          \/ UNCHANGED task
      BY <2>14 DEF Report
    <3>3. process' = [process EXCEPT ![p] = At("idle")] \/ process' = [process EXCEPT ![p] = At("down")]
      BY <2>14 DEF Report
    <3>4. Still
      BY <2>8, <3>1, <3>3
    <3> HIDE DEF t
    <3>5. CASE task' = [task EXCEPT ![t] = Free(outcome, @.attempt)]
      <4>1. task' = [task EXCEPT ![t] = Free(outcome, task[t].attempt)]
        BY <1>2, <3>1, <3>5 DEF Typed
      <4>2. Free(outcome, task[t].attempt).state # "RUNNING"
        BY DEF Free, Outcomes
      <4> QED BY <2>6, <3>1, <3>4, <4>1, <4>2
    <3> QED BY <2>4, <3>1, <3>2, <3>4, <3>5
  <2>15. ASSUME NEW i \in Ids, OrphanPoll(i) PROVE Still /\ Renewing
    <3> DEFINE t == First(Claimable(i))
    <3>1. /\ UNCHANGED silent
          /\ \/ UNCHANGED task
             \/ /\ t \in Tasks /\ task[t].state = "READY"
                /\ task' = [task EXCEPT ![t] = Leased(@.attempt + 1, i)]
      BY <2>7, <2>15 DEF OrphanPoll
    <3> HIDE DEF t
    <3>2. CASE t \in Tasks /\ task[t].state = "READY"
                /\ task' = [task EXCEPT ![t] = Leased(@.attempt + 1, i)]
      <4> DEFINE x == Leased(task[t].attempt + 1, i)
      <4>1. task' = [task EXCEPT ![t] = x] /\ x.state = "RUNNING" /\ x.worker = i /\ x.age = 0
        BY <1>2, <3>2 DEF Typed, Leased
      <4> HIDE DEF x
      <4>2. Still
        BY <1>2, <3>2, <4>1 DEF Typed
      <4> QED BY <2>6, <3>1, <3>2, <4>1, <4>2
    <3> QED BY <2>4, <3>1, <3>2
  <2>16. ASSUME NEW r \in Runs, CancelRun(r) PROVE Still /\ Renewing
    BY <2>2, <2>16 DEF CancelRun, Free
  <2>17. ASSUME ExpireOverdueLeases PROVE Proved
    <3>1. \A t \in Tasks : IF Late(t) THEN task'[t].state # "RUNNING" ELSE task'[t] = task[t]
      BY <2>17 DEF ExpireOverdueLeases, Free
    <3>2. Renewing
      BY <2>2, <2>17, <3>1 DEF ExpireOverdueLeases
    <3>3. ASSUME NEW t \in Tasks, Lost(t) PROVE silent[task[t].worker] > Timeout
      <4>1. Late(t)
        BY <3>1, <3>3
      <4> QED BY <1>2, <2>1, <2>2, <3>3, <4>1 DEF Late, HeardSince
    <3> QED BY <2>3, <2>9, <2>10, <3>2, <3>3
  <2>18. ASSUME Tick PROVE Proved
    <3>1. \A m, n \in 0 .. Overdue : m <= n => Older(m) <= Older(n)
      BY <2>1 DEF Older
    <3>2. \A t \in Tasks : /\ task[t] \in TaskRecords
                           /\ task'[t].state = task[t].state /\ task'[t].worker = task[t].worker
                           /\ task[t].state = "RUNNING" => task'[t].age = Older(task[t].age)
      BY <1>2, <2>18 DEF Tick, Typed, TaskRecords
    <3>3. (\A i \in Ids : silent'[i] = Older(silent[i])) /\ UNCHANGED over
      BY <2>18 DEF Tick
    <3>4. HeardSince'
      BY <1>2, <2>2, <2>10, <3>1, <3>2, <3>3 DEF HeardSince
    <3> QED BY <3>2, <3>4
  <2>19. ASSUME Crash \/ Restart \/ UNCHANGED vars PROVE Still /\ Renewing
    <3>1. UNCHANGED <<task, silent>>
      BY <2>19 DEF Crash, Restart, vars
    <3> QED BY <2>4, <3>1
  <2>20. Still /\ Renewing => Proved
    BY <2>3, <2>9, <2>10
  <2> HIDE DEF Still, Renewing, Proved
  <2>21. Proved
    BY <1>2, <2>11, <2>12, <2>13, <2>14, <2>15, <2>16, <2>17, <2>18, <2>19, <2>20 DEF Next
  <2> QED BY <2>21 DEF Proved
<1> QED
  BY <1>1, <1>2, ReportsCountOnce, PTL DEF Spec, HeardOfKeepLeases
=============================================================================
