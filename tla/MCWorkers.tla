----------------------------- MODULE MCWorkers -----------------------------
(***************************************************************************)
(* Instances on which TLC checks Workers.                                  *)
(***************************************************************************)
EXTENDS Workers, TLC

CONSTANTS p1, p2, id1

MCActivities == {"run", "undo"}

(* Two processes with one id; a run of one node and one that compensates.  *)
TwoProcesses == {p1, p2}
OneId == {id1}
SharedId == (p1 :> id1) @@ (p2 :> id1)
AllHandlers == (p1 :> MCActivities) @@ (p2 :> MCActivities)
TwoTasks == {1, 2}
TwoRuns == (1 :> "r1") @@ (2 :> "r2")
TwoActivities == (1 :> "run") @@ (2 :> "undo")
LastCompensates == {2}

(* One process and one task.                                               *)
OneProcess == {p1}
OwnId == p1 :> id1
OwnHandlers == p1 :> {"run"}
OneTask == {1}
OneRun == 1 :> "r1"
OneActivity == 1 :> "run"
NoCompensations == {}
=============================================================================
