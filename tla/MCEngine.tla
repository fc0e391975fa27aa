------------------------------ MODULE MCEngine ------------------------------
(***************************************************************************)
(* Small workflows on which TLC checks Engine.                             *)
(***************************************************************************)
EXTENDS EngineProperties, TLC

CONSTANTS w1, w2

Plain == [deps |-> {}, activity |-> "run", maxAttempts |-> 0,
          compensation |-> NoActivity, limits |-> {}]

MCWorkers == {w1, w2}
MCActivities == {"run", "undo"}
MCSkills == [w \in MCWorkers |-> MCActivities]
Symmetry == Permutations(MCWorkers)

(* A retried node and one beside it, both under a deadline, and a node     *)
(* that either may spawn and that waits for both.                          *)
PipelineNodes == {1, 2, 3}
PipelineInitial == {1, 2}
PipelineDef ==
    (1 :> [Plain EXCEPT !.maxAttempts = 2, !.limits = {"node_exec_deadline"}]) @@
    (2 :> [Plain EXCEPT !.limits = {"node_exec_deadline"}]) @@
    (3 :> [Plain EXCEPT !.deps = {1, 2}])
PipelineSpawns == {{}, {3}, {1}}

(* Two compensable nodes beside one that may fail.                         *)
SagaDef ==
    (1 :> [Plain EXCEPT !.compensation = "undo"]) @@
    (2 :> [Plain EXCEPT !.compensation = "undo"]) @@
    (3 :> Plain)
SagaNodes == {1, 2, 3}
NoSpawns == {{}}

(* A retried, compensable node with a checkpoint and deadlines, and a node *)
(* that waits for it; one worker.                                          *)
ProgressNodes == {1, 2}
ProgressDef ==
    (1 :> [Plain EXCEPT !.maxAttempts = 2, !.compensation = "undo",
                        !.limits = {"node_exec_deadline", "node_abs_deadline", "checkpoint_timeout"}]) @@
    (2 :> [Plain EXCEPT !.deps = {1}])
OneWorker == {w1}
OneSkills == [w \in OneWorker |-> MCActivities]

=============================================================================
