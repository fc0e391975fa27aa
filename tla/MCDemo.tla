------------------------------- MODULE MCDemo -------------------------------
(***************************************************************************)
(* The core demo in small: a plan that spawns an investigation, which      *)
(* fails once, and the publication, which waits for it and for the gate.   *)
(***************************************************************************)
EXTENDS Demo, TLC

CONSTANTS planner, analyst1, analyst2, editor

MCNodes == {1, 2, 3, 4}
MCInitial == {1, 3}
MCActivities == {"plan", "investigate", "review"}
MCWorkers == {planner, analyst1, analyst2, editor}
MCSkills ==
    (planner :> {"plan"}) @@ (analyst1 :> {"investigate"}) @@
    (analyst2 :> {"investigate"}) @@ (editor :> {"review"})

Plain == [deps |-> {}, activity |-> "plan", maxAttempts |-> 0,
          compensation |-> NoActivity, limits |-> {}]

MCDef ==
    (1 :> Plain) @@
    (2 :> [Plain EXCEPT !.activity = "investigate", !.maxAttempts = 2]) @@
    (3 :> [Plain EXCEPT !.activity = "review", !.deps = {1}, !.limits = {"checkpoint_timeout"}]) @@
    (4 :> [Plain EXCEPT !.activity = "review", !.deps = {2, 3}])

MCSpawned == (1 :> {2, 4}) @@ (2 :> {}) @@ (3 :> {}) @@ (4 :> {})
MCFlaky == {2}
=============================================================================
