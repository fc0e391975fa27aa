------------------------------- MODULE MCRuns -------------------------------
(***************************************************************************)
(* Small instances on which TLC checks Runs.                               *)
(***************************************************************************)
EXTENDS Runs

CONSTANTS r1, r2, g1

OneRun == {r1}
TwoRuns == {r1, r2}
OneReader == {g1}
=============================================================================
