-------------------------------- MODULE MCWal --------------------------------
(***************************************************************************)
(* Small instances on which TLC checks Wal.                                *)
(***************************************************************************)
EXTENDS Wal

CONSTANT s1

OneStream == {s1}
=============================================================================
