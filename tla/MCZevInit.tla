------------------------------ MODULE MCZevInit ------------------------------
(***************************************************************************)
(* ZevInit for TLC.  The .cfg files choose what may happen; the process    *)
(* ids are interchangeable in the runs that check safety.                  *)
(***************************************************************************)
EXTENDS ZevInit, TLC

Symmetry == Permutations(Pid)

==============================================================================
