---------------------------- MODULE MCServeLock ----------------------------
(***************************************************************************)
(* Instances of ServeLock for TLC.                                         *)
(***************************************************************************)
EXTENDS ServeLock, TLC

CONSTANTS p1, p2, p3

ThreeProcs == {p1, p2, p3}
ProcSymmetry == Permutations(Procs)
=============================================================================
