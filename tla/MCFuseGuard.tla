----------------------------- MODULE MCFuseGuard -----------------------------
(***************************************************************************)
(* Three guards, two of them in one working directory.                     *)
(***************************************************************************)
EXTENDS FuseGuard

ThreeRuns == {"r1", "r2", "r3"}
TwoDirs == {"d1", "d2"}
PairAndOne == [r \in Runs |-> IF r = "r3" THEN "d2" ELSE "d1"]
=============================================================================
