----------------------- MODULE MCSpeculativeCoalescer -----------------------
(***************************************************************************)
(* Three callers, two keys and three tasks under way at once.              *)
(***************************************************************************)
EXTENDS SpeculativeCoalescer

ThreeCallers == {"c1", "c2", "c3"}
TwoKeys == {"k1", "k2"}
ThreeTasks == {"t1", "t2", "t3"}
=============================================================================
