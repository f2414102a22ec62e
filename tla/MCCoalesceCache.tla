-------------------------- MODULE MCCoalesceCache --------------------------
(***************************************************************************)
(* Instances of CoalesceCache for TLC.                                     *)
(***************************************************************************)
EXTENDS CoalesceCache

CONSTANTS c1, c2, k1, k2

TwoCallers == {c1, c2}
TwoKeys == {k1, k2}
OneDebouncer == {c1}
=============================================================================
