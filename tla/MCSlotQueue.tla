---------------------------- MODULE MCSlotQueue ----------------------------
(***************************************************************************)
(* Instances of SlotQueue for TLC: the constants are given in the cfgs.    *)
(***************************************************************************)
EXTENDS SlotQueue
=============================================================================
