-------------------------- MODULE MCSurfaceEvents --------------------------
(***************************************************************************)
(* Instances of SurfaceEvents for TLC.                                     *)
(***************************************************************************)
EXTENDS SurfaceEvents, TLC
=============================================================================
