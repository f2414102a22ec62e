---------------------------- MODULE MCHypervisor ----------------------------
(***************************************************************************)
(* Instances of Hypervisor for TLC.                                        *)
(***************************************************************************)
EXTENDS Hypervisor, TLC

CONSTANTS r1, r2, s, k1

TwoRunners == {r1, r2, s}
OneRunnerAndSpec == {r1, s}
RunnerSymmetry == Permutations(Runners)
OneKey == {k1}
=============================================================================
