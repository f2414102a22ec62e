-------------------------- MODULE MCTeamcommBroker --------------------------
(***************************************************************************)
(* Instances of TeamcommBroker for TLC.                                    *)
(***************************************************************************)
EXTENDS TeamcommBroker, TLC

CONSTANTS p1, p2

TwoPids == {p1, p2}
BrokerSymmetry == Permutations(Pids)
=============================================================================
