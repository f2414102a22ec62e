------------------------ MODULE MCTransactionContract ------------------------
(***************************************************************************)
(* Instances of TransactionContract for TLC.                               *)
(***************************************************************************)
EXTENDS TransactionContract

\* Chains of two delegations over a scope, its child and its grandchild, one
\* operation and up to one unit; both epochs.
ASSUME ChainsAttenuate ==
    LET Below == {<<1, 0>>, <<2, 1>>, <<2, 0>>}
        Chains == [0..2 -> Grants(0..2, {"read"}, 1)]
    IN  \A grant \in Chains : DelegationChain(grant, 2, Below) => Attenuates(grant, 2, Below)
=============================================================================
