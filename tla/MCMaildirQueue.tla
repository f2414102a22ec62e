--------------------------- MODULE MCMaildirQueue ---------------------------
(***************************************************************************)
(* Instances of MaildirQueue for TLC.                                      *)
(***************************************************************************)
EXTENDS MaildirQueue, TLC

CONSTANTS t1, t2, w1, w2, w3

TwoTasks == {t1, t2}
ThreeWorkers == {w1, w2, w3}
MailSymmetry == Permutations(Workers)
\* Three claims let a third worker in on a task that was taken back.
ThreeAndOne == [t \in Tasks |-> IF t = t1 THEN 3 ELSE 1]
=============================================================================
