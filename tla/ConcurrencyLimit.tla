-------------------------- MODULE ConcurrencyLimit --------------------------
(***************************************************************************)
(* What SlotQueue::with_slot of crates/sharecli-ipc/src/queue.rs promises: *)
(* a caller waits, is let in while fewer than Limit are inside, and leaves *)
(* with its result; or it gives up waiting, or its process is killed.      *)
(***************************************************************************)
EXTENDS Naturals, FiniteSets

CONSTANTS Callers, Limit

VARIABLE where  \* [Callers -> {"out", "waiting", "inside", "ok", "timeout", "killed"}]

Inside == {c \in Callers : where[c] = "inside"}
Move(c, from, to) == where[c] = from /\ where' = [where EXCEPT ![c] = to]

LimitInit == where = [c \in Callers |-> "out"]

Arrive(c) == Move(c, "out", "waiting")
Admit(c) == Cardinality(Inside) < Limit /\ Move(c, "waiting", "inside")
Leave(c) == Move(c, "inside", "ok")
GiveUp(c) == Move(c, "waiting", "timeout")
Die(c) == \E from \in {"waiting", "inside"} : Move(c, from, "killed")

LimitNext ==
    \E c \in Callers : Arrive(c) \/ Admit(c) \/ Leave(c) \/ GiveUp(c) \/ Die(c)

LimitSpec == LimitInit /\ [][LimitNext]_where
=============================================================================
