----------------------------- MODULE TaskLedger -----------------------------
(***************************************************************************)
(* What the task queue of crates/sharecli-mesh/src/task_queue.rs promises: *)
(* tasks are delivered at least once.  A task stays stored until it is     *)
(* acknowledged, and one worker at a time holds it, unless it was revoked: *)
(* an operator gave it back to the queue while a worker was holding it.    *)
(***************************************************************************)
CONSTANTS Tasks, Workers

VARIABLES
    stored,     \* tasks the queue has
    holders,    \* [Tasks -> SUBSET Workers]: who works on a task
    enqueued, acked, revoked

ledgerVars == <<stored, holders, enqueued, acked, revoked>>

LedgerInit ==
    /\ stored = {} /\ enqueued = {} /\ acked = {} /\ revoked = {}
    /\ holders = [t \in Tasks |-> {}]

Add(t) ==
    /\ t \notin enqueued
    /\ enqueued' = enqueued \cup {t} /\ stored' = stored \cup {t}
    /\ UNCHANGED <<holders, acked, revoked>>

Take(w, t) ==
    /\ t \in stored
    /\ holders[t] = {} \/ t \in revoked
    /\ holders' = [holders EXCEPT ![t] = @ \cup {w}]
    /\ UNCHANGED <<stored, enqueued, acked, revoked>>

\* The holder is done with the task; a revoked one may stay stored.
Complete(w, t) ==
    /\ w \in holders[t]
    /\ holders' = [holders EXCEPT ![t] = @ \ {w}]
    /\ acked' = acked \cup {t}
    /\ stored' = stored \ {t} \/ (t \in revoked /\ stored' = stored)
    /\ UNCHANGED <<enqueued, revoked>>

\* The holder gives the task up, or dies.
Drop(w, t) ==
    /\ w \in holders[t]
    /\ holders' = [holders EXCEPT ![t] = @ \ {w}]
    /\ UNCHANGED <<stored, enqueued, acked, revoked>>

Revoke(t) ==
    /\ holders[t] # {}
    /\ revoked' = revoked \cup {t}
    /\ UNCHANGED <<stored, holders, enqueued, acked>>

\* A holder of a revoked task that was completed meanwhile stores it again.
Return(t) ==
    /\ t \in acked \cap revoked /\ holders[t] # {}
    /\ stored' = stored \cup {t}
    /\ UNCHANGED <<holders, enqueued, acked, revoked>>

LedgerNext ==
    \E t \in Tasks :
        \/ Add(t) \/ Revoke(t) \/ Return(t)
        \/ \E w \in Workers : Take(w, t) \/ Complete(w, t) \/ Drop(w, t)

LedgerSpec == LedgerInit /\ [][LedgerNext]_ledgerVars
=============================================================================
