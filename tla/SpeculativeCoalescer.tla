------------------------ MODULE SpeculativeCoalescer ------------------------
(***************************************************************************)
(* SpeculativeCoalescer::coalesce of crates/sharecli-core/src/speculation. *)
(* The first caller of a key registers a pending group and spawns a task;  *)
(* the task sleeps out the window, takes the group out of the map, runs    *)
(* the executor once and sends its result to every waiter of the group.    *)
(* A caller may be cancelled (its receiver is dropped) and the executor    *)
(* may fail or panic.                                                      *)
(***************************************************************************)
EXTENDS Naturals, FiniteSets

CONSTANTS Callers, Keys,
          Tasks     \* bound: tasks that may be under way at the same time

ASSUME CoalescerAssumption == "no" \notin Keys

VARIABLES
    calling,    \* [Callers -> Keys \cup {"no"}]: the key c waits for
    got,        \* [Callers -> {"none", "ok", "err"}]: its last answer
    pending,    \* set of keys with a registered group
    waiters,    \* [Keys -> SUBSET Callers]: senders of the pending group
    task,       \* [Tasks -> {"free", "sleep", "run"}]
    taskKey,    \* [Tasks -> Keys]
    batch,      \* [Tasks -> SUBSET Callers]: the group a task has drained
    started     \* history: an execution of c's key began after c's call

coVars == <<calling, got, pending, waiters, task, taskKey, batch, started>>

\* Types, and when the senders of a group may be in the map or with a task.
CoTypeOK ==
    /\ calling \in [Callers -> Keys \cup {"no"}]
    /\ got     \in [Callers -> {"none", "ok", "err"}]
    /\ pending \subseteq Keys
    /\ waiters \in [Keys -> SUBSET Callers]
    /\ task    \in [Tasks -> {"free", "sleep", "run"}]
    /\ taskKey \in [Tasks -> Keys]
    /\ batch   \in [Tasks -> SUBSET Callers]
    /\ started \in [Callers -> BOOLEAN]
    /\ \A k \in Keys : waiters[k] # {} => k \in pending
    /\ \A t \in Tasks : batch[t] # {} => task[t] = "run"

CoInit ==
    /\ calling = [c \in Callers |-> "no"]
    /\ got     = [c \in Callers |-> "none"]
    /\ pending = {}
    /\ waiters = [k \in Keys |-> {}]
    /\ task    = [t \in Tasks |-> "free"]
    /\ taskKey \in [Tasks -> Keys]
    /\ batch   = [t \in Tasks |-> {}]
    /\ started = [c \in Callers |-> FALSE]
-----------------------------------------------------------------------------
Enter(c, k) ==
    /\ calling[c] = "no"
    /\ calling' = [calling EXCEPT ![c] = k]
    /\ got'     = [got EXCEPT ![c] = "none"]
    /\ started' = [started EXCEPT ![c] = FALSE]
    /\ waiters' = [waiters EXCEPT ![k] = @ \cup {c}]

\* Entry::Occupied: join the group.
JoinGroup(c, k) ==
    /\ k \in pending
    /\ Enter(c, k)
    /\ UNCHANGED <<pending, task, taskKey, batch>>

\* Entry::Vacant: register the group and spawn its task.
Lead(c, k) ==
    /\ k \notin pending
    /\ Enter(c, k)
    /\ pending' = pending \cup {k}
    /\ \E t \in Tasks :
        /\ task[t] = "free"
        /\ task'    = [task EXCEPT ![t] = "sleep"]
        /\ taskKey' = [taskKey EXCEPT ![t] = k]
    /\ UNCHANGED batch

\* The window is over before the group is taken: a late joiner is lost.
WindowOver_KeepsGroup(t) ==
    /\ task[t] = "sleep"
    /\ task'    = [task EXCEPT ![t] = "run"]
    /\ batch'   = [batch EXCEPT ![t] = waiters[taskKey[t]]]
    /\ waiters' = [waiters EXCEPT ![taskKey[t]] = {}]
    /\ started' = [c \in Callers |-> started[c] \/ calling[c] = taskKey[t]]
    /\ UNCHANGED <<calling, got, pending, taskKey>>

\* The sleep ends, the group is removed from the map, exec() starts.
WindowOver(t) ==
    /\ task[t] = "sleep"
    /\ task'    = [task EXCEPT ![t] = "run"]
    /\ batch'   = [batch EXCEPT ![t] = waiters[taskKey[t]]]
    /\ waiters' = [waiters EXCEPT ![taskKey[t]] = {}]
    /\ pending' = pending \ {taskKey[t]}
    /\ started' = [c \in Callers |-> started[c] \/ calling[c] = taskKey[t]]
    /\ UNCHANGED <<calling, got, taskKey>>

Answer(t, S, r) ==
    /\ task'    = [task EXCEPT ![t] = "free"]
    /\ batch'   = [batch EXCEPT ![t] = {}]
    /\ calling' = [c \in Callers |-> IF c \in S THEN "no" ELSE calling[c]]
    /\ got'     = [c \in Callers |-> IF c \in S THEN r ELSE got[c]]

\* The result also goes to whoever joined while the executor ran.
ExecEnds_DrainsLate(t, r) ==
    /\ task[t] = "run"
    /\ Answer(t, batch[t] \cup waiters[taskKey[t]], r)
    /\ waiters' = [waiters EXCEPT ![taskKey[t]] = {}]
    /\ UNCHANGED <<pending, taskKey, started>>

ExecEnds_LeaderOnly(t, r) ==
    /\ task[t] = "run"
    /\ \/ batch[t] = {} /\ Answer(t, {}, r)
       \/ \E c \in batch[t] : Answer(t, {c}, r)
    /\ UNCHANGED <<pending, waiters, taskKey, started>>

\* exec() ends and its result is sent to every waiter of the drained group.
\* If it panics the senders are dropped, which the waiters see as an error.
ExecEnds(t, r) ==
    /\ task[t] = "run"
    /\ Answer(t, batch[t], r)
    /\ UNCHANGED <<pending, waiters, taskKey, started>>

\* The caller's future is dropped: nobody receives on its channel any more.
Cancel(c) ==
    /\ calling[c] # "no"
    /\ calling' = [calling EXCEPT ![c] = "no"]
    /\ waiters' = [k \in Keys |-> waiters[k] \ {c}]
    /\ batch'   = [t \in Tasks |-> batch[t] \ {c}]
    /\ UNCHANGED <<got, pending, task, taskKey, started>>

CoNext ==
    \/ \E c \in Callers : Cancel(c) \/ \E k \in Keys : JoinGroup(c, k) \/ Lead(c, k)
    \/ \E t \in Tasks : WindowOver(t) \/ \E r \in {"ok", "err"} : ExecEnds(t, r)

\* Tokio runs spawned tasks, and executors end.
CoSpec ==
    /\ CoInit /\ [][CoNext]_coVars
    /\ \A t \in Tasks : WF_coVars(WindowOver(t) \/ \E r \in {"ok", "err"} : ExecEnds(t, r))
-----------------------------------------------------------------------------
\* A registered group always has exactly one task that will still drain it:
\* no caller can join a group that nobody answers, and two executions of one
\* key never serve the same group (speculation.rs:244 "at most once per
\* coalesce window").
GroupHasOneTask ==
    \A k \in Keys :
        Cardinality({t \in Tasks : task[t] = "sleep" /\ taskKey[t] = k})
            = IF k \in pending THEN 1 ELSE 0

\* The answer a caller gets comes from an execution that began after its
\* call: a caller that arrives while the executor runs is never given the
\* older result (speculation.rs:283 "Anyone arriving AFTER this drain will
\* start a fresh coalesce cycle").
AnswerIsFresh ==
    \A c \in Callers : calling[c] = "no" /\ got[c] # "none" => started[c]

\* Every caller is answered, whoever led its group and whoever of the group
\* was cancelled.
EveryCallerAnswered == \A c \in Callers : calling[c] # "no" ~> calling[c] = "no"
=============================================================================
