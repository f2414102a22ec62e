--------------------------- MODULE ResultContract ---------------------------
(***************************************************************************)
(* What CoalesceCache::with_lock_detailed of crates/sharecli-ipc/src/lib.rs *)
(* promises the callers of a command, without locks, ages, sleeps or       *)
(* sweeps: callers of one command go in one at a time; inside, a caller is *)
(* served a success it saw to be fresh, or runs the command because no     *)
(* fresh success is there; a success is kept for the others, a failure     *)
(* goes to its own caller only.                                            *)
(***************************************************************************)
CONSTANTS Callers, Keys

VARIABLES
    phase,  \* [Callers -> {"out", "waiting", "looking", "found", "running", "stored"}]
    of,     \* [Callers -> Keys]: the command called
    reply,  \* what the last call returned, and from where
    good,   \* the commands with a success on disk
    fresh   \* those whose success is younger than the TTL

contractVars == <<phase, of, reply, good, fresh>>

NoReply == <<"none", "nobody">>
Inside == {"looking", "found", "running", "stored"}

ContractInit ==
    /\ phase = [c \in Callers |-> "out"]
    /\ of \in [Callers -> Keys]
    /\ reply = [c \in Callers |-> NoReply]
    /\ good = {} /\ fresh = {}

Move(c, from, to) == phase[c] \in from /\ phase' = [phase EXCEPT ![c] = to]
Answer(c, r) == reply' = [reply EXCEPT ![c] = r]

\* A caller asks for the result of a command ...
Ask(c, k) ==
    /\ Move(c, {"out"}, "waiting") /\ of' = [of EXCEPT ![c] = k] /\ Answer(c, NoReply)
    /\ UNCHANGED <<good, fresh>>

\* ... and goes in once no other caller of the command is inside.
Enter(c) ==
    /\ \A d \in Callers : phase[d] \in Inside => of[d] # of[c]
    /\ Move(c, {"waiting"}, "looking")
    /\ UNCHANGED <<of, reply, good, fresh>>

\* It finds a fresh success, and is served it if the success is still there.
Find(c) ==
    /\ of[c] \in fresh /\ Move(c, {"looking"}, "found")
    /\ UNCHANGED <<of, reply, good, fresh>>

Serve(c) ==
    /\ of[c] \in good /\ Move(c, {"found"}, "out") /\ Answer(c, <<"ok", "cache">>)
    /\ UNCHANGED <<of, good, fresh>>

LookAgain(c) ==
    /\ of[c] \notin good /\ Move(c, {"found"}, "looking")
    /\ UNCHANGED <<of, reply, good, fresh>>

\* It runs the command only while no fresh success of it is there.
Run(c) ==
    /\ of[c] \notin fresh /\ Move(c, {"looking", "found"}, "running")
    /\ UNCHANGED <<of, reply, good, fresh>>

\* Its success is kept for the others before the call returns it,
Keep(c) ==
    /\ Move(c, {"running"}, "stored")
    /\ good' = good \cup {of[c]} /\ fresh' = fresh \cup {of[c]}
    /\ UNCHANGED <<of, reply>>

Deliver(c) ==
    /\ Move(c, {"stored"}, "out") /\ Answer(c, <<"ok", "run">>)
    /\ UNCHANGED <<of, good, fresh>>

\* its failure is its own.
Fail(c) ==
    /\ Move(c, {"running"}, "out") /\ Answer(c, <<"fail", "run">>)
    /\ UNCHANGED <<of, good, fresh>>

\* A call may end without a result: a deadline, an I/O error, a killed process.
GiveUp(c) ==
    /\ Move(c, Inside \cup {"waiting"}, "out") /\ Answer(c, NoReply)
    /\ UNCHANGED <<of, good, fresh>>

\* Successes age, and are forgotten.
Expire == fresh' \subseteq fresh /\ UNCHANGED <<phase, of, reply, good>>

Forget(k) ==
    /\ good' = good \ {k} /\ fresh' = fresh \ {k}
    /\ UNCHANGED <<phase, of, reply>>

ContractNext ==
    \/ \E c \in Callers :
        \/ \E k \in Keys : Ask(c, k)
        \/ Enter(c) \/ Find(c) \/ Serve(c) \/ LookAgain(c) \/ Run(c)
        \/ Keep(c) \/ Deliver(c) \/ Fail(c) \/ GiveUp(c)
    \/ Expire
    \/ \E k \in Keys : Forget(k)

ContractSpec == ContractInit /\ [][ContractNext]_contractVars
=============================================================================
