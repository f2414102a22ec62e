------------------------------ MODULE SlotQueue ------------------------------
(***************************************************************************)
(* SlotQueue of crates/sharecli-ipc/src/queue.rs: one lane with            *)
(* MaxConcurrent slots, each an advisory lock, and a directory of waiter   *)
(* tickets named <priority>.<second>.<pid>.<seq>.                          *)
(*                                                                         *)
(* A caller makes one call of with_slot.  Time is counted in half seconds, *)
(* so that the whole seconds of ticket names and of elapsed() disagree as  *)
(* they do in the code.  Callers poll every 100 ms: a half second passes   *)
(* only after every caller that could go on has done so.                   *)
(***************************************************************************)
EXTENDS Naturals, FiniteSets

CONSTANTS
    Callers,        \* numbers; they stand for the <pid>.<seq> of the ticket
    Priorities,     \* subset of 0..4, 0 is Critical
    MaxConcurrent,
    Timeout,        \* in half seconds
    LastArrival,    \* bound: no call starts later
    MaxKills        \* bound: callers whose process is killed

ASSUME SlotAssumption ==
    /\ Callers \subseteq Nat \ {0} /\ Priorities \subseteq 0..4
    /\ MaxConcurrent \in Nat \ {0}
    /\ Timeout \in Nat /\ LastArrival \in Nat /\ MaxKills \in Nat

\* Mutant: one slot file too many.
Slots_OneMore == 0..MaxConcurrent

Slots == 0..(MaxConcurrent - 1)
Free == 0

VARIABLES
    now,
    pc,         \* out, top, try, recheck, run, ok, timeout, killed
    prio,       \* priority of the call
    enq,        \* when the ticket was published
    tickets,    \* callers whose ticket file is in the waiting directory
    lock,       \* [Slots -> Callers \cup {Free}]
    at          \* the slot of the for loop

vars == <<now, pc, prio, enq, tickets, lock, at>>

Waiting(c) == pc[c] \in {"top", "try", "recheck"}
Live(c) == Waiting(c) \/ pc[c] = "run"

SlotTypeOK ==
    /\ now \in 0..(LastArrival + Timeout)
    /\ pc \in [Callers -> {"out", "top", "try", "recheck", "run", "ok", "timeout", "killed"}]
    /\ prio \in [Callers -> Priorities]
    /\ enq \in [Callers -> 0..LastArrival]
    /\ tickets \subseteq Callers
    /\ lock \in [Slots -> Callers \cup {Free}]
    /\ at \in [Callers -> Slots]

SlotInit ==
    /\ now = 0
    /\ pc = [c \in Callers |-> "out"]
    /\ prio \in [Callers -> Priorities]
    /\ enq = [c \in Callers |-> 0]
    /\ tickets = {}
    /\ lock = [s \in Slots |-> Free]
    /\ at = [c \in Callers |-> 0]
-----------------------------------------------------------------------------
Goto(c, l) == pc' = [pc EXCEPT ![c] = l]
Second(t) == t \div 2

\* effective_rank: one step down for every second of waiting, counted in u8.
Rank(base, secs) ==
    LET r == base + (secs % 256) IN IF r > 255 THEN 255 ELSE r

\* The rank a reader gives to a ticket file, from the second in its name ...
TicketRank(c) == Rank(prio[c], Second(now) - Second(enq[c]))

\* ... and the rank a caller gives to itself, from its own elapsed time.
OwnRank(c) == Rank(prio[c], Second(now - enq[c]))

\* Order of ticket names.
NamedBefore(c, d) ==
    \/ prio[c] < prio[d]
    \/ prio[c] = prio[d] /\ Second(enq[c]) < Second(enq[d])
    \/ prio[c] = prio[d] /\ Second(enq[c]) = Second(enq[d]) /\ c < d

\* The tickets of best rank in the waiting directory.
Best == {c \in tickets : \A d \in tickets : TicketRank(c) <= TicketRank(d)}

IsMyTurn_Strict(c) ==
    \A d \in tickets : OwnRank(c) < TicketRank(d)

\* is_my_turn, with the caller's own ticket among the tickets it reads.
IsMyTurn(c) ==
    \A b \in Best :
        \/ TicketRank(b) = 255
        \/ OwnRank(c) < TicketRank(b)
        \/ OwnRank(c) = TicketRank(b) /\ c \in Best
           /\ \A d \in Best \ {c} : NamedBefore(c, d)

\* with_slot: the ticket is published (written aside and renamed).
Enqueue(c) ==
    /\ pc[c] = "out"
    /\ now <= LastArrival
    /\ enq' = [enq EXCEPT ![c] = now]
    /\ tickets' = tickets \cup {c}
    /\ Goto(c, "top")
    /\ UNCHANGED <<now, prio, lock, at>>

TimedOut_TicketLeft(c) ==
    /\ pc[c] = "top"
    /\ now >= enq[c] + Timeout
    /\ Goto(c, "timeout")
    /\ UNCHANGED <<now, prio, enq, tickets, lock, at>>

TimedOut_OnTurn(c) ==
    /\ pc[c] = "top"
    /\ now >= enq[c] + Timeout
    /\ IsMyTurn(c)
    /\ tickets' = tickets \ {c}
    /\ Goto(c, "timeout")
    /\ UNCHANGED <<now, prio, enq, lock, at>>

\* The deadline is checked at the top of the loop; the guard removes the ticket.
TimedOut(c) ==
    /\ pc[c] = "top"
    /\ now >= enq[c] + Timeout
    /\ tickets' = tickets \ {c}
    /\ Goto(c, "timeout")
    /\ UNCHANGED <<now, prio, enq, lock, at>>

\* It is my turn: try the slots.  Otherwise the caller sleeps and loops.
MyTurn(c) ==
    /\ pc[c] = "top"
    /\ now < enq[c] + Timeout
    /\ IsMyTurn(c)
    /\ at' = [at EXCEPT ![c] = 0]
    /\ Goto(c, "try")
    /\ UNCHANGED <<now, prio, enq, tickets, lock>>

\* On to the next slot, or back to the top of the loop.
NextSlot(c) ==
    IF at[c] + 1 \in Slots
    THEN at' = [at EXCEPT ![c] = @ + 1] /\ Goto(c, "try")
    ELSE at' = [at EXCEPT ![c] = 0] /\ Goto(c, "top")

\* try_lock_exclusive on one slot.
TryLock(c) ==
    /\ pc[c] = "try"
    /\ IF lock[at[c]] = Free
       THEN lock' = [lock EXCEPT ![at[c]] = c] /\ Goto(c, "recheck") /\ at' = at
       ELSE NextSlot(c) /\ lock' = lock
    /\ UNCHANGED <<now, prio, enq, tickets>>

Recheck_Skipped(c) ==
    /\ pc[c] = "recheck"
    /\ tickets' = tickets \ {c} /\ Goto(c, "run")
    /\ UNCHANGED <<lock, at, now, prio, enq>>

\* With the slot in hand the turn is checked again: still mine, the ticket goes
\* and f runs; not mine, the slot is given up and the loop goes on.
Recheck(c) ==
    /\ pc[c] = "recheck"
    /\ \/ IsMyTurn(c) /\ tickets' = tickets \ {c} /\ Goto(c, "run")
          /\ UNCHANGED <<lock, at>>
       \/ ~IsMyTurn(c) /\ lock' = [lock EXCEPT ![at[c]] = Free] /\ NextSlot(c)
          /\ tickets' = tickets
    /\ UNCHANGED <<now, prio, enq>>

\* f returns, with a value or an error; the slot's lock file is closed.
Finish(c) ==
    /\ pc[c] = "run"
    /\ lock' = [lock EXCEPT ![at[c]] = Free]
    /\ Goto(c, "ok")
    /\ UNCHANGED <<now, prio, enq, tickets, at>>

\* The caller's process is killed: the system drops its lock, its ticket stays.
Kill(c) ==
    /\ Live(c)
    /\ Cardinality({d \in Callers : pc[d] = "killed"}) < MaxKills
    /\ lock' = [s \in Slots |-> IF lock[s] = c THEN Free ELSE lock[s]]
    /\ Goto(c, "killed")
    /\ UNCHANGED <<now, prio, enq, tickets, at>>

\* Half a second passes, once nobody can go on by polling.
Tick ==
    /\ now < LastArrival + Timeout
    /\ \A c \in Callers :
        /\ pc[c] \notin {"try", "recheck"}
        /\ pc[c] = "top" =>
             /\ now < enq[c] + Timeout
             /\ IsMyTurn(c) => \A s \in Slots : lock[s] # Free
    /\ now' = now + 1
    /\ UNCHANGED <<pc, prio, enq, tickets, lock, at>>

Work(c) ==
    \/ TimedOut(c) \/ MyTurn(c) \/ TryLock(c) \/ Recheck(c) \/ Finish(c)

SlotNext == (\E c \in Callers : Enqueue(c) \/ Work(c) \/ Kill(c)) \/ Tick

SlotSpec == SlotInit /\ [][SlotNext]_vars

FairSlotSpec == SlotSpec /\ WF_vars(Tick) /\ \A c \in Callers : WF_vars(Work(c))
-----------------------------------------------------------------------------
\* The callers running f hold slots of their own: never more than
\* MaxConcurrent at once (queue.rs:75 "N-slot concurrency limiter").
SlotsExclusive ==
    /\ \A c \in Callers : pc[c] \in {"recheck", "run"} => lock[at[c]] = c
    /\ \A s \in Slots : lock[s] # Free =>
          pc[lock[s]] \in {"recheck", "run"} /\ at[lock[s]] = s

\* Every ticket file belongs to a caller that still waits, or whose process was
\* killed: no return path leaks one (queue.rs:280-284).
NoTicketLeak == \A c \in tickets : Waiting(c) \/ pc[c] = "killed"

\* The callers never all yield to each other: as long as nobody was killed,
\* some waiting caller finds that it is its turn.
SomeoneMayGo ==
    (\E c \in Callers : Waiting(c)) /\ (\A c \in Callers : pc[c] # "killed")
        => \E c \in Callers : Waiting(c) /\ IsMyTurn(c)

\* A caller is not let in ahead of a waiting one of better priority whose ticket
\* has the same second (queue.rs:5 "Higher priority [...] acquires slots first").
PriorityFirst ==
    [][\A c, d \in Callers :
         /\ pc[c] = "recheck" /\ pc'[c] = "run"
         /\ d \in tickets /\ prio[d] < prio[c]
         => Second(enq[d]) # Second(enq[c])]_vars

\* Every call ends, with the result of f or with the timeout error.
WithSlotReturns == \A c \in Callers : pc[c] = "top" ~> pc[c] \in {"ok", "timeout", "killed"}
-----------------------------------------------------------------------------
Limiter == INSTANCE ConcurrencyLimit WITH
    Limit <- MaxConcurrent,
    where <- [c \in Callers |-> IF Waiting(c) THEN "waiting"
                               ELSE IF pc[c] = "run" THEN "inside" ELSE pc[c]]

\* with_slot limits concurrency: tickets, turns and slot locks, with callers
\* that time out or are killed anywhere, let a caller in only while fewer than
\* MaxConcurrent run (queue.rs:75 "N-slot concurrency limiter").
LimitsConcurrency == Limiter!LimitSpec
=============================================================================
