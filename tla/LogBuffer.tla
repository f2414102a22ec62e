----------------------------- MODULE LogBuffer ------------------------------
(***************************************************************************)
(* The log ring of the IPC server (crates/sharecli-ipc/src/log_buffer.rs)  *)
(* and one client that follows it through log.tail, advancing since_id by  *)
(* the last_id of every answer as handler.rs asks of it.                   *)
(*                                                                         *)
(* A line is its id; ids are given out by the buffer, one mutex around     *)
(* push and tail.                                                          *)
(***************************************************************************)
EXTENDS Naturals, Sequences, FiniteSets

CONSTANTS
    Capacity,   \* CAPACITY, 1000 in the code
    TailMax     \* lines per answer, 200 in the code

ASSUME LogAssumption ==
    /\ Capacity \in Nat \ {0} /\ TailMax \in Nat \ {0} /\ TailMax <= Capacity

VARIABLES
    entries, next_id, last_id,
    since_id,   \* the client's watermark
    received,   \* ids the client was sent, in order
    polls       \* history: the watermarks of all its polls

logVars == <<entries, next_id, last_id, since_id, received, polls>>

LogInit ==
    /\ entries = << >> /\ next_id = 1 /\ last_id = 0
    /\ since_id = 0 /\ received = << >> /\ polls = {}

Push ==
    /\ next_id' = next_id + 1
    /\ entries' = Append(IF Len(entries) = Capacity THEN Tail(entries) ELSE entries,
                         next_id)
    /\ last_id' = next_id
    /\ UNCHANGED <<since_id, received, polls>>

\* What tail makes of the matching positions of the ring: their lines in the
\* ring's order, cut after TailMax.
Lines(match) ==
    LET nth(n) == CHOOSE k \in match : Cardinality({j \in match : j <= k}) = n
        found == Cardinality(match)
    IN  [n \in 1..(IF found > TailMax THEN TailMax ELSE found) |-> entries[nth(n)]]

\* Mutant: the line at the watermark is sent again.
tail_Inclusive(since) == Lines({k \in DOMAIN entries : entries[k] >= since})

tail(since) == Lines({k \in DOMAIN entries : entries[k] > since})

\* log.tail and the client's use of the answer
Poll ==
    /\ since_id < last_id
    /\ received' = received \o tail(since_id)
    /\ since_id' = last_id
    /\ polls' = polls \cup {last_id}
    /\ UNCHANGED <<entries, next_id, last_id>>
-----------------------------------------------------------------------------
\* The client gets lines in order and none twice, and between two polls that
\* are at most TailMax lines apart it misses none, whatever the ring evicts:
\* only a client that has fallen further behind skips lines.
FollowerComplete ==
    /\ \A i, j \in DOMAIN received : i < j => received[i] < received[j]
    /\ \A p \in polls \cup {0}, q \in polls :
          (p < q /\ q - p <= TailMax) =>
              \A id \in (p + 1)..q : \E i \in DOMAIN received : received[i] = id
=============================================================================
