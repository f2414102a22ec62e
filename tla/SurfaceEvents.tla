---------------------------- MODULE SurfaceEvents ----------------------------
(***************************************************************************)
(* Live terminal events: the bounded broker SurfaceEventHub                *)
(* (crates/sharecli-session/src/events.rs) and the connection tasks of     *)
(* serve_surface_unix_with_events (crates/sharecli-session/src/rpc.rs)     *)
(* that subscribe, poll the broker every 25 ms and write to their socket.  *)
(*                                                                         *)
(* The broker is one Mutex.  A publish splits its payload into chunks and  *)
(* keeps the mutex for all of them; a chunk is a step and the others wait  *)
(* while `publishing` has chunks left.  A connection is one task: while it *)
(* writes it neither polls nor serves requests.                            *)
(*                                                                         *)
(* The content of an event is left out; its sequence number and whether it *)
(* is a Dropped marker are what is told apart.                             *)
(***************************************************************************)
EXTENDS Naturals, Sequences, FiniteSets

CONSTANTS
    Conns, Surfaces,
    Filters,        \* the surface_id values of requests; "any" is none given
    Capacities,     \* the queue_capacity values of requests
    ChunkSizes,     \* the max_chunk_bytes values of requests
    FromSeqs,       \* the from_seq values of requests
    Lengths,        \* payload lengths
    MaxDrain,       \* events drained per subscription and tick (32)
    MaxSubscriptions, MaxSeq    \* bounds: subscriptions and events ever made

ASSUME SurfaceAssumption ==
    /\ Capacities \subseteq Nat \ {0} /\ ChunkSizes \subseteq Nat \ {0}
    /\ FromSeqs \subseteq Nat /\ Lengths \subseteq Nat
    /\ MaxDrain \in Nat \ {0} /\ MaxSubscriptions \in Nat /\ MaxSeq \in Nat

SubIds == 1..MaxSubscriptions
NoSub == [queue_capacity |-> 0]
NoPublish == [surface |-> "none", left |-> 0]

VARIABLES
    next_seq, next_subscription,
    subscriptions,  \* [SubIds -> SubscriptionState or NoSub]
    publishing,     \* the surface and the chunks left of the publish under way
    open,           \* [Conns -> BOOLEAN]
    conn_subs,      \* [Conns -> Seq(SubIds)]: the task's own list
    todo,           \* [Conns -> Seq(SubIds)]: what the tick has still to drain
    writing         \* [Conns -> Seq(events)]: drained, not yet written

hubVars == <<next_seq, next_subscription, subscriptions, publishing>>
connVars == <<open, conn_subs, todo, writing>>
surfaceVars == <<hubVars, connVars>>

SurfaceInit ==
    /\ next_seq = 0 /\ next_subscription = 0
    /\ subscriptions = [i \in SubIds |-> NoSub]
    /\ publishing = NoPublish
    /\ open = [c \in Conns |-> TRUE]
    /\ conn_subs = [c \in Conns |-> << >>]
    /\ todo = [c \in Conns |-> << >>]
    /\ writing = [c \in Conns |-> << >>]

HubFree == publishing.left = 0
Idle(c) == open[c] /\ todo[c] = << >> /\ writing[c] = << >>
Live(i) == subscriptions[i] # NoSub
-----------------------------------------------------------------------------
LargerOf(a, b) == IF a >= b THEN a ELSE b

\* surface.io.subscribe; `seen`, `lost` and `losses` are history: the newest
\* sequence number drained, the newest event that overflow threw away and no
\* drained marker has announced (0 is none), and how many it threw away.
Subscribe(c, surface, from, chunk, capacity) ==
    /\ Idle(c) /\ HubFree
    /\ next_subscription < MaxSubscriptions
    /\ next_subscription' = next_subscription + 1
    /\ subscriptions' = [subscriptions EXCEPT ![next_subscription'] =
          [surface_id |-> surface, from_seq |-> LargerOf(next_seq + 1, from),
           max_chunk_bytes |-> chunk, queue_capacity |-> capacity,
           queue |-> << >>, dropped |-> 0,
           seen |-> 0, lost |-> 0, losses |-> 0]]
    /\ conn_subs' = [conn_subs EXCEPT ![c] = Append(@, next_subscription')]
    /\ UNCHANGED <<next_seq, publishing, open, todo, writing>>

\* surface.io.unsubscribe: any id, also one of another connection
Unsubscribe(c, i) ==
    /\ Idle(c) /\ HubFree
    /\ subscriptions' = [subscriptions EXCEPT ![i] = NoSub]
    /\ conn_subs' = [conn_subs EXCEPT ![c] = SelectSeq(@, LAMBDA j : j # i)]
    /\ UNCHANGED <<next_seq, next_subscription, publishing, open, todo, writing>>

Matches(i, surface) ==
    Live(i) /\ subscriptions[i].surface_id \in {"any", surface}

\* The smallest max_chunk_bytes of the matching subscriptions
ChunkLimits(surface) ==
    {subscriptions[i].max_chunk_bytes : i \in {j \in SubIds : Matches(j, surface)}}

\* How many chunks a payload makes: an empty one is sent as one event, and
\* without subscribers it stays whole.
Chunks(surface, length, limit) ==
    IF length = 0 \/ ChunkLimits(surface) = {} THEN 1
    ELSE (length + limit - 1) \div limit

Publish(surface, length) ==
    /\ HubFree
    /\ \E limit \in ChunkLimits(surface) \cup {1} :
          /\ \A l \in ChunkLimits(surface) : limit <= l
          /\ limit \in ChunkLimits(surface) \/ ChunkLimits(surface) = {}
          /\ next_seq + Chunks(surface, length, limit) <= MaxSeq
          /\ publishing' = [surface |-> surface,
                            left |-> Chunks(surface, length, limit)]
    /\ UNCHANGED <<next_seq, next_subscription, subscriptions, connVars>>

Event(seq) == [seq |-> seq, kind |-> "Event", dropped |-> 0]
Marker(seq, dropped) == [seq |-> seq, kind |-> "Dropped", dropped |-> dropped]

\* The sequence number of an event that is thrown away, 0 for a marker
Thrown(entry) == IF entry.kind = "Event" THEN entry.seq ELSE 0
Counted(seq) == IF seq > 0 THEN 1 ELSE 0

\* Mutant: the marker is queued behind the event.
Overflow_MarkerLast(sub, seq) ==
    LET rest == Tail(sub.queue)
        marker == Marker(seq - 1, sub.dropped + 1)
    IN  [sub EXCEPT !.queue = IF sub.queue_capacity = 1 THEN <<marker>>
                              ELSE Append(Append(Tail(rest), Event(seq)), marker),
                    !.dropped = sub.dropped + 1,
                    !.losses = sub.losses + 1]

\* Mutant: no second marker while one is queued.
Overflow_OneMarker(sub, seq) ==
    LET rest == Tail(sub.queue)
        marked == \E k \in DOMAIN sub.queue : sub.queue[k].kind = "Dropped"
        marker == Marker(seq - 1, sub.dropped + 1)
        first == Thrown(sub.queue[1])
        second == IF marked THEN 0 ELSE IF sub.queue_capacity = 1 THEN seq
                  ELSE Thrown(sub.queue[2])
    IN  [sub EXCEPT !.queue = IF marked THEN Append(rest, Event(seq))
                              ELSE IF sub.queue_capacity = 1 THEN <<marker>>
                              ELSE Append(Append(Tail(rest), marker), Event(seq)),
                    !.dropped = sub.dropped + 1,
                    !.lost = LargerOf(LargerOf(sub.lost, first), second),
                    !.losses = sub.losses + Counted(first) + Counted(second)]

\* Mutant: every entry taken out is counted.
Overflow_CountsPops(sub, seq) ==
    LET rest == Tail(sub.queue)
        marker == Marker(seq - 1, sub.dropped + 2)
        first == Thrown(sub.queue[1])
        second == IF sub.queue_capacity = 1 THEN seq ELSE Thrown(sub.queue[2])
    IN  [sub EXCEPT !.queue = IF sub.queue_capacity = 1 THEN <<marker>>
                              ELSE Append(Append(Tail(rest), marker), Event(seq)),
                    !.dropped = sub.dropped + 2,
                    !.lost = LargerOf(LargerOf(sub.lost, first), second),
                    !.losses = sub.losses + Counted(first) + Counted(second)]

\* enqueue when the queue is full: the oldest entries make room for the event
\* and for a marker in front of it; a queue of one entry keeps the marker and
\* not the event.
Overflow(sub, seq) ==
    LET rest == Tail(sub.queue)
        twice == Len(rest) + 2 > sub.queue_capacity
        marker == Marker(seq - 1, sub.dropped + 1)
        first == Thrown(sub.queue[1])
        second == IF sub.queue_capacity = 1 THEN seq
                  ELSE IF twice THEN Thrown(sub.queue[2]) ELSE 0
    IN  [sub EXCEPT !.queue =
                        IF sub.queue_capacity = 1 THEN <<marker>>
                        ELSE Append(Append(IF twice THEN Tail(rest) ELSE rest, marker),
                                    Event(seq)),
                    !.dropped = sub.dropped + 1,
                    !.lost = LargerOf(LargerOf(sub.lost, first), second),
                    !.losses = sub.losses + Counted(first) + Counted(second)]

enqueue(sub, seq) ==
    IF Len(sub.queue) < sub.queue_capacity
    THEN [sub EXCEPT !.queue = Append(sub.queue, Event(seq))]
    ELSE Overflow(sub, seq)

PublishChunk ==
    /\ publishing.left > 0
    /\ next_seq' = next_seq + 1
    /\ publishing' = IF publishing.left = 1 THEN NoPublish
                     ELSE [publishing EXCEPT !.left = @ - 1]
    /\ subscriptions' = [i \in SubIds |->
          IF Matches(i, publishing.surface) /\ next_seq' >= subscriptions[i].from_seq
          THEN enqueue(subscriptions[i], next_seq') ELSE subscriptions[i]]
    /\ UNCHANGED <<next_subscription, connVars>>
-----------------------------------------------------------------------------
\* The tick: every subscription of the connection's list is visited.
StartTick(c) ==
    /\ Idle(c)
    /\ todo' = [todo EXCEPT ![c] = conn_subs[c]]
    /\ UNCHANGED <<hubVars, open, conn_subs, writing>>

\* A marker announces the losses up to its own sequence number; in a queue
\* of one entry it replaces the event that comes after it.
Announces(sub, entry) ==
    /\ entry.kind = "Dropped"
    /\ entry.seq + (IF sub.queue_capacity = 1 THEN 1 ELSE 0) >= sub.lost

Drained(sub, n) ==
    IF n = 0 THEN sub
    ELSE [sub EXCEPT !.queue = SubSeq(sub.queue, n + 1, Len(sub.queue)),
                     !.seen = sub.queue[n].seq,
                     !.lost = IF \E k \in 1..n : Announces(sub, sub.queue[k])
                              THEN 0 ELSE sub.lost]

\* Mutant: an unknown subscription ends the tick.
Drain_StopsAtUnknown(c) ==
    /\ open[c] /\ todo[c] # << >> /\ writing[c] = << >> /\ HubFree
    /\ LET i == Head(todo[c])
           sub == subscriptions[i]
           n == IF MaxDrain < Len(sub.queue) THEN MaxDrain ELSE Len(sub.queue)
       IN  IF Live(i)
           THEN /\ todo' = [todo EXCEPT ![c] = Tail(@)]
                /\ writing' = [writing EXCEPT ![c] = SubSeq(sub.queue, 1, n)]
                /\ subscriptions' = [subscriptions EXCEPT ![i] = Drained(sub, n)]
           ELSE /\ todo' = [todo EXCEPT ![c] = << >>]
                /\ UNCHANGED <<writing, subscriptions>>
    /\ UNCHANGED <<next_seq, next_subscription, publishing, open, conn_subs>>

\* drain: an unknown subscription is passed over.
Drain(c) ==
    /\ open[c] /\ todo[c] # << >> /\ writing[c] = << >> /\ HubFree
    /\ todo' = [todo EXCEPT ![c] = Tail(@)]
    /\ LET i == Head(todo[c])
           sub == subscriptions[i]
           n == IF MaxDrain < Len(sub.queue) THEN MaxDrain ELSE Len(sub.queue)
       IN  IF Live(i)
           THEN /\ writing' = [writing EXCEPT ![c] = SubSeq(sub.queue, 1, n)]
                /\ subscriptions' = [subscriptions EXCEPT ![i] = Drained(sub, n)]
           ELSE UNCHANGED <<writing, subscriptions>>
    /\ UNCHANGED <<next_seq, next_subscription, publishing, open, conn_subs>>

Write(c) ==
    /\ open[c] /\ writing[c] # << >>
    /\ writing' = [writing EXCEPT ![c] = Tail(@)]
    /\ UNCHANGED <<hubVars, open, conn_subs, todo>>

\* End of file, a read error or a failed write ends the task.  Its
\* subscriptions stay in the broker.
Close(c) ==
    /\ Idle(c) \/ (open[c] /\ writing[c] # << >>)
    /\ open' = [open EXCEPT ![c] = FALSE]
    /\ conn_subs' = [conn_subs EXCEPT ![c] = << >>]
    /\ todo' = [todo EXCEPT ![c] = << >>]
    /\ writing' = [writing EXCEPT ![c] = << >>]
    /\ UNCHANGED hubVars

SurfaceNext ==
    \/ \E c \in Conns, surface \in Filters, from \in FromSeqs,
          chunk \in ChunkSizes, capacity \in Capacities :
          Subscribe(c, surface, from, chunk, capacity)
    \/ \E c \in Conns, i \in SubIds : Unsubscribe(c, i)
    \/ \E surface \in Surfaces, length \in Lengths : Publish(surface, length)
    \/ PublishChunk
    \/ \E c \in Conns : StartTick(c) \/ Drain(c) \/ Write(c) \/ Close(c)

\* The interval keeps ticking, the mutex is released, and a client that
\* stays connected reads what is written to it.
SurfaceFairness ==
    /\ WF_surfaceVars(PublishChunk)
    /\ \A c \in Conns : /\ WF_surfaceVars(StartTick(c))
                        /\ WF_surfaceVars(Drain(c)) /\ WF_surfaceVars(Write(c))

SurfaceSpec == SurfaceInit /\ [][SurfaceNext]_surfaceVars /\ SurfaceFairness
-----------------------------------------------------------------------------
\* What a subscriber gets is in order: entries leave a queue with sequence
\* numbers that never go back, an event is never sent twice, and a marker
\* stands before the events it precedes, whatever overflow took out.
EventsInOrder ==
    \A i \in SubIds : Live(i) =>
        LET q == subscriptions[i].queue IN
        /\ \A k, l \in DOMAIN q : k < l =>
              /\ q[k].seq <= q[l].seq
              /\ q[l].kind = "Event" => q[k].seq < q[l].seq
        /\ \A k \in DOMAIN q : /\ subscriptions[i].seen <= q[k].seq
                               /\ q[k].kind = "Event" => subscriptions[i].seen < q[k].seq
                               /\ q[k].seq <= next_seq

\* No event is lost silently: until a marker that stands at or after the
\* newest event thrown away has been drained, one is queued, although
\* overflow throws markers away as well.
LossAnnounced ==
    \A i \in SubIds : Live(i) /\ subscriptions[i].lost > 0 =>
        \E k \in DOMAIN subscriptions[i].queue :
            Announces(subscriptions[i], subscriptions[i].queue[k])

\* `dropped`, which markers report, never exceeds the number of events lost
\* and is at least half of it: an overflow drops up to two events, counts one
\* entry, and the entry may be a marker.
DropCountBounds ==
    \A i \in SubIds : Live(i) =>
        LET sub == subscriptions[i]
        IN  sub.dropped <= sub.losses /\ sub.losses <= 2 * sub.dropped

\* A subscriber that stays connected and subscribed is sent all that is
\* queued for it.
Owned(i) == Live(i) /\ \E c \in Conns : \E k \in DOMAIN conn_subs[c] : conn_subs[c][k] = i

SubscriberServed ==
    \A i \in SubIds :
        (Owned(i) /\ subscriptions[i].queue # << >>)
          ~> (~Owned(i) \/ subscriptions[i].queue = << >>)
=============================================================================
