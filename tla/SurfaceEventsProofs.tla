------------------------- MODULE SurfaceEventsProofs -------------------------
(***************************************************************************)
(* What a subscriber of live terminal events is promised, for every        *)
(* number of connections, subscriptions and events and for every queue     *)
(* capacity and drain size.                                                *)
(*                                                                         *)
(* The facts are about one subscription: SubOK holds of a new one, and     *)
(* enqueue (EnqueueKeeps) and drain (DrainKeeps) preserve it.  Beyond the  *)
(* three properties it says what an overflow relies on: in a queue of two  *)
(* or more entries no two markers are neighbours and the last entry is an  *)
(* event, so that an overflow takes out at least one event, and no event   *)
(* later than next_seq is lost, so that the marker it adds announces every *)
(* loss so far.                                                            *)
(***************************************************************************)
EXTENDS SurfaceEvents, TLAPS

\* A leaf is tried with SMT, then with Zenon, with time to spare on a busy machine.
USE SMTT(30), ZenonT(30)

Entry == [seq : Nat, kind : {"Event", "Dropped"}, dropped : Nat]

SubRec == [surface_id : Filters, from_seq : Nat, max_chunk_bytes : Nat,
           queue_capacity : Nat \ {0}, queue : Seq(Entry), dropped : Nat,
           seen : Nat, lost : Nat, losses : Nat]

InOrder(sub, n) ==
    /\ sub.seen <= n
    /\ \A k, l \in DOMAIN sub.queue : k < l =>
          /\ sub.queue[k].seq <= sub.queue[l].seq
          /\ sub.queue[l].kind = "Event" => sub.queue[k].seq < sub.queue[l].seq
    /\ \A k \in DOMAIN sub.queue :
          /\ sub.seen <= sub.queue[k].seq
          /\ sub.queue[k].kind = "Event" => sub.seen < sub.queue[k].seq
          /\ sub.queue[k].seq <= n

Announced(sub, n) ==
    /\ sub.lost <= n
    /\ sub.lost > 0 => \E k \in DOMAIN sub.queue : Announces(sub, sub.queue[k])

Apart(sub) ==
    /\ Len(sub.queue) <= sub.queue_capacity
    /\ sub.queue_capacity > 1 =>
          \A k \in DOMAIN sub.queue : sub.queue[k].kind = "Dropped" =>
              k + 1 \in DOMAIN sub.queue /\ sub.queue[k + 1].kind = "Event"

Tallied(sub) == sub.dropped <= sub.losses /\ sub.losses <= 2 * sub.dropped

SubOK(sub, n) ==
    InOrder(sub, n) /\ Announced(sub, n) /\ Apart(sub) /\ Tallied(sub)

\* The inductive invariant
HubIInv ==
    /\ next_seq \in Nat
    /\ subscriptions \in [SubIds -> SubRec \cup {NoSub}]
    /\ \A i \in SubIds : Live(i) => SubOK(subscriptions[i], next_seq)
-----------------------------------------------------------------------------
\* An event that finds room is appended.
LEMMA AppendKeeps ==
    ASSUME NEW sub \in SubRec, NEW n \in Nat, SubOK(sub, n),
           Len(sub.queue) < sub.queue_capacity,
           NEW new, new = [sub EXCEPT !.queue = Append(sub.queue, Event(n + 1))]
    PROVE  new \in SubRec /\ SubOK(new, n + 1)
<1> DEFINE q == sub.queue
           r == Append(q, Event(n + 1))
<1>1. Event(n + 1) \in Entry
  BY DEF Event, Entry
<1>2. q \in Seq(Entry) /\ r \in Seq(Entry)
  BY <1>1 DEF SubRec
<1>3. new \in SubRec /\ new.queue = r /\ new.queue_capacity = sub.queue_capacity
      /\ new.lost = sub.lost /\ new.seen = sub.seen
      /\ new.dropped = sub.dropped /\ new.losses = sub.losses
  BY <1>2, Zenon DEF SubRec
<1>4. /\ DOMAIN q = 1..Len(q) /\ DOMAIN r = 1..(Len(q) + 1) /\ Len(q) \in Nat
      /\ Len(r) = Len(q) + 1
      /\ \A k \in 1..Len(q) : r[k] = q[k] /\ q[k] \in Entry
      /\ r[Len(q) + 1] = Event(n + 1)
  BY <1>1, <1>2
<1> HIDE DEF q, r
<1>q. sub.queue = q BY DEF q
<1>e. Event(n + 1).seq = n + 1 /\ Event(n + 1).kind = "Event"
  BY DEF Event
<1>o. /\ sub.seen \in Nat /\ sub.lost \in Nat /\ sub.queue_capacity \in Nat
      /\ \A k \in 1..Len(q) : q[k].seq \in Nat
  BY <1>4 DEF SubRec, Entry
<1>5. InOrder(new, n + 1)
  <2>1. ASSUME NEW k \in 1..(Len(q) + 1)
        PROVE  /\ sub.seen <= r[k].seq /\ r[k].seq <= n + 1
               /\ r[k].kind = "Event" => sub.seen < r[k].seq
               /\ k <= Len(q) => r[k].seq < n + 1
    <3>1. CASE k \in 1..Len(q)
      BY <3>1, <1>4, <1>o, <1>q DEF SubOK, InOrder
    <3>2. CASE k = Len(q) + 1
      <4>1. sub.seen <= n
        BY DEF SubOK, InOrder
      <4> QED BY <3>2, <4>1, <1>4, <1>e, <1>o
    <3> QED BY <3>1, <3>2, <1>4
  <2>2. ASSUME NEW k \in 1..(Len(q) + 1), NEW l \in 1..(Len(q) + 1), k < l
        PROVE  /\ r[k].seq <= r[l].seq
               /\ r[l].kind = "Event" => r[k].seq < r[l].seq
    <3>1. CASE l \in 1..Len(q)
      <4>1. k \in 1..Len(q)
        BY <3>1, <2>2, <1>4
      <4> QED BY <3>1, <4>1, <2>2, <1>4, <1>q DEF SubOK, InOrder
    <3>2. CASE l = Len(q) + 1
      <4>1. k \in 1..Len(q)
        BY <3>2, <2>2, <1>4
      <4> QED BY <3>2, <4>1, <2>1, <1>4, <1>e, <1>o
    <3> QED BY <3>1, <3>2, <1>4
  <2>3. sub.seen <= n + 1
    BY <1>o DEF SubOK, InOrder
  <2> QED BY <2>1, <2>2, <2>3, <1>3, <1>4 DEF InOrder
<1>6. Announced(new, n + 1)
  <2>1. sub.lost <= n + 1
    BY <1>o DEF SubOK, Announced
  <2>2. ASSUME sub.lost > 0
        PROVE  \E k \in DOMAIN r : Announces(new, r[k])
    <3>1. PICK k \in DOMAIN q : Announces(sub, q[k])
      BY <2>2, <1>q DEF SubOK, Announced
    <3>2. k \in DOMAIN r /\ r[k] = q[k]
      BY <1>4
    <3> QED BY <3>1, <3>2, <1>3 DEF Announces
  <2> QED BY <2>1, <2>2, <1>3, Zenon DEF Announced
<1>7. Apart(new)
  <2>1. Len(r) <= sub.queue_capacity
    BY <1>4, <1>o, <1>q
  <2>2. ASSUME sub.queue_capacity > 1, NEW k \in DOMAIN r, r[k].kind = "Dropped"
        PROVE  k + 1 \in DOMAIN r /\ r[k + 1].kind = "Event"
    <3>1. k \in 1..Len(q) /\ q[k].kind = "Dropped"
      BY <2>2, <1>4, <1>e
    <3>2. k + 1 \in 1..Len(q) /\ q[k + 1].kind = "Event"
      BY <3>1, <2>2, <1>4, <1>q DEF SubOK, Apart
    <3> QED BY <3>2, <1>4
  <2> QED BY <2>1, <2>2, <1>3 DEF Apart
<1>8. Tallied(new)
  BY <1>3 DEF SubOK, Tallied
<1> QED BY <1>3, <1>5, <1>6, <1>7, <1>8 DEF SubOK

\* What is known of the fields of a subscription.
LEMMA SubFields ==
    ASSUME NEW sub \in SubRec
    PROVE  /\ sub.queue \in Seq(Entry) /\ sub.queue_capacity \in Nat \ {0}
           /\ sub.seen \in Nat /\ sub.lost \in Nat
           /\ sub.dropped \in Nat /\ sub.losses \in Nat
           /\ DOMAIN sub.queue = 1..Len(sub.queue) /\ Len(sub.queue) \in Nat
           /\ \A k \in 1..Len(sub.queue) :
                 /\ sub.queue[k] \in Entry /\ sub.queue[k].seq \in Nat
                 /\ sub.queue[k].kind \in {"Event", "Dropped"}
<1>1. /\ sub.queue \in Seq(Entry) /\ sub.queue_capacity \in Nat \ {0}
      /\ sub.seen \in Nat /\ sub.lost \in Nat
      /\ sub.dropped \in Nat /\ sub.losses \in Nat
  BY DEF SubRec
<1>2. DOMAIN sub.queue = 1..Len(sub.queue) /\ Len(sub.queue) \in Nat
  BY <1>1
<1>3. ASSUME NEW k \in 1..Len(sub.queue)
      PROVE  /\ sub.queue[k] \in Entry /\ sub.queue[k].seq \in Nat
             /\ sub.queue[k].kind \in {"Event", "Dropped"}
  <2>1. sub.queue[k] \in Entry
    BY <1>1
  <2> QED BY <2>1 DEF Entry
<1> QED BY <1>1, <1>2, <1>3

\* Overflow of a queue of one entry leaves the marker alone.
LEMMA OverflowOneKeeps ==
    ASSUME NEW sub \in SubRec, NEW n \in Nat, SubOK(sub, n),
           sub.queue_capacity = 1, Len(sub.queue) >= 1
    PROVE  Overflow(sub, n + 1) \in SubRec /\ SubOK(Overflow(sub, n + 1), n + 1)
<1> DEFINE new == Overflow(sub, n + 1)
           first == Thrown(sub.queue[1])
           marker == Marker(n, sub.dropped + 1)
<1>1. Len(sub.queue) = 1 /\ 1 \in 1..Len(sub.queue)
  <2>1. Len(sub.queue) \in Nat
    BY SubFields
  <2>2. Len(sub.queue) <= 1
    BY DEF SubOK, Apart
  <2>3. \A x \in Nat : x >= 1 /\ x <= 1 => x = 1
    OBVIOUS
  <2>4. Len(sub.queue) = 1
    BY <2>1, <2>2, <2>3, Zenon
  <2>5. 1 \in 1..1
    OBVIOUS
  <2> QED BY <2>4, <2>5
<1>2. /\ first \in Nat /\ first <= n
      /\ Counted(first) \in {0, 1} /\ Counted(n + 1) = 1
  <2>1. sub.queue[1].seq \in Nat /\ sub.queue[1].seq <= n
    BY <1>1, SubFields DEF SubOK, InOrder
  <2> QED BY <2>1 DEF Thrown, Counted
<1>3. marker \in Entry /\ marker.seq = n /\ marker.kind = "Dropped"
  BY SubFields DEF Marker, Entry
<1>4. LargerOf(LargerOf(sub.lost, first), n + 1) = n + 1
  BY <1>2, SubFields DEF LargerOf, SubOK, Announced
<1>5. new = [sub EXCEPT !.queue = <<marker>>, !.dropped = sub.dropped + 1,
                        !.lost = n + 1, !.losses = sub.losses + Counted(first) + 1]
  <2>1. (n + 1) - 1 = n OBVIOUS
  <2> HIDE DEF marker, first
  <2>2. Overflow(sub, n + 1) =
           [sub EXCEPT !.queue = <<marker>>, !.dropped = sub.dropped + 1,
                       !.lost = LargerOf(LargerOf(sub.lost, first), n + 1),
                       !.losses = sub.losses + Counted(first) + Counted(n + 1)]
    BY <2>1, Zenon DEF Overflow, marker, first
  <2> QED BY <2>2, <1>2, <1>4, Zenon
<1> HIDE DEF new, marker, first
<1>6. /\ new \in SubRec /\ new.queue = <<marker>> /\ new.queue_capacity = 1
      /\ new.lost = n + 1 /\ new.seen = sub.seen /\ new.dropped = sub.dropped + 1
      /\ new.losses = sub.losses + Counted(first) + 1
  <2>1. <<marker>> \in Seq(Entry) /\ sub.dropped + 1 \in Nat /\ n + 1 \in Nat
        /\ sub.losses + Counted(first) + 1 \in Nat
    BY <1>2, <1>3, SubFields
  <2> QED BY <2>1, <1>5, Zenon DEF SubRec
<1>7. InOrder(new, n + 1)
  <2>1. DOMAIN new.queue = {1} /\ new.queue[1] = marker
    BY <1>6
  <2>2. sub.seen <= n /\ sub.seen \in Nat
    BY SubFields DEF SubOK, InOrder
  <2> QED BY <2>1, <2>2, <1>3, <1>6 DEF InOrder
<1>8. Announced(new, n + 1)
  BY <1>3, <1>6 DEF Announced, Announces
<1>9. Apart(new) /\ Tallied(new)
  <2>1. sub.dropped \in Nat /\ sub.losses \in Nat
    BY SubFields
  <2>2. sub.dropped <= sub.losses /\ sub.losses <= 2 * sub.dropped
    BY DEF SubOK, Tallied
  <2>3. Tallied(new)
    BY <2>1, <2>2, <1>2, <1>6 DEF Tallied
  <2>4. Len(<<marker>>) = 1
    OBVIOUS
  <2> QED BY <2>3, <2>4, <1>6 DEF Apart
<1> QED BY <1>6, <1>7, <1>8, <1>9 DEF SubOK, new

\* Tail drops the first entry.
LEMMA TailEntries ==
    ASSUME NEW S, NEW q \in Seq(S), Len(q) >= 1
    PROVE  /\ Tail(q) \in Seq(S) /\ Len(Tail(q)) = Len(q) - 1
           /\ \A k \in 1..(Len(q) - 1) : Tail(q)[k] = q[k + 1]
OBVIOUS

\* Overflow of a larger queue takes out two entries, one of them an event,
\* and queues the marker and the new event.
LEMMA OverflowManyKeeps ==
    ASSUME NEW sub \in SubRec, NEW n \in Nat, SubOK(sub, n),
           sub.queue_capacity > 1, Len(sub.queue) >= sub.queue_capacity
    PROVE  Overflow(sub, n + 1) \in SubRec /\ SubOK(Overflow(sub, n + 1), n + 1)
<1> DEFINE new == Overflow(sub, n + 1)
           q == sub.queue
           L == Len(q)
           first == Thrown(q[1])
           second == Thrown(q[2])
           marker == Marker(n, sub.dropped + 1)
           r == Append(Append(Tail(Tail(q)), marker), Event(n + 1))
           lost == LargerOf(LargerOf(sub.lost, first), second)
<1>1. /\ q \in Seq(Entry) /\ L \in Nat /\ DOMAIN q = 1..L
      /\ L >= 2 /\ L = sub.queue_capacity
      /\ \A k \in 1..L : /\ q[k] \in Entry /\ q[k].seq \in Nat
                         /\ q[k].kind \in {"Event", "Dropped"}
      /\ sub.seen \in Nat /\ sub.lost \in Nat
      /\ sub.dropped \in Nat /\ sub.losses \in Nat
  <2>1. Len(sub.queue) <= sub.queue_capacity
    BY DEF SubOK, Apart
  <2>2. \A x, c \in Nat : c > 1 /\ x >= c /\ x <= c => x >= 2 /\ x = c
    OBVIOUS
  <2>3. L >= 2 /\ L = sub.queue_capacity
    BY <2>1, <2>2, SubFields
  <2> QED BY <2>3, SubFields
<1>2. marker \in Entry /\ marker.seq = n /\ marker.kind = "Dropped"
  BY <1>1 DEF Marker, Entry
<1>3. Event(n + 1) \in Entry /\ Event(n + 1).seq = n + 1 /\ Event(n + 1).kind = "Event"
  BY DEF Event, Entry
<1> HIDE DEF marker, L
<1>4. /\ r \in Seq(Entry) /\ Len(r) = L /\ DOMAIN r = 1..L
      /\ \A k \in 1..(L - 2) : r[k] = q[k + 2]
      /\ r[L - 1] = marker /\ r[L] = Event(n + 1)
  <2>1. /\ Tail(q) \in Seq(Entry) /\ Len(Tail(q)) = L - 1
        /\ \A k \in 1..(L - 1) : Tail(q)[k] = q[k + 1]
    BY <1>1 DEF L
  <2>2. /\ Tail(Tail(q)) \in Seq(Entry) /\ Len(Tail(Tail(q))) = L - 2
        /\ \A k \in 1..(L - 2) : Tail(Tail(q))[k] = Tail(q)[k + 1]
    <3> DEFINE t == Tail(q)
    <3> HIDE DEF t
    <3>1. t \in Seq(Entry) /\ Len(t) = L - 1 /\ Len(t) >= 1 /\ (L - 1) - 1 = L - 2
      BY <2>1, <1>1 DEF t
    <3>2. /\ Tail(t) \in Seq(Entry) /\ Len(Tail(t)) = Len(t) - 1
          /\ \A k \in 1..(Len(t) - 1) : Tail(t)[k] = t[k + 1]
      BY <3>1, TailEntries
    <3> QED BY <3>1, <3>2 DEF t
  <2>3. \A k \in 1..(L - 2) : Tail(Tail(q))[k] = q[k + 2]
    BY <2>1, <2>2, <1>1
  <2> DEFINE t == Tail(Tail(q))
             u == Append(t, marker)
  <2> HIDE DEF t
  <2>4. t \in Seq(Entry) /\ Len(t) = L - 2
    BY <2>2 DEF t
  <2>5. /\ u \in Seq(Entry) /\ Len(u) = L - 1
        /\ \A k \in 1..(L - 2) : u[k] = t[k]
        /\ u[L - 1] = marker
    BY <2>4, <1>1, <1>2
  <2> HIDE DEF u
  <2>6. /\ Append(u, Event(n + 1)) \in Seq(Entry) /\ Len(Append(u, Event(n + 1))) = L
        /\ \A k \in 1..(L - 1) : Append(u, Event(n + 1))[k] = u[k]
        /\ Append(u, Event(n + 1))[L] = Event(n + 1)
    BY <2>5, <1>1, <1>3
  <2>7. r = Append(u, Event(n + 1))
    BY DEF t, u
  <2> HIDE DEF r
  <2>8. r \in Seq(Entry) /\ Len(r) = L /\ DOMAIN r = 1..L
    BY <2>6, <2>7
  <2>9. r[L - 1] = marker /\ r[L] = Event(n + 1)
    <3>1. L - 1 \in 1..(L - 1)
      BY <1>1
    <3> QED BY <3>1, <2>5, <2>6, <2>7
  <2>10. ASSUME NEW k \in 1..(L - 2) PROVE r[k] = q[k + 2]
    <3>1. k \in 1..(L - 1)
      BY <1>1
    <3> QED BY <3>1, <2>3, <2>5, <2>6, <2>7, Zenon DEF t
  <2> QED BY <2>8, <2>9, <2>10
<1>5. /\ first \in Nat /\ first <= n /\ second \in Nat /\ second <= n
      /\ Counted(first) + Counted(second) \in {1, 2}
  <2>1. 1 \in 1..L /\ 2 \in 1..L
    BY <1>1
  <2>2. q[1].seq <= n /\ q[2].seq <= n
    BY <2>1, <1>1 DEF SubOK, InOrder
  <2>3. \A k \in {1, 2} : q[k].kind = "Event" => q[k].seq > 0
    BY <2>1, <1>1 DEF SubOK, InOrder
  <2>4. q[1].kind = "Event" \/ q[2].kind = "Event"
    <3>1. q[1].kind = "Dropped" => q[1 + 1].kind = "Event"
      BY <2>1, <1>1 DEF SubOK, Apart
    <3> QED BY <3>1, <2>1, <1>1
  <2> QED BY <2>1, <2>2, <2>3, <2>4, <1>1 DEF Thrown, Counted
<1>6. lost \in Nat /\ lost <= n
  BY <1>1, <1>5 DEF LargerOf, SubOK, Announced
<1>7. new = [sub EXCEPT !.queue = r, !.dropped = sub.dropped + 1, !.lost = lost,
                        !.losses = sub.losses + Counted(first) + Counted(second)]
  <2>1. (n + 1) - 1 = n /\ Len(Tail(q)) + 2 > sub.queue_capacity
    <3>1. Len(Tail(q)) = L - 1
      BY <1>1 DEF L
    <3> QED BY <3>1, <1>1
  <2>2. sub.queue_capacity # 1
    BY <1>1
  <2> QED BY <2>1, <2>2, Zenon DEF Overflow, marker
<1> HIDE DEF q, r, lost, first, second, new
<1>q. sub.queue = q BY DEF q
<1>L. L \in Nat /\ L >= 2
  BY <1>1
<1>8. /\ new \in SubRec /\ new.queue = r /\ new.queue_capacity = sub.queue_capacity
      /\ new.lost = lost /\ new.seen = sub.seen /\ new.dropped = sub.dropped + 1
      /\ new.losses = sub.losses + Counted(first) + Counted(second)
  <2>1. sub.losses + Counted(first) + Counted(second) \in Nat
    BY <1>1 DEF Counted
  <2>2. sub.dropped + 1 \in Nat /\ r \in Seq(Entry) /\ lost \in Nat
    BY <1>1, <1>4, <1>6
  <2> QED BY <2>1, <2>2, <1>7, Zenon DEF SubRec
<1>9. InOrder(new, n + 1)
  <2>0. sub.seen <= n
    BY DEF SubOK, InOrder
  <2>1. ASSUME NEW k \in 1..L
        PROVE  /\ sub.seen <= r[k].seq /\ r[k].seq <= n + 1 /\ r[k].seq \in Nat
               /\ r[k].kind = "Event" => sub.seen < r[k].seq
               /\ k < L => r[k].seq <= n
    <3>1. CASE k \in 1..(L - 2)
      <4>0. k + 2 \in 1..L
        BY <3>1, <1>L
      <4>1. k + 2 \in 1..L /\ r[k] = q[k + 2]
        BY <3>1, <4>0, <1>4
      <4>2. \A j \in 1..L : /\ sub.seen <= q[j].seq /\ q[j].seq <= n
                            /\ q[j].kind = "Event" => sub.seen < q[j].seq
        BY <1>1, <1>q DEF SubOK, InOrder
      <4>3. /\ sub.seen <= r[k].seq /\ r[k].seq <= n /\ r[k].seq \in Nat
            /\ r[k].kind = "Event" => sub.seen < r[k].seq
        BY <4>1, <4>2, <1>1
      <4>4. \A x \in Nat : x <= n => x <= n + 1
        OBVIOUS
      <4> QED BY <4>3, <4>4
    <3>2. CASE k = L - 1
      BY <3>2, <2>0, <1>1, <1>2, <1>4
    <3>3. CASE k = L
      BY <3>3, <2>0, <1>1, <1>3, <1>4
    <3>4. k \in 1..(L - 2) \/ k = L - 1 \/ k = L
      BY <1>L
    <3> QED BY <3>1, <3>2, <3>3, <3>4
  <2>2. ASSUME NEW k \in 1..L, NEW l \in 1..L, k < l
        PROVE  /\ r[k].seq <= r[l].seq
               /\ r[l].kind = "Event" => r[k].seq < r[l].seq
    <3>0. k < L
      BY <2>2, <1>1
    <3>1. CASE l \in 1..(L - 2)
      <4>1. k \in 1..(L - 2) /\ k + 2 \in 1..L /\ l + 2 \in 1..L /\ k + 2 < l + 2
        BY <3>1, <2>2, <1>L
      <4>2. \A i, j \in 1..L : i < j =>
               /\ q[i].seq <= q[j].seq
               /\ q[j].kind = "Event" => q[i].seq < q[j].seq
        BY <1>1, <1>q, Zenon DEF SubOK, InOrder
      <4> QED BY <3>1, <4>1, <4>2, <1>4
    <3>2. CASE l = L - 1
      BY <3>0, <3>2, <2>1, <1>2, <1>4
    <3>3. CASE l = L
      BY <3>0, <3>3, <2>1, <1>3, <1>4
    <3>4. l \in 1..(L - 2) \/ l = L - 1 \/ l = L
      BY <1>L
    <3> QED BY <3>1, <3>2, <3>3, <3>4
  <2>3. sub.seen <= n + 1
    BY <2>0, <1>1
  <2> QED BY <2>1, <2>2, <2>3, <1>4, <1>8 DEF InOrder
<1>10. Announced(new, n + 1)
  <2>1. L - 1 \in DOMAIN r /\ Announces(new, r[L - 1])
    BY <1>1, <1>2, <1>4, <1>6, <1>8 DEF Announces
  <2> QED BY <2>1, <1>6, <1>8 DEF Announced
<1>11. Apart(new)
  <2>1. ASSUME NEW k \in 1..L, r[k].kind = "Dropped"
        PROVE  k + 1 \in 1..L /\ r[k + 1].kind = "Event"
    <3>1. CASE k \in 1..(L - 2)
      <4>1. k + 2 \in 1..L /\ q[k + 2].kind = "Dropped"
        BY <3>1, <2>1, <1>1, <1>4
      <4>0. \A j \in 1..L : q[j].kind = "Dropped" =>
               j + 1 \in 1..L /\ q[j + 1].kind = "Event"
        BY <1>1, <1>q DEF SubOK, Apart
      <4>2. (k + 2) + 1 \in 1..L /\ q[(k + 2) + 1].kind = "Event"
        BY <4>0, <4>1
      <4>3. k + 1 \in 1..(L - 2) /\ (k + 1) + 2 = (k + 2) + 1
        BY <3>1, <4>2, <1>1
      <4> QED BY <4>2, <4>3, <1>1, <1>4
    <3>2. CASE k = L - 1
      BY <3>2, <1>1, <1>3, <1>4
    <3>3. CASE k = L
      BY <3>3, <2>1, <1>3, <1>4
    <3>4. k \in 1..(L - 2) \/ k = L - 1 \/ k = L
      BY <1>L
    <3> QED BY <3>1, <3>2, <3>3, <3>4
  <2>2. Len(new.queue) = L /\ DOMAIN new.queue = 1..L /\ L = new.queue_capacity
    BY <1>1, <1>4, <1>8
  <2>3. Len(new.queue) <= new.queue_capacity
    BY <2>2, <1>L
  <2> QED BY <2>1, <2>2, <2>3, <1>8 DEF Apart
<1>12. Tallied(new)
  <2>1. sub.dropped <= sub.losses /\ sub.losses <= 2 * sub.dropped
    BY DEF SubOK, Tallied
  <2>2. Counted(first) \in Nat /\ Counted(second) \in Nat
    BY DEF Counted
  <2>3. \A d, s \in Nat : \A c1, c2 \in Nat :
           d <= s /\ s <= 2 * d /\ c1 + c2 \in {1, 2} =>
              d + 1 <= s + c1 + c2 /\ s + c1 + c2 <= 2 * (d + 1)
    OBVIOUS
  <2>4. sub.dropped \in Nat /\ sub.losses \in Nat
    BY <1>1
  <2>5. /\ sub.dropped + 1 <= sub.losses + Counted(first) + Counted(second)
        /\ sub.losses + Counted(first) + Counted(second) <= 2 * (sub.dropped + 1)
    BY <2>1, <2>2, <2>3, <2>4, <1>5
  <2> QED BY <2>5, <1>8 DEF Tallied
<1> QED BY <1>8, <1>9, <1>10, <1>11, <1>12 DEF SubOK, new

\* enqueue keeps what is promised of a subscription.
LEMMA EnqueueKeeps ==
    ASSUME NEW sub \in SubRec, NEW n \in Nat, SubOK(sub, n)
    PROVE  enqueue(sub, n + 1) \in SubRec /\ SubOK(enqueue(sub, n + 1), n + 1)
<1>1. Len(sub.queue) \in Nat /\ sub.queue_capacity \in Nat \ {0}
  BY SubFields
<1>2. CASE Len(sub.queue) < sub.queue_capacity
  BY <1>2, AppendKeeps DEF enqueue
<1>3. CASE ~(Len(sub.queue) < sub.queue_capacity)
  <2>1. enqueue(sub, n + 1) = Overflow(sub, n + 1)
    BY <1>3 DEF enqueue
  <2>2. Len(sub.queue) >= sub.queue_capacity
    BY <1>1, <1>3
  <2>3. CASE sub.queue_capacity = 1
    BY <2>1, <2>2, <2>3, OverflowOneKeeps
  <2>4. CASE sub.queue_capacity > 1
    BY <2>1, <2>2, <2>4, OverflowManyKeeps
  <2> QED BY <2>3, <2>4, <1>1
<1> QED BY <1>2, <1>3

\* A promise kept up to one sequence number is kept up to the next.
LEMMA LaterKeeps ==
    ASSUME NEW sub \in SubRec, NEW n \in Nat, SubOK(sub, n)
    PROVE  SubOK(sub, n + 1)
<1>1. \A x \in Nat : x <= n => x <= n + 1
  OBVIOUS
<1>2. InOrder(sub, n + 1)
  BY <1>1, SubFields DEF SubOK, InOrder
<1>3. Announced(sub, n + 1)
  BY <1>1, SubFields DEF SubOK, Announced
<1> QED BY <1>2, <1>3 DEF SubOK

\* So does drain, which takes the first m entries.
LEMMA DrainKeeps ==
    ASSUME NEW sub \in SubRec, NEW n \in Nat, SubOK(sub, n),
           NEW m \in 0..Len(sub.queue)
    PROVE  Drained(sub, m) \in SubRec /\ SubOK(Drained(sub, m), n)
<1> DEFINE new == Drained(sub, m)
           q == sub.queue
           L == Len(q)
           r == SubSeq(q, m + 1, L)
           told == \E k \in 1..m : Announces(sub, q[k])
           lost == IF told THEN 0 ELSE sub.lost
<1>1. /\ q \in Seq(Entry) /\ L \in Nat /\ DOMAIN q = 1..L
      /\ \A k \in 1..L : /\ q[k] \in Entry /\ q[k].seq \in Nat
                         /\ q[k].kind \in {"Event", "Dropped"}
      /\ sub.seen \in Nat /\ sub.lost \in Nat
  BY SubFields
<1>2. CASE m = 0
  BY <1>2 DEF Drained
<1>3. CASE m # 0
  <2>1. m \in Nat /\ m >= 1 /\ m <= L /\ m \in 1..L /\ L \in Nat /\ L - m \in Nat
    BY <1>1, <1>3
  <2>2. /\ r \in Seq(Entry) /\ Len(r) = L - m /\ DOMAIN r = 1..(L - m)
        /\ \A k \in 1..(L - m) : r[k] = q[k + m]
    BY <2>1, <1>1
  <2>3. /\ \A j \in 1..L : /\ sub.seen <= q[j].seq /\ q[j].seq <= n
                           /\ q[j].kind = "Event" => sub.seen < q[j].seq
        /\ \A i, j \in 1..L : i < j => /\ q[i].seq <= q[j].seq
                                       /\ q[j].kind = "Event" => q[i].seq < q[j].seq
    BY <1>1, Zenon DEF SubOK, InOrder
  <2>4. new = [sub EXCEPT !.queue = r, !.seen = q[m].seq, !.lost = lost]
    BY <1>3 DEF Drained
  <2> HIDE DEF new, r, told, lost, L
  <2>5. q[m].seq \in Nat /\ q[m].seq <= n /\ lost \in Nat
    BY <2>1, <2>3, <1>1 DEF lost
  <2>6. /\ new \in SubRec /\ new.queue = r /\ new.seen = q[m].seq /\ new.lost = lost
        /\ new.queue_capacity = sub.queue_capacity
        /\ new.dropped = sub.dropped /\ new.losses = sub.losses
    BY <2>2, <2>4, <2>5, Zenon DEF SubRec
  <2>7. \A k \in 1..(L - m) : k + m \in 1..L /\ m < k + m
    BY <2>1
  <2>8. InOrder(new, n)
    <3>1. ASSUME NEW k \in 1..(L - m)
          PROVE  /\ q[m].seq <= r[k].seq /\ r[k].seq <= n
                 /\ r[k].kind = "Event" => q[m].seq < r[k].seq
      BY <2>1, <2>2, <2>3, <2>7, Zenon
    <3>2. ASSUME NEW k \in 1..(L - m), NEW l \in 1..(L - m), k < l
          PROVE  /\ r[k].seq <= r[l].seq
                 /\ r[l].kind = "Event" => r[k].seq < r[l].seq
      <4>1. k + m < l + m
        BY <3>2, <2>1
      <4> QED BY <4>1, <2>2, <2>3, <2>7, Zenon
    <3> QED BY <3>1, <3>2, <2>2, <2>5, <2>6 DEF InOrder
  <2>9. Announced(new, n)
    <3>1. lost <= n
      BY <1>1 DEF lost, SubOK, Announced
    <3>2. ASSUME lost > 0
          PROVE  \E k \in DOMAIN r : Announces(new, r[k])
      <4>1. ~told /\ lost = sub.lost
        BY <3>2 DEF lost
      <4>2. PICK j \in 1..L : Announces(sub, q[j])
        BY <4>1, <3>2, <1>1 DEF SubOK, Announced
      <4>3. j \notin 1..m
        BY <4>1, <4>2 DEF told
      <4>4. j - m \in 1..(L - m) /\ (j - m) + m = j
        BY <4>3, <2>1
      <4>5. r[j - m] = q[j]
        BY <4>4, <2>2
      <4>6. Announces(new, r[j - m])
        BY <4>1, <4>2, <4>5, <2>6 DEF Announces
      <4> QED BY <4>4, <4>6, <2>2
    <3> QED BY <3>1, <3>2, <2>6 DEF Announced
  <2>10. Apart(new)
    <3>1. Len(r) <= sub.queue_capacity
      <4>1. L <= sub.queue_capacity /\ sub.queue_capacity \in Nat
        BY SubFields DEF SubOK, Apart, L
      <4> QED BY <4>1, <2>1, <2>2
    <3>2. ASSUME sub.queue_capacity > 1, NEW k \in 1..(L - m), r[k].kind = "Dropped"
          PROVE  k + 1 \in 1..(L - m) /\ r[k + 1].kind = "Event"
      <4>1. \A j \in 1..L : q[j].kind = "Dropped" =>
               j + 1 \in 1..L /\ q[j + 1].kind = "Event"
        BY <3>2, <1>1, Zenon DEF SubOK, Apart
      <4>2. (k + m) + 1 \in 1..L /\ q[(k + m) + 1].kind = "Event"
        BY <4>1, <3>2, <2>2, <2>7
      <4>3. k + 1 \in 1..(L - m) /\ (k + 1) + m = (k + m) + 1
        BY <4>2, <2>1
      <4> QED BY <4>2, <4>3, <2>2
    <3> QED BY <3>1, <3>2, <2>2, <2>6 DEF Apart
  <2>11. Tallied(new)
    BY <2>6 DEF SubOK, Tallied
  <2> QED BY <2>6, <2>8, <2>9, <2>10, <2>11 DEF SubOK, new
<1> QED BY <1>2, <1>3
-----------------------------------------------------------------------------
\* A new subscription has promised nothing yet.
LEMMA NewSubOK ==
    ASSUME NEW sub \in SubRec, NEW n \in Nat, sub.queue = << >>, sub.seen = 0,
           sub.lost = 0, sub.dropped = 0, sub.losses = 0
    PROVE  SubOK(sub, n)
<1>1. DOMAIN sub.queue = {} /\ Len(sub.queue) = 0
  OBVIOUS
<1>2. sub.queue_capacity \in Nat
  BY SubFields
<1> QED BY <1>1, <1>2 DEF SubOK, InOrder, Announced, Apart, Tallied

\* A hub without subscriptions satisfies the invariant.
LEMMA HubInit == SurfaceInit => HubIInv
BY SurfaceAssumption DEF SurfaceInit, HubIInv, Live

\* Every step of the hub and of the connection tasks preserves it.
LEMMA HubStep == HubIInv /\ [SurfaceNext]_surfaceVars => HubIInv'
<1> SUFFICES ASSUME HubIInv, [SurfaceNext]_surfaceVars PROVE HubIInv'
  OBVIOUS
<1>0. /\ next_seq \in Nat /\ subscriptions \in [SubIds -> SubRec \cup {NoSub}]
      /\ \A i \in SubIds : subscriptions[i] # NoSub =>
            subscriptions[i] \in SubRec /\ SubOK(subscriptions[i], next_seq)
  BY DEF HubIInv, Live
<1>1. ASSUME UNCHANGED <<next_seq, subscriptions>> PROVE HubIInv'
  BY <1>0, <1>1 DEF HubIInv, Live
<1>2. ASSUME NEW i, NEW new, next_seq' = next_seq,
             subscriptions' = [subscriptions EXCEPT ![i] = new],
             new = NoSub \/ (new \in SubRec /\ SubOK(new, next_seq))
      PROVE  HubIInv'
  <2>1. subscriptions' \in [SubIds -> SubRec \cup {NoSub}]
    BY <1>0, <1>2, Zenon
  <2>2. ASSUME NEW j \in SubIds, subscriptions'[j] # NoSub
        PROVE  SubOK(subscriptions'[j], next_seq)
    <3>1. subscriptions'[j] = IF j = i THEN new ELSE subscriptions[j]
      BY <1>0, <1>2
    <3> QED BY <3>1, <2>2, <1>0, <1>2
  <2> QED BY <2>1, <2>2, <1>0, <1>2 DEF HubIInv, Live
<1>3. ASSUME NEW c \in Conns, NEW surface \in Filters, NEW from \in FromSeqs,
             NEW chunk \in ChunkSizes, NEW capacity \in Capacities,
             Subscribe(c, surface, from, chunk, capacity)
      PROVE  HubIInv'
  <2> DEFINE new == [surface_id |-> surface, from_seq |-> LargerOf(next_seq + 1, from),
                     max_chunk_bytes |-> chunk, queue_capacity |-> capacity,
                     queue |-> << >>, dropped |-> 0,
                     seen |-> 0, lost |-> 0, losses |-> 0]
  <2>1. LargerOf(next_seq + 1, from) \in Nat /\ chunk \in Nat /\ capacity \in Nat \ {0}
    BY <1>0, SurfaceAssumption DEF LargerOf
  <2>2. new \in SubRec
    BY <2>1 DEF SubRec
  <2>3. SubOK(new, next_seq)
    BY <2>2, <1>0, NewSubOK
  <2>4. next_seq' = next_seq /\
        subscriptions' = [subscriptions EXCEPT ![next_subscription'] = new]
    BY <1>3 DEF Subscribe
  <2> HIDE DEF new
  <2> QED BY <2>2, <2>3, <2>4, <1>2, Zenon
<1>4. ASSUME NEW c \in Conns, NEW i \in SubIds, Unsubscribe(c, i) PROVE HubIInv'
  BY <1>2, <1>4, Zenon DEF Unsubscribe
<1>5. ASSUME NEW surface \in Surfaces, NEW length \in Lengths, Publish(surface, length)
      PROVE  HubIInv'
  BY <1>1, <1>5 DEF Publish
<1>6. CASE PublishChunk
  <2>1. next_seq' = next_seq + 1 /\ next_seq' \in Nat
    BY <1>0, <1>6 DEF PublishChunk
  <2>2. ASSUME NEW i \in SubIds
        PROVE  /\ subscriptions'[i] \in SubRec \cup {NoSub}
               /\ subscriptions'[i] # NoSub => SubOK(subscriptions'[i], next_seq')
    <3>1. \/ subscriptions'[i] = subscriptions[i]
          \/ subscriptions[i] # NoSub
             /\ subscriptions'[i] = enqueue(subscriptions[i], next_seq')
      BY <1>6 DEF PublishChunk, Matches, Live
    <3>2. CASE subscriptions[i] = NoSub
      BY <3>1, <3>2
    <3>3. CASE subscriptions[i] # NoSub
      <4>1. subscriptions[i] \in SubRec /\ SubOK(subscriptions[i], next_seq)
        BY <3>3, <1>0
      <4>2. SubOK(subscriptions[i], next_seq')
        BY <4>1, <2>1, <1>0, LaterKeeps
      <4>3. /\ enqueue(subscriptions[i], next_seq') \in SubRec
            /\ SubOK(enqueue(subscriptions[i], next_seq'), next_seq')
        BY <4>1, <2>1, <1>0, EnqueueKeeps
      <4> QED BY <3>1, <4>1, <4>2, <4>3
    <3> QED BY <3>2, <3>3
  <2>3. subscriptions' \in [SubIds -> SubRec \cup {NoSub}]
    <3>1. subscriptions' = [i \in SubIds |-> subscriptions'[i]]
      BY <1>6 DEF PublishChunk
    <3> QED BY <3>1, <2>2
  <2> QED BY <2>1, <2>2, <2>3 DEF HubIInv, Live
<1>7. ASSUME NEW c \in Conns, Drain(c) PROVE HubIInv'
  <2> DEFINE i == Head(todo[c])
             sub == subscriptions[i]
             m == IF MaxDrain < Len(sub.queue) THEN MaxDrain ELSE Len(sub.queue)
  <2>1. CASE ~Live(i)
    BY <2>1, <1>1, <1>7 DEF Drain
  <2>2. CASE Live(i) /\ i \notin SubIds
    <3>1. subscriptions' = subscriptions
      BY <2>2, <1>0, <1>7 DEF Drain
    <3> QED BY <3>1, <1>1, <1>7 DEF Drain
  <2>3. CASE Live(i) /\ i \in SubIds
    <3>1. sub \in SubRec /\ SubOK(sub, next_seq)
      BY <2>3, <1>0 DEF Live
    <3>2. m \in 0..Len(sub.queue)
      <4>1. Len(sub.queue) \in Nat
        BY <3>1, SubFields
      <4> QED BY <4>1, SurfaceAssumption
    <3> DEFINE new == Drained(sub, m)
    <3>3. new \in SubRec /\ SubOK(new, next_seq)
      BY <3>1, <3>2, <1>0, DrainKeeps
    <3>4. next_seq' = next_seq /\ subscriptions' = [subscriptions EXCEPT ![i] = new]
      BY <2>3, <1>7 DEF Drain
    <3> HIDE DEF new, i
    <3> QED BY <3>3, <3>4, <1>2, Zenon
  <2> QED BY <2>1, <2>2, <2>3
<1>8. ASSUME NEW c \in Conns, StartTick(c) \/ Write(c) \/ Close(c) PROVE HubIInv'
  BY <1>1, <1>8 DEF StartTick, Write, Close, hubVars
<1>9. CASE UNCHANGED surfaceVars
  BY <1>1, <1>9 DEF surfaceVars, hubVars
<1> QED BY <1>3, <1>4, <1>5, <1>6, <1>7, <1>8, <1>9 DEF SurfaceNext

\* It holds in every reachable state.
LEMMA HubInvariant == SurfaceSpec => []HubIInv
BY HubInit, HubStep, PTL DEF SurfaceSpec

\* Entries leave a subscription's queue in order and no event twice,
\* whatever enqueue's overflow took out and however drain is cut.
THEOREM EventsStayInOrder == SurfaceSpec => []EventsInOrder
<1>1. HubIInv => EventsInOrder
  BY DEF HubIInv, EventsInOrder, SubOK, InOrder
<1> QED BY <1>1, HubInvariant, PTL

\* No event that enqueue throws away is lost silently.
THEOREM LossesAreAnnounced == SurfaceSpec => []LossAnnounced
<1>1. HubIInv => LossAnnounced
  BY DEF HubIInv, LossAnnounced, SubOK, Announced
<1> QED BY <1>1, HubInvariant, PTL

\* The count that markers report is between half of the losses and all.
THEOREM DropCountIsBounded == SurfaceSpec => []DropCountBounds
<1>1. HubIInv => DropCountBounds
  BY DEF HubIInv, DropCountBounds, SubOK, Tallied
<1> QED BY <1>1, HubInvariant, PTL
=============================================================================
