---------------------------- MODULE DaemonProofs ----------------------------
(***************************************************************************)
(* The two daemons, for any number of processes: the broker of teamcomm    *)
(* (any number of paths and ids) and the single-instance lock of           *)
(* `sharecli serve`.                                                       *)
(***************************************************************************)
EXTENDS TeamcommBroker, ServeLock, FiniteSetTheorems, TLAPS

\* A leaf is tried with SMT, then with Zenon, with time to spare on a busy machine.
USE SMTT(30), ZenonT(30)

-----------------------------------------------------------------------------
(* The broker's inboxes.                                                   *)

\* The inboxes: each is a sequence of messages, ids are minted in order and a
\* message is in one place.
Boxes ==
    /\ inbox \in [Sids -> Seq(Message)]
    /\ lastMid \in 0..MaxMessages
    /\ offered \in [Mids -> Nat] /\ picked \subseteq Mids

IdsUnique ==
    /\ \A s \in Sids : \A i \in DOMAIN inbox[s] : inbox[s][i].id <= lastMid
    /\ \A s, t \in Sids : \A i \in DOMAIN inbox[s], j \in DOMAIN inbox[t] :
          inbox[s][i].id = inbox[t][j].id => s = t /\ i = j
    /\ \A m \in Mids : m > lastMid => offered[m] = 0 /\ m \notin picked

InboxIInv == Boxes /\ IdsUnique /\ InboxInOrder /\ OfferedOnce

\* What inbox.list returns is closed downwards: a matching message before a
\* returned one is returned, too.
LEMMA ListedClosed ==
    ASSUME Boxes, NEW s \in Sids, NEW unread_only \in BOOLEAN, NEW limit \in Nat,
           NEW j \in Listed(s, unread_only, limit),
           NEW i \in Matching(s, unread_only), i < j
    PROVE  i \in Listed(s, unread_only, limit)
<1> DEFINE Below(k) == {x \in Matching(s, unread_only) : x < k}
<1>1. inbox[s] \in Seq(Message) /\ DOMAIN inbox[s] = 1..Len(inbox[s])
  BY DEF Boxes
<1>2. Len(inbox[s]) \in Nat /\ IsFiniteSet(1..Len(inbox[s]))
  <2>1. 1 \in Int /\ Len(inbox[s]) \in Nat /\ Len(inbox[s]) \in Int
    BY <1>1
  <2>2. IsFiniteSet(1..Len(inbox[s]))
    BY <2>1, FS_Interval, Zenon
  <2> QED BY <2>1, <2>2
<1>3. Matching(s, unread_only) \subseteq 1..Len(inbox[s])
  BY <1>1 DEF Matching
<1>4. j \in Nat /\ i \in Nat /\ \A x \in Matching(s, unread_only) : x \in Nat
  BY <1>3 DEF Listed
<1>5. IsFiniteSet(Below(j))
  BY <1>2, <1>3, FS_Subset
<1>6. Below(i) \subseteq Below(j)
  <2>1. \A x \in Matching(s, unread_only) : x < i => x < j
    BY <1>4
  <2> QED BY <2>1
<1>7. /\ IsFiniteSet(Below(i)) /\ Cardinality(Below(i)) <= Cardinality(Below(j))
      /\ Cardinality(Below(i)) \in Nat /\ Cardinality(Below(j)) \in Nat
  BY <1>5, <1>6, FS_Subset, FS_CardinalityType
<1>8. limit = 0 \/ Cardinality(Below(j)) < limit
  BY DEF Listed
<1>9. limit = 0 \/ Cardinality(Below(i)) < limit
  BY <1>7, <1>8
<1> QED BY <1>9 DEF Listed

\* Marking keeps length and ids and only sets flags.
LEMMA MarkedMessages ==
    ASSUME NEW msgs \in Seq(Message), NEW at
    PROVE  /\ Marked(msgs, at) \in Seq(Message)
           /\ DOMAIN Marked(msgs, at) = DOMAIN msgs
           /\ \A i \in DOMAIN msgs :
                 /\ Marked(msgs, at)[i].id = msgs[i].id
                 /\ Marked(msgs, at)[i].read <=> msgs[i].read \/ i \in at
<1>1. DOMAIN msgs = 1..Len(msgs) /\ Len(msgs) \in Nat
      /\ \A i \in DOMAIN msgs : msgs[i] \in Message
  OBVIOUS
<1>2. \A i \in DOMAIN msgs :
         /\ Marked(msgs, at)[i] \in Message
         /\ Marked(msgs, at)[i].id = msgs[i].id
         /\ Marked(msgs, at)[i].read <=> msgs[i].read \/ i \in at
  BY <1>1, Zenon DEF Marked, Message
<1>3. DOMAIN Marked(msgs, at) = 1..Len(msgs)
  BY <1>1 DEF Marked
<1>4. Marked(msgs, at) = [i \in 1..Len(msgs) |-> Marked(msgs, at)[i]]
  BY <1>1 DEF Marked
<1>5. Marked(msgs, at) \in Seq(Message)
  BY <1>1, <1>2, <1>3, <1>4
<1> QED BY <1>1, <1>2, <1>3, <1>5

\* The conjuncts of the inbox invariant under inbox.post ...
LEMMA PostStep ==
    ASSUME InboxIInv, NEW from \in Sids, NEW to \in Sids, Post(from, to)
    PROVE  InboxIInv'
<1> USE BrokerAssumption
<1> DEFINE m == [id |-> lastMid + 1, read |-> FALSE]
<1>1. /\ inbox' = [inbox EXCEPT ![to] = Append(inbox[to], m)]
      /\ lastMid' = lastMid + 1 /\ lastMid + 1 \in Mids
      /\ offered' = offered /\ picked' = picked
  BY DEF Post, InboxIInv, Boxes, Mids
<1>2. m \in Message /\ m.id = lastMid + 1 /\ m.read = FALSE
  BY <1>1 DEF Message
<1> HIDE DEF m
<1>3. /\ inbox[to] \in Seq(Message) /\ Len(inbox[to]) \in Nat
      /\ DOMAIN inbox[to] = 1..Len(inbox[to])
  BY DEF InboxIInv, Boxes
<1>4. /\ Append(inbox[to], m) \in Seq(Message)
      /\ DOMAIN Append(inbox[to], m) = 1..(Len(inbox[to]) + 1)
      /\ Append(inbox[to], m)[Len(inbox[to]) + 1] = m
      /\ \A i \in DOMAIN inbox[to] : Append(inbox[to], m)[i] = inbox[to][i]
  BY <1>2, <1>3
<1>5. /\ inbox'[to] = Append(inbox[to], m)
      /\ \A s \in Sids \ {to} : inbox'[s] = inbox[s]
      /\ inbox' \in [Sids -> Seq(Message)]
  BY <1>1, <1>4 DEF InboxIInv, Boxes
<1>6. lastMid \in Nat /\ \A s \in Sids : \A i \in DOMAIN inbox[s] :
         /\ inbox[s][i].id <= lastMid /\ inbox[s][i].id \in Nat
         /\ i \in Nat /\ (s = to => i < Len(inbox[to]) + 1)
  <2>1. \A s \in Sids : \A i \in DOMAIN inbox[s] :
           inbox[s][i] \in Message /\ i \in 1..Len(inbox[s]) /\ Len(inbox[s]) \in Nat
    BY DEF InboxIInv, Boxes
  <2>2. lastMid \in Nat /\ \A s \in Sids : \A i \in DOMAIN inbox[s] :
           inbox[s][i].id <= lastMid /\ inbox[s][i].id \in Nat
    BY <2>1 DEF InboxIInv, Boxes, IdsUnique, Message, Mids
  <2>3. \A i \in DOMAIN inbox[to] : i < Len(inbox[to]) + 1
    BY <1>3
  <2> QED BY <2>1, <2>2, <2>3
\* An entry after the step is the new message or an entry from before.
<1>7. \A s \in Sids : \A i \in DOMAIN inbox'[s] :
         \/ s = to /\ i = Len(inbox[to]) + 1 /\ inbox'[s][i] = m
         \/ i \in DOMAIN inbox[s] /\ inbox'[s][i] = inbox[s][i]
  <2>1. \A i \in 1..(Len(inbox[to]) + 1) : i = Len(inbox[to]) + 1 \/ i \in 1..Len(inbox[to])
    BY <1>3
  <2> QED BY <1>3, <1>4, <1>5, <2>1
<1>8. Boxes'
  BY <1>1, <1>5, SMT DEF InboxIInv, Boxes, Mids
<1>9. IdsUnique'
  <2>1. \A s \in Sids : \A i \in DOMAIN inbox'[s] : inbox'[s][i].id <= lastMid'
    BY <1>1, <1>2, <1>6, <1>7
  <2>2. ASSUME NEW s \in Sids, NEW t \in Sids, NEW i \in DOMAIN inbox'[s],
               NEW j \in DOMAIN inbox'[t], inbox'[s][i].id = inbox'[t][j].id
        PROVE  s = t /\ i = j
    BY <1>2, <1>6, <1>7, <2>2 DEF InboxIInv, IdsUnique
  <2>3. \A x \in Mids : x > lastMid' => offered'[x] = 0 /\ x \notin picked'
    BY <1>1, <1>6 DEF InboxIInv, IdsUnique, Mids
  <2> QED BY <2>1, <2>2, <2>3 DEF IdsUnique
<1>10. InboxInOrder'
  BY <1>1, <1>2, <1>6, <1>7 DEF InboxIInv, InboxInOrder
<1>11. OfferedOnce'
  BY <1>1, <1>2, <1>6, <1>7 DEF InboxIInv, OfferedOnce, IdsUnique, Mids
<1> QED BY <1>8, <1>9, <1>10, <1>11 DEF InboxIInv

\* What the two reading handlers share: the entries of one inbox at `at` get
\* their flag set, everything else of the entries stays.
LEMMA MarkStep ==
    ASSUME InboxIInv, NEW box \in Sids, NEW at \in SUBSET DOMAIN inbox[box],
           inbox' = [inbox EXCEPT ![box] = Marked(inbox[box], at)]
    PROVE  /\ inbox' \in [Sids -> Seq(Message)]
           /\ \A s \in Sids :
                 /\ DOMAIN inbox'[s] = DOMAIN inbox[s]
                 /\ \A i \in DOMAIN inbox[s] :
                       /\ inbox'[s][i].id = inbox[s][i].id
                       /\ inbox[s][i] \in Message /\ i \in Nat
                       /\ inbox'[s][i].read <=>
                             inbox[s][i].read \/ (s = box /\ i \in at)
<1>1. /\ inbox[box] \in Seq(Message) /\ inbox \in [Sids -> Seq(Message)]
      /\ \A s \in Sids : \A i \in DOMAIN inbox[s] : inbox[s][i] \in Message /\ i \in Nat
  BY DEF InboxIInv, Boxes
<1>2. /\ Marked(inbox[box], at) \in Seq(Message)
      /\ DOMAIN Marked(inbox[box], at) = DOMAIN inbox[box]
      /\ \A i \in DOMAIN inbox[box] :
            /\ Marked(inbox[box], at)[i].id = inbox[box][i].id
            /\ Marked(inbox[box], at)[i].read <=> inbox[box][i].read \/ i \in at
  BY <1>1, MarkedMessages
<1>3. /\ inbox'[box] = Marked(inbox[box], at)
      /\ \A s \in Sids \ {box} : inbox'[s] = inbox[s]
      /\ inbox' \in [Sids -> Seq(Message)]
  BY <1>1, <1>2
<1> QED BY <1>1, <1>2, <1>3, Zenon

\* ... under inbox.list ...
LEMMA ListStep ==
    ASSUME InboxIInv, NEW box \in Sids, NEW unread_only \in BOOLEAN,
           NEW limit \in Limits, InboxList(box, unread_only, limit)
    PROVE  InboxIInv'
<1> DEFINE at == Listed(box, unread_only, limit)
           ids == {inbox[box][i].id : i \in at}
<1>1. /\ inbox' = [inbox EXCEPT ![box] = Marked(inbox[box], at)]
      /\ offered' = [m \in Mids |-> IF unread_only /\ m \in ids
                                     THEN offered[m] + 1 ELSE offered[m]]
      /\ lastMid' = lastMid /\ picked' = picked
  BY DEF InboxList, idVars
<1>2. at \subseteq DOMAIN inbox[box] /\ at \subseteq Matching(box, unread_only)
  BY DEF Listed, Matching
<1>3. \A j \in at : \A i \in DOMAIN inbox[box] :
         i < j /\ ~inbox[box][i].read => i \in at
  <2>1. limit \in Nat /\ Boxes
    BY BrokerAssumption DEF InboxIInv
  <2>2. \A i \in DOMAIN inbox[box] : ~inbox[box][i].read => i \in Matching(box, unread_only)
    BY DEF Matching
  <2> QED BY <2>1, <2>2, ListedClosed
<1>4. unread_only => \A i \in at : ~inbox[box][i].read
  BY <1>2, Zenon DEF Matching
<1> HIDE DEF at
<1>5. /\ inbox' \in [Sids -> Seq(Message)]
      /\ \A s \in Sids :
            /\ DOMAIN inbox'[s] = DOMAIN inbox[s]
            /\ \A i \in DOMAIN inbox[s] :
                  /\ inbox'[s][i].id = inbox[s][i].id
                  /\ inbox[s][i] \in Message /\ i \in Nat
                  /\ inbox'[s][i].read <=>
                        inbox[s][i].read \/ (s = box /\ i \in at)
  BY <1>1, <1>2, MarkStep, Zenon
<1>6. \A m \in Mids : /\ offered'[m] \in Nat
                      /\ m \notin ids => offered'[m] = offered[m]
                      /\ ~unread_only => offered'[m] = offered[m]
                      /\ offered'[m] = offered[m] \/ offered'[m] = offered[m] + 1
  BY <1>1 DEF InboxIInv, Boxes
<1>7. \A m \in ids : m \in Mids /\ m <= lastMid
  BY <1>2, <1>5 DEF InboxIInv, IdsUnique, Message
<1>8. Boxes'
  <2>1. offered' \in [Mids -> Nat]
    BY <1>1, <1>6
  <2>2. lastMid' = lastMid /\ picked' = picked /\ inbox' \in [Sids -> Seq(Message)]
    BY <1>1, <1>5, Zenon
  <2> QED BY <2>1, <2>2 DEF InboxIInv, Boxes
<1>9. IdsUnique'
  <2>1. \A m \in Mids : m > lastMid' => offered'[m] = 0 /\ m \notin picked'
    BY <1>1, <1>6, <1>7 DEF InboxIInv, IdsUnique, Boxes, Mids
  <2> QED BY <1>1, <1>5, <2>1 DEF InboxIInv, IdsUnique
<1>10. InboxInOrder'
  BY <1>1, <1>3, <1>5 DEF InboxIInv, InboxInOrder
<1>11. OfferedOnce'
  <2>1. ASSUME NEW m \in Mids PROVE offered'[m] <= 1
    <3>1. CASE unread_only /\ m \in ids
      <4>1. offered[m] = 0
        BY <1>2, <1>4, <3>1 DEF InboxIInv, OfferedOnce
      <4> QED BY <1>6, <4>1
    <3>2. CASE ~(unread_only /\ m \in ids)
      BY <1>6, <3>2 DEF InboxIInv, OfferedOnce
    <3> QED BY <3>1, <3>2
  <2>2. ASSUME NEW s \in Sids, NEW i \in DOMAIN inbox'[s], ~inbox'[s][i].read
        PROVE  offered'[inbox'[s][i].id] = 0 /\ inbox'[s][i].id \notin picked'
    <3>1. /\ i \in DOMAIN inbox[s] /\ ~inbox[s][i].read /\ ~(s = box /\ i \in at)
          /\ inbox'[s][i].id = inbox[s][i].id /\ inbox[s][i].id \in Mids
      BY <1>5, <2>2 DEF Message
    <3>2. inbox[s][i].id \notin ids
      BY <1>2, <3>1 DEF InboxIInv, IdsUnique
    <3>3. offered[inbox[s][i].id] = 0 /\ inbox[s][i].id \notin picked
      BY <3>1 DEF InboxIInv, OfferedOnce
    <3>4. offered'[inbox[s][i].id] = offered[inbox[s][i].id]
      BY <1>6, <3>1, <3>2, Zenon
    <3>5. picked' = picked
      BY <1>1, Zenon
    <3> QED BY <3>1, <3>3, <3>4, <3>5, Zenon
  <2> QED BY <2>1, <2>2 DEF OfferedOnce
<1> QED BY <1>8, <1>9, <1>10, <1>11 DEF InboxIInv

\* ... and under inbox.read.
LEMMA ReadStep ==
    ASSUME InboxIInv, NEW box \in Sids, NEW n \in DOMAIN inbox[box], InboxRead(box, n)
    PROVE  InboxIInv'
<1> DEFINE at == {n}
<1>1. /\ inbox' = [inbox EXCEPT ![box] = Marked(inbox[box], at)]
      /\ picked' = picked \cup {inbox[box][n].id}
      /\ lastMid' = lastMid /\ offered' = offered
  BY DEF InboxRead, idVars
<1>2. /\ inbox' \in [Sids -> Seq(Message)]
      /\ \A s \in Sids :
            /\ DOMAIN inbox'[s] = DOMAIN inbox[s]
            /\ \A i \in DOMAIN inbox[s] :
                  /\ inbox'[s][i].id = inbox[s][i].id
                  /\ inbox[s][i] \in Message /\ i \in Nat
                  /\ inbox'[s][i].read <=>
                        inbox[s][i].read \/ (s = box /\ i \in at)
  <2>1. at \in SUBSET DOMAIN inbox[box]
    OBVIOUS
  <2> HIDE DEF at
  <2> QED BY <1>1, <2>1, MarkStep, Zenon
<1>a. \A i : i \in at <=> i = n
  OBVIOUS
<1>3. inbox[box][n].id \in Mids /\ inbox[box][n].id <= lastMid /\ lastMid \in Nat
  BY <1>2 DEF InboxIInv, IdsUnique, Boxes, Message
<1> HIDE DEF at
<1>4. Boxes'
  BY <1>1, <1>2, <1>3 DEF InboxIInv, Boxes
<1>5. IdsUnique'
  <2>1. \A m \in Mids : m > lastMid' => offered'[m] = 0 /\ m \notin picked'
    BY <1>1, <1>3 DEF InboxIInv, IdsUnique, Mids
  <2> QED BY <1>1, <1>2, <2>1 DEF InboxIInv, IdsUnique
<1>6. InboxInOrder'
  BY <1>1, <1>2, <1>a DEF InboxIInv, InboxInOrder
<1>7. OfferedOnce'
  BY <1>1, <1>2, <1>a DEF InboxIInv, OfferedOnce, IdsUnique
<1> QED BY <1>4, <1>5, <1>6, <1>7 DEF InboxIInv

\* The inductive invariant of the inboxes holds in every reachable state.
LEMMA InboxInvariant == BrokerSpec => []InboxIInv
<1>1. BrokerInit => InboxIInv
  BY BrokerAssumption DEF BrokerInit, InboxIInv, Boxes, IdsUnique, InboxInOrder,
                          OfferedOnce, Mids
<1>2. ASSUME InboxIInv, [BrokerNext]_brokerVars PROVE InboxIInv'
  <2>1. CASE \E from, to \in Sids : Post(from, to)
    BY <1>2, <2>1, PostStep
  <2>2. CASE \E s \in Sids, unread_only \in BOOLEAN, limit \in Limits :
                InboxList(s, unread_only, limit)
    BY <1>2, <2>2, ListStep
  <2>3. CASE \E s \in Sids : \E i \in DOMAIN inbox[s] : InboxRead(s, i)
    BY <1>2, <2>3, ReadStep
  <2>4. CASE Restart
    <3>1. /\ \A s \in Sids : inbox'[s] = << >> /\ DOMAIN inbox'[s] = {}
          /\ inbox' \in [Sids -> Seq(Message)]
      BY <2>4 DEF Restart, Empty
    <3>2. UNCHANGED <<lastMid, offered, picked>>
      BY <2>4 DEF Restart, idVars
    <3> QED BY <1>2, <3>1, <3>2 DEF InboxIInv, Boxes, IdsUnique, InboxInOrder, OfferedOnce
  <2>5. CASE \/ \E p \in Pids : Register(p)
             \/ \E s \in Sids : Deregister(s)
             \/ \E s \in Sids, file \in Paths, mode \in Modes, ttl \in Ttls,
                   now \in 0..MaxClock : Claim(s, file, mode, ttl, now)
             \/ \E r \in reservations : Release(r)
             \/ Tick
             \/ UNCHANGED brokerVars
    <3>1. UNCHANGED <<inbox, lastMid, offered, picked>>
      BY <2>5, Zenon DEF Register, Deregister, Claim, Release, Tick, brokerVars, idVars
    <3> QED BY <1>2, <3>1 DEF InboxIInv, Boxes, IdsUnique, InboxInOrder, OfferedOnce
  <2> QED BY <1>2, <2>1, <2>2, <2>3, <2>4, <2>5 DEF BrokerNext
<1> QED BY <1>1, <1>2, PTL DEF BrokerSpec

\* inbox.list hands out the messages of an inbox in the order they were
\* posted, whatever limits and filters the readers use.
THEOREM InboxStaysInOrder == BrokerSpec => []InboxInOrder
<1>1. InboxIInv => InboxInOrder
  BY DEF InboxIInv
<1> QED BY <1>1, InboxInvariant, PTL

\* However many readers poll an inbox with unread_only, one gets the message.
THEOREM MessagesOfferedOnce == BrokerSpec => []OfferedOnce
<1>1. InboxIInv => OfferedOnce
  BY DEF InboxIInv
<1> QED BY <1>1, InboxInvariant, PTL

-----------------------------------------------------------------------------
(* The broker's sessions and reservations.                                 *)

\* The types of the session table and of the reservations.
Types ==
    /\ sessions \in [Sids -> Pids \cup {None}]
    /\ sessions_by_pid \in [Pids -> Sids \cup {None}]
    /\ reservations \subseteq Reservation
    /\ clock \in Nat
    /\ lastSid \in 0..MaxSessions /\ lastRid \in 0..MaxReservations

\* Minted ids: a fresh session id is not in use, a fresh reservation id is
\* above every one entered.
Minted ==
    /\ \A s \in Sids : sessions[s] # None => s <= lastSid
    /\ \A r \in reservations : r.id <= lastRid

\* What the answer of a claim was computed from, in terms of the entries
\* themselves: the later claim's own time takes the place of the clock.
ToldAtClaim ==
    \A e, l \in reservations :
        /\ l.acquired_at <= clock
        /\ /\ e.id < l.id /\ e.session_id # l.session_id /\ e.path = l.path
           /\ mode_conflicts(l.mode, e.mode) /\ e.expires_at > l.acquired_at
           => e.id \in l.told

BrokerIInv == Types /\ Minted /\ PidIndexExact /\ ToldAtClaim

\* What a step does to the session table and what it leaves alone.
LEMMA TypesStep ==
    ASSUME BrokerIInv, [BrokerNext]_brokerVars
    PROVE  Types'
<1> USE BrokerAssumption, PidsAreNotNone
<1>1. ASSUME NEW p \in Pids, Register(p) PROVE Types'
  BY <1>1 DEF BrokerIInv, Types, Register, InsertNewSession, Sids, None
<1>2. ASSUME NEW s \in Sids, Deregister(s) PROVE Types'
  BY <1>2 DEF BrokerIInv, Types, Deregister, idVars, Sids, None
<1>3. ASSUME NEW s \in Sids, NEW file \in Paths, NEW mode \in Modes,
             NEW ttl \in Ttls, NEW now \in 0..MaxClock,
             Claim(s, file, mode, ttl, now)
      PROVE  Types'
  <2> DEFINE r == [id |-> lastRid + 1, session_id |-> s, path |-> file,
                   mode |-> mode, acquired_at |-> now, expires_at |-> now + ttl,
                   told |-> {x.id : x \in Conflicts(s, file, mode, now)}]
  <2>1. lastRid + 1 \in Rids
    BY <1>3, SMT DEF BrokerIInv, Types, Claim, Rids
  <2>2. {x.id : x \in Conflicts(s, file, mode, now)} \subseteq Rids
    BY DEF BrokerIInv, Types, Conflicts, Reservation
  <2>3. r \in Reservation
    <3>1. now \in Nat /\ ttl \in Nat /\ now + ttl \in Nat
      BY SMT
    <3> QED BY <2>1, <2>2, <3>1 DEF Reservation
  <2>4. reservations' = reservations \cup {r} /\ lastRid' = lastRid + 1
    BY <1>3 DEF Claim
  <2>5. reservations' \subseteq Reservation
    BY <2>3, <2>4, Zenon DEF BrokerIInv, Types
  <2> HIDE DEF r
  <2> QED
    BY <1>3, <2>1, <2>4, <2>5 DEF BrokerIInv, Types, Claim, Rids
<1>4. ASSUME NEW r \in reservations, Release(r) PROVE Types'
  BY <1>4 DEF BrokerIInv, Types, Release, idVars
<1>5. CASE Restart
  BY <1>5 DEF BrokerIInv, Types, Restart, Empty, idVars
<1>6. CASE Tick
  BY <1>6 DEF BrokerIInv, Types, Tick, idVars
<1>7. CASE \/ \E from, to \in Sids : Post(from, to)
           \/ \E s \in Sids, unread_only \in BOOLEAN, limit \in Limits :
                 InboxList(s, unread_only, limit)
           \/ \E s \in Sids : \E i \in DOMAIN inbox[s] : InboxRead(s, i)
           \/ UNCHANGED brokerVars
  <2>1. UNCHANGED <<sessions, sessions_by_pid, reservations, clock, lastSid, lastRid>>
    BY <1>7, Zenon DEF Post, InboxList, InboxRead, brokerVars, idVars
  <2> QED BY <2>1 DEF BrokerIInv, Types
<1> QED
  BY <1>1, <1>2, <1>3, <1>4, <1>5, <1>6, <1>7 DEF BrokerNext

\* Register and deregister keep the two tables inverse to each other.
LEMMA TablesStep ==
    ASSUME BrokerIInv, [BrokerNext]_brokerVars
    PROVE  PidIndexExact' /\ (\A s \in Sids : sessions'[s] # None => s <= lastSid')
<1> USE BrokerAssumption, PidsAreNotNone
<1> DEFINE Goal == PidIndexExact' /\ (\A s \in Sids : sessions'[s] # None => s <= lastSid')
<1>1. ASSUME NEW p \in Pids, Register(p) PROVE Goal
  <2>1. /\ lastSid + 1 \in Sids /\ lastSid' = lastSid + 1
        /\ sessions' = [sessions EXCEPT ![lastSid + 1] = p]
        /\ sessions_by_pid' = [sessions_by_pid EXCEPT ![p] = lastSid + 1]
        /\ sessions[lastSid + 1] = None
    BY <1>1, SMT DEF BrokerIInv, Types, Minted, Register, InsertNewSession, Sids
  <2>2. \A s \in Sids : sessions[s] # p
    BY <1>1 DEF BrokerIInv, Types, PidIndexExact, Register, Known, Sids, None
  <2>3. \A s \in Sids : s # None /\ s \in Nat
    BY DEF Sids, None
  <2>4. \A s \in Sids : sessions'[s] # None => sessions_by_pid'[sessions'[s]] = s
    BY <2>1, <2>2 DEF BrokerIInv, Types, PidIndexExact
  <2>5. \A q \in Pids : sessions_by_pid'[q] # None => sessions'[sessions_by_pid'[q]] = q
    BY <2>1, <2>2, <2>3 DEF BrokerIInv, Types, PidIndexExact
  <2>6. \A s \in Sids : sessions'[s] # None => s <= lastSid'
    BY <2>1, <2>3 DEF BrokerIInv, Types, Minted
  <2> QED BY <2>4, <2>5, <2>6 DEF PidIndexExact
<1>2. ASSUME NEW s \in Sids, Deregister(s) PROVE Goal
  <2>1. /\ sessions' = [sessions EXCEPT ![s] = None]
        /\ sessions_by_pid' = [sessions_by_pid EXCEPT ![sessions[s]] = None]
        /\ sessions[s] \in Pids /\ lastSid' = lastSid
    BY <1>2 DEF BrokerIInv, Types, Deregister, idVars
  <2> QED BY <2>1 DEF BrokerIInv, Types, Minted, PidIndexExact
<1>3. CASE Restart
  BY <1>3 DEF Restart, Empty, PidIndexExact
<1>4. CASE \/ \E s \in Sids, file \in Paths, mode \in Modes, ttl \in Ttls,
                now \in 0..MaxClock : Claim(s, file, mode, ttl, now)
           \/ \E r \in reservations : Release(r)
           \/ \E from, to \in Sids : Post(from, to)
           \/ \E s \in Sids, unread_only \in BOOLEAN, limit \in Limits :
                 InboxList(s, unread_only, limit)
           \/ \E s \in Sids : \E i \in DOMAIN inbox[s] : InboxRead(s, i)
           \/ Tick
           \/ UNCHANGED brokerVars
  <2>1. UNCHANGED <<sessions, sessions_by_pid, lastSid>>
    BY <1>4, Zenon DEF Claim, Release, Post, InboxList, InboxRead, Tick, brokerVars, idVars
  <2> QED BY <2>1 DEF BrokerIInv, Minted, PidIndexExact
<1> QED
  BY <1>1, <1>2, <1>3, <1>4 DEF BrokerNext

\* A new claim is told of every entry it excludes; no other step touches the
\* entries but to take them away.
LEMMA ClaimsStep ==
    ASSUME BrokerIInv, [BrokerNext]_brokerVars
    PROVE  ToldAtClaim' /\ (\A r \in reservations' : r.id <= lastRid')
<1> USE BrokerAssumption
<1> DEFINE Goal == ToldAtClaim' /\ (\A r \in reservations' : r.id <= lastRid')
<1>1. ASSUME NEW s \in Sids, NEW file \in Paths, NEW mode \in Modes,
             NEW ttl \in Ttls, NEW now \in 0..MaxClock,
             Claim(s, file, mode, ttl, now)
      PROVE  Goal
  <2> DEFINE told == {x.id : x \in Conflicts(s, file, mode, now)}
             n == [id |-> lastRid + 1, session_id |-> s, path |-> file,
                   mode |-> mode, acquired_at |-> now, expires_at |-> now + ttl,
                   told |-> told]
  <2>1. /\ reservations' = reservations \cup {n} /\ lastRid' = lastRid + 1
        /\ clock' = clock /\ now <= clock
    BY <1>1 DEF Claim
  <2>2. /\ n.id = lastRid + 1 /\ n.session_id = s /\ n.path = file
        /\ n.mode = mode /\ n.acquired_at = now /\ n.told = told
    OBVIOUS
  <2>3. \A r \in reservations : r.id \in Nat /\ r.id <= lastRid /\ lastRid \in Nat
    BY DEF BrokerIInv, Types, Minted, Reservation, Rids
  <2>4. \A e \in reservations :
            e.session_id # s /\ e.path = file /\ mode_conflicts(mode, e.mode)
            /\ e.expires_at > now => e.id \in told
    BY DEF Conflicts
  <2>5. lastRid \in Nat
    BY DEF BrokerIInv, Types
  <2> HIDE DEF n, told
  <2>6. \A r \in reservations' : r.id <= lastRid'
    BY <2>1, <2>2, <2>3, <2>5
  <2>7. ASSUME NEW e \in reservations', NEW l \in reservations'
        PROVE  /\ l.acquired_at <= clock'
               /\ /\ e.id < l.id /\ e.session_id # l.session_id /\ e.path = l.path
                  /\ mode_conflicts(l.mode, e.mode) /\ e.expires_at > l.acquired_at
                  => e.id \in l.told
    <3>1. CASE l \in reservations /\ e \in reservations
      BY <2>1, <3>1 DEF BrokerIInv, ToldAtClaim
    <3>2. CASE l \in reservations /\ e = n
      <4>1. ~(e.id < l.id)
        BY <2>2, <2>3, <3>2, SMT
      <4>2. l.acquired_at <= clock'
        BY <2>1, <3>2 DEF BrokerIInv, ToldAtClaim
      <4> QED BY <4>1, <4>2
    <3>3. CASE l = n /\ e \in reservations
      BY <2>1, <2>2, <2>4, <3>3
    <3>4. CASE l = n /\ e = n
      BY <2>1, <2>2, <3>4
    <3> QED BY <2>1, <3>1, <3>2, <3>3, <3>4
  <2> QED BY <2>6, <2>7 DEF ToldAtClaim
<1>2. ASSUME NEW r \in reservations, Release(r) PROVE Goal
  <2>1. reservations' \subseteq reservations /\ clock' = clock /\ lastRid' = lastRid
    BY <1>2 DEF Release, idVars
  <2> QED BY <2>1 DEF BrokerIInv, Minted, ToldAtClaim
<1>3. CASE Restart
  BY <1>3 DEF Restart, Empty, ToldAtClaim
<1>4. CASE Tick
  <2>1. reservations' = reservations /\ clock' = clock + 1 /\ lastRid' = lastRid
    BY <1>4 DEF Tick, idVars
  <2>2. clock \in Nat /\ \A r \in reservations : r.acquired_at \in Nat
    BY DEF BrokerIInv, Types, Reservation
  <2> QED BY <2>1, <2>2 DEF BrokerIInv, Minted, ToldAtClaim
<1>5. CASE \/ \E p \in Pids : Register(p)
           \/ \E s \in Sids : Deregister(s)
           \/ \E from, to \in Sids : Post(from, to)
           \/ \E s \in Sids, unread_only \in BOOLEAN, limit \in Limits :
                 InboxList(s, unread_only, limit)
           \/ \E s \in Sids : \E i \in DOMAIN inbox[s] : InboxRead(s, i)
           \/ UNCHANGED brokerVars
  <2>1. UNCHANGED <<reservations, clock, lastRid>>
    BY <1>5, Zenon DEF Register, Deregister, Post, InboxList, InboxRead, brokerVars, idVars
  <2> QED BY <2>1 DEF BrokerIInv, Minted, ToldAtClaim
<1> QED
  BY <1>1, <1>2, <1>3, <1>4, <1>5 DEF BrokerNext

\* Init => IInv and IInv /\ Next => IInv'.
LEMMA BrokerInvariant == BrokerSpec => []BrokerIInv
<1>1. BrokerInit => BrokerIInv
  BY BrokerAssumption DEF BrokerInit, BrokerIInv, Types, Minted, PidIndexExact, ToldAtClaim
<1>2. BrokerIInv /\ [BrokerNext]_brokerVars => BrokerIInv'
  BY TypesStep, TablesStep, ClaimsStep DEF BrokerIInv, Minted
<1> QED BY <1>1, <1>2, PTL DEF BrokerSpec

\* Modes exclude each other mutually: it does not matter which claim of two
\* was entered first.
LEMMA ModesSymmetric ==
    \A a, b \in Modes : mode_conflicts(a, b) => mode_conflicts(b, a)
BY Zenon DEF Modes, mode_conflicts

\* The pid index and the session table stay inverse to each other, for any
\* number of processes and sessions.
THEOREM PidIndexStaysExact == BrokerSpec => []PidIndexExact
<1>1. BrokerIInv => PidIndexExact
  BY DEF BrokerIInv
<1> QED BY <1>1, BrokerInvariant, PTL

\* While an entry is live, every later claim it excludes was told of it.
THEOREM ConflictsAreReported == BrokerSpec => []ConflictsReported
<1>1. BrokerIInv => ConflictsReported
  <2> SUFFICES ASSUME BrokerIInv, NEW e \in LiveReservations, NEW l \in reservations,
                      e.id < l.id, e.session_id # l.session_id, e.path = l.path,
                      mode_conflicts(e.mode, l.mode) \/ mode_conflicts(l.mode, e.mode)
               PROVE  e.id \in l.told
    BY DEF ConflictsReported
  <2>1. e \in reservations /\ e.expires_at > clock /\ l.acquired_at <= clock
    BY DEF LiveReservations, BrokerIInv, ToldAtClaim
  <2>2. /\ e.mode \in Modes /\ l.mode \in Modes /\ clock \in Nat
        /\ e.expires_at \in Nat /\ l.acquired_at \in Nat
    BY <2>1 DEF BrokerIInv, Types, Reservation
  <2>3. mode_conflicts(l.mode, e.mode)
    BY <2>2, ModesSymmetric
  <2>4. e.expires_at > l.acquired_at
    BY <2>1, <2>2
  <2> QED BY <2>1, <2>3, <2>4 DEF BrokerIInv, ToldAtClaim
<1> QED BY <1>1, BrokerInvariant, PTL

-----------------------------------------------------------------------------
(* The single-instance lock.                                               *)

HasOpen == {"probe", "decide", "lock", "owner", "truncate", "write", "writeBehind",
            "serving", "unlink"}
HasLock == {"owner", "truncate", "write", "writeBehind", "serving"}
Labels == {"start", "open"} \cup HasOpen \cup Ended

OpenThere == \A p \in Procs : pc[p] \in HasOpen <=> fd[p] # NoInode
NameLeads == \A p \in Procs : fd[p] # NoInode /\ p \notin cut => path = fd[p]
Emptied == \A p \in Procs : pc[p] = "write" => text[fd[p]] = "empty"
BehindChecks == \A p \in Procs : pc[p] = "writeBehind" => checksOwner
Recorded ==
    \A p \in Procs :
        Serving(p) => text[fd[p]] = p \/ (checksOwner /\ text[fd[p]] = "garbled")

\* A process has the pidfile open at these steps only, and it is the one the
\* name leads to unless that was removed under it; from its truncation on,
\* nobody else writes into a file that is locked.
ServeInv ==
    /\ ServeTypeOK /\ OpenThere /\ NameLeads
    /\ Emptied /\ BehindChecks /\ Recorded /\ StoppedNotAdvertised

\* Two processes past try_lock_exclusive have different files open.
LEMMA LockedAlone ==
    ASSUME ServeInv, NEW p \in Procs, NEW q \in Procs \ {p}, pc[p] \in HasLock, pc[q] \in HasLock
    PROVE  fd[p] \in Inodes /\ fd[q] \in Inodes /\ fd[p] # fd[q]
BY DEF ServeInv, ServeTypeOK, HasLock

\* A step that leaves the files alone and takes p nowhere special keeps the
\* invariant once p has its file open exactly where it should.
LEMMA PlainStep ==
    ASSUME ServeInv, ServeTypeOK', NEW p \in Procs, NEW l \in Labels, Goto(p, l),
           l \notin {"write", "writeBehind", "serving", "stopped"},
           UNCHANGED <<checksOwner, path, text>>,
           l \in HasOpen <=> fd'[p] # NoInode,
           \A q \in Procs \ {p} : fd'[q] = fd[q],
           fd'[p] \in {NoInode, fd[p], path},
           cut' \subseteq cut, cut \ {p} \subseteq cut', p \in cut \ cut' => fd'[p] = NoInode
    PROVE  ServeInv'
<1>1. pc'[p] = l /\ \A q \in Procs \ {p} : pc'[q] = pc[q]
  BY DEF Goto, ServeInv, ServeTypeOK
<1>2. OpenThere'
  BY <1>1, Zenon DEF ServeInv, OpenThere
<1>3. NameLeads'
  <2>1. fd'[p] # NoInode /\ p \notin cut' => path = fd'[p]
    BY DEF ServeInv, NameLeads
  <2>2. ASSUME NEW q \in Procs \ {p} PROVE fd'[q] # NoInode /\ q \notin cut' => path = fd'[q]
    BY DEF ServeInv, NameLeads
  <2> QED BY <2>1, <2>2 DEF NameLeads
<1>4. Emptied' /\ BehindChecks'
  BY <1>1 DEF ServeInv, Emptied, BehindChecks
<1>5. Recorded'
  BY <1>1 DEF ServeInv, Recorded, Serving
<1>6. StoppedNotAdvertised'
  BY <1>1 DEF ServeInv, StoppedNotAdvertised
<1> QED BY <1>2, <1>3, <1>4, <1>5, <1>6 DEF ServeInv

\* Closing the file keeps the types: whoever has the lock of another file keeps it.
LEMMA CloseTypes ==
    ASSUME ServeInv, NEW p \in Procs, NEW l \in Ended \cup {"open"}, CloseTo(p, l),
           UNCHANGED <<checksOwner, text, policy, held>>,
           path' \in Inodes \cup {NoInode}, cut' \subseteq Procs
    PROVE  /\ ServeTypeOK' /\ fd'[p] = NoInode /\ \A q \in Procs \ {p} : fd'[q] = fd[q]
           /\ pc'[p] = l /\ \A q \in Procs \ {p} : pc'[q] = pc[q]
<1>1. /\ pc' \in [Procs -> {"start", "probe", "decide", "open", "lock", "owner", "truncate",
                            "write", "writeBehind", "serving", "unlink"} \cup Ended]
      /\ pc'[p] = l /\ \A q \in Procs \ {p} : pc'[q] = pc[q]
  BY DEF CloseTo, Goto, ServeInv, ServeTypeOK, Ended
<1>2. /\ fd' \in [Procs -> Inodes \cup {NoInode}]
      /\ fd'[p] = NoInode /\ \A q \in Procs \ {p} : fd'[q] = fd[q]
  BY DEF CloseTo, ServeInv, ServeTypeOK
<1>3. /\ excl' \in [Inodes -> Procs \cup {"nobody"}]
      /\ \A i \in Inodes : excl[i] # p => excl'[i] = excl[i]
  BY DEF CloseTo, ServeInv, ServeTypeOK
<1>4. shared' \in [Inodes -> SUBSET Procs]
  BY DEF CloseTo, ServeInv, ServeTypeOK
<1>5. \A q \in Procs : pc'[q] \in {"owner", "truncate", "write", "writeBehind", "serving"} =>
         fd'[q] # NoInode /\ excl'[fd'[q]] = q
  BY <1>1, <1>2, <1>3 DEF ServeInv, ServeTypeOK, Ended
<1> QED BY <1>1, <1>2, <1>3, <1>4, <1>5 DEF ServeInv, ServeTypeOK

\* Giving up (refused, attached, aborted, dead) or going on from probe to
\* try_acquire closes the file and touches no other.
LEMMA CloseKeeps ==
    ASSUME ServeInv, NEW p \in Procs, NEW l \in (Ended \ {"stopped"}) \cup {"open"}, Close(p, l),
           UNCHANGED <<checksOwner, path, text, policy, held>>
    PROVE  ServeInv'
<1>1. CloseTo(p, l) /\ cut' = cut \ {p}
  BY DEF Close
<1>2. /\ ServeTypeOK' /\ fd'[p] = NoInode /\ \A q \in Procs \ {p} : fd'[q] = fd[q]
  BY <1>1, CloseTypes DEF ServeInv, ServeTypeOK
<1>3. Goto(p, l)
  BY <1>1, Zenon DEF CloseTo
<1>4. l \in Labels /\ l \notin HasOpen /\ l \notin {"write", "writeBehind", "serving", "stopped"}
  BY DEF Labels, HasOpen, Ended
<1> QED BY <1>1, <1>2, <1>3, <1>4, PlainStep

\* probe and try_acquire open the file the name leads to, or a new empty one
\* that nobody else has.
LEMMA OpenKeeps ==
    ASSUME ServeInv, NEW p \in Procs, Open(p)
    PROVE  ServeInv'
<1> DEFINE i == IF path # NoInode THEN path ELSE CHOOSE j \in Inodes : ~InUse(j)
<1>1. /\ i \in Inodes /\ i # NoInode
      /\ path = NoInode => \A q \in Procs : fd[q] # i
      /\ path # NoInode => i = path
  BY ServeAssumption DEF Open, InUse, ServeInv, ServeTypeOK, NoInode
<1>2. /\ pc[p] = "open" /\ path' = i /\ Goto(p, "lock")
      /\ text' = IF path # NoInode THEN text ELSE [text EXCEPT ![i] = "empty"]
      /\ fd' = [fd EXCEPT ![p] = i]
      /\ UNCHANGED <<checksOwner, excl, shared, policy, held, cut>>
  BY DEF Open
<1> HIDE DEF i
<1>3. /\ pc' \in [Procs -> {"start", "probe", "decide", "open", "lock", "owner", "truncate",
                            "write", "writeBehind", "serving", "unlink"} \cup Ended]
      /\ pc'[p] = "lock" /\ \A q \in Procs \ {p} : pc'[q] = pc[q]
  BY <1>2 DEF Goto, ServeInv, ServeTypeOK
<1>4. /\ fd' \in [Procs -> Inodes \cup {NoInode}]
      /\ fd'[p] = i /\ \A q \in Procs \ {p} : fd'[q] = fd[q]
  BY <1>1, <1>2 DEF ServeInv, ServeTypeOK
<1>5. /\ text' \in [Inodes -> Procs \cup {"empty", "garbled"}]
      /\ \A j \in Inodes \ {i} : text'[j] = text[j]
      /\ path # NoInode => text' = text
      /\ path = NoInode => text'[i] = "empty"
  BY <1>1, <1>2 DEF ServeInv, ServeTypeOK
<1>6. ServeTypeOK'
  <2>1. \A q \in Procs : pc'[q] \in {"owner", "truncate", "write", "writeBehind", "serving"} =>
           fd'[q] # NoInode /\ excl'[fd'[q]] = q
    BY <1>2, <1>3, <1>4 DEF ServeInv, ServeTypeOK
  <2> QED BY <1>1, <1>2, <1>3, <1>4, <1>5, <2>1 DEF ServeInv, ServeTypeOK
<1>7. OpenThere'
  BY <1>1, <1>3, <1>4, Zenon DEF ServeInv, OpenThere, HasOpen
<1>8. NameLeads'
  BY <1>1, <1>2, <1>4 DEF ServeInv, NameLeads
<1>9. \A q \in Procs : pc'[q] \in {"write", "serving"} =>
         fd'[q] = fd[q] /\ fd[q] \in Inodes /\ text'[fd[q]] = text[fd[q]]
  BY <1>1, <1>3, <1>4, <1>5 DEF ServeInv, ServeTypeOK
<1>10. Emptied' /\ BehindChecks' /\ Recorded'
  BY <1>2, <1>3, <1>9 DEF ServeInv, Emptied, BehindChecks, Recorded, Serving
<1>11. StoppedNotAdvertised'
  BY <1>1, <1>2, <1>3, <1>5, ServeAssumption DEF ServeInv, StoppedNotAdvertised
<1> QED BY <1>6, <1>7, <1>8, <1>10, <1>11 DEF ServeInv

\* A step that only writes into the file p has locked: nobody else is past the
\* lock of that file.
LEMMA WriteStep ==
    ASSUME ServeInv, NEW p \in Procs, pc[p] \in {"truncate", "write", "writeBehind"},
           NEW l \in {"write", "writeBehind", "serving"}, Goto(p, l),
           NEW t \in {"empty", "garbled", p}, text' = [text EXCEPT ![fd[p]] = t],
           UNCHANGED <<checksOwner, path, excl, shared, policy, fd, held, cut>>,
           l = "write" => t = "empty", l = "writeBehind" => checksOwner,
           l = "serving" => t = p \/ (checksOwner /\ t = "garbled")
    PROVE  ServeInv'
<1>1. /\ pc' \in [Procs -> {"start", "probe", "decide", "open", "lock", "owner", "truncate",
                            "write", "writeBehind", "serving", "unlink"} \cup Ended]
      /\ pc'[p] = l /\ \A q \in Procs \ {p} : pc'[q] = pc[q]
  BY DEF Goto, ServeInv, ServeTypeOK
<1>2. fd[p] \in Inodes /\ excl[fd[p]] = p
  BY DEF ServeInv, ServeTypeOK
<1>3. /\ text' \in [Inodes -> Procs \cup {"empty", "garbled"}]
      /\ text'[fd[p]] = t /\ \A j \in Inodes \ {fd[p]} : text'[j] = text[j]
  BY <1>2 DEF ServeInv, ServeTypeOK
<1>4. ServeTypeOK'
  BY <1>1, <1>2, <1>3 DEF ServeInv, ServeTypeOK
<1>5. OpenThere' /\ NameLeads'
  BY <1>1 DEF ServeInv, OpenThere, NameLeads, HasOpen
<1>6. ASSUME NEW q \in Procs \ {p}, pc[q] \in {"write", "serving"}
      PROVE  text'[fd[q]] = text[fd[q]]
  BY <1>3, <1>6, LockedAlone DEF HasLock
<1>7. Emptied'
  BY <1>1, <1>3, <1>6 DEF ServeInv, Emptied
<1>8. BehindChecks'
  BY <1>1 DEF ServeInv, BehindChecks
<1>9. Recorded'
  BY <1>1, <1>3, <1>6 DEF ServeInv, Recorded, Serving
<1>10. StoppedNotAdvertised'
  BY <1>1, <1>3, ServeAssumption DEF ServeInv, ServeTypeOK, StoppedNotAdvertised
<1> QED BY <1>4, <1>5, <1>7, <1>8, <1>9, <1>10 DEF ServeInv

\* drop removes the name: everybody who has the file open is cut off.
LEMMA UnlinkKeeps ==
    ASSUME ServeInv, NEW p \in Procs, DropUnlink(p)
    PROVE  ServeInv'
<1>1. /\ pc[p] = "unlink" /\ path' = NoInode /\ CloseTo(p, "stopped")
      /\ cut' = (cut \ {p}) \cup {q \in Procs \ {p} : path # NoInode /\ fd[q] = path}
      /\ UNCHANGED <<checksOwner, text, policy, held>>
  BY Zenon DEF DropUnlink
<1>2. cut' \subseteq Procs
  BY <1>1 DEF ServeInv, ServeTypeOK
<1>3. /\ ServeTypeOK' /\ fd'[p] = NoInode /\ \A q \in Procs \ {p} : fd'[q] = fd[q]
      /\ pc'[p] = "stopped" /\ \A q \in Procs \ {p} : pc'[q] = pc[q]
  BY <1>1, <1>2, CloseTypes DEF Ended
<1>4. OpenThere'
  BY <1>3 DEF ServeInv, OpenThere, HasOpen
<1>5. NameLeads'
  BY <1>1, <1>3, Zenon DEF ServeInv, NameLeads
<1>6. Emptied' /\ BehindChecks' /\ Recorded'
  BY <1>1, <1>3 DEF ServeInv, Emptied, BehindChecks, Recorded, Serving
<1>7. StoppedNotAdvertised'
  BY <1>1 DEF StoppedNotAdvertised
<1> QED BY <1>3, <1>4, <1>5, <1>6, <1>7 DEF ServeInv

\* Every step keeps the invariant, one step per action.
LEMMA ServeStepInv == ServeInv /\ [ServeNext]_serveVars => ServeInv'
<1> SUFFICES ASSUME ServeInv, [ServeNext]_serveVars PROVE ServeInv'
  OBVIOUS
<1>1. ASSUME NEW p \in Procs, ProbeOpen(p) PROVE ServeInv'
  <2>1. UNCHANGED <<checksOwner, path, text, excl, shared, policy, held, cut>> /\ pc[p] = "start"
    BY <1>1 DEF ProbeOpen
  <2>2. CASE path = NoInode
    <3>1. Goto(p, "open") /\ fd' = fd
      BY <1>1, <2>2 DEF ProbeOpen
    <3>2. ServeTypeOK'
      BY <2>1, <3>1 DEF ServeInv, ServeTypeOK, Goto
    <3>3. fd[p] = NoInode
      BY <2>1 DEF ServeInv, OpenThere, HasOpen
    <3> QED BY <2>1, <3>1, <3>2, <3>3, PlainStep DEF Labels, HasOpen, Ended
  <2>3. CASE path # NoInode
    <3>1. Goto(p, "probe") /\ fd' = [fd EXCEPT ![p] = path]
      BY <1>1, <2>3 DEF ProbeOpen
    <3>2. ServeTypeOK' /\ fd'[p] = path /\ \A q \in Procs \ {p} : fd'[q] = fd[q]
      BY <2>1, <3>1 DEF ServeInv, ServeTypeOK, Goto
    <3> QED BY <2>1, <2>3, <3>1, <3>2, PlainStep DEF Labels, HasOpen
  <2> QED BY <2>2, <2>3
<1>2. ASSUME NEW p \in Procs, ProbeLock(p) PROVE ServeInv'
  <2>1. /\ pc[p] = "probe" /\ Goto(p, "decide")
        /\ UNCHANGED <<checksOwner, path, text, excl, policy, fd, cut>>
    BY <1>2 DEF ProbeLock
  <2>2. held' \in [Procs -> BOOLEAN]
    <3>1. held' = [held EXCEPT ![p] = excl[fd[p]] # "nobody"]
      BY <1>2 DEF ProbeLock
    <3> QED BY <3>1, (excl[fd[p]] # "nobody") \in BOOLEAN DEF ServeInv, ServeTypeOK
  <2>3. shared' \in [Inodes -> SUBSET Procs]
    <3>1. \/ shared' = [shared EXCEPT ![fd[p]] = @ \cup {p}]
          \/ shared' = [shared EXCEPT ![fd[p]] = @]
      BY <1>2, Zenon DEF ProbeLock
    <3> QED BY <3>1 DEF ServeInv, ServeTypeOK
  <2>4. ServeTypeOK'
    BY <2>1, <2>2, <2>3 DEF ServeInv, ServeTypeOK, Goto
  <2>5. fd[p] # NoInode
    BY <2>1 DEF ServeInv, OpenThere, HasOpen
  <2> QED BY <2>1, <2>4, <2>5, PlainStep, Zenon DEF Labels, HasOpen
<1>3. ASSUME NEW p \in Procs, Decide(p) PROVE ServeInv'
  <2>1. PICK l \in {"error", "open", "attached", "aborted"} : Close(p, l)
    BY <1>3 DEF Decide, ServeInv, ServeTypeOK
  <2> QED BY <1>3, <2>1, CloseKeeps DEF Decide, Ended
<1>4. ASSUME NEW p \in Procs, Lock(p) PROVE ServeInv'
  <2>1. pc[p] = "lock" /\ UNCHANGED <<checksOwner, path, text, policy, held>>
    BY <1>4 DEF Lock
  <2>2. CASE Close(p, "refused")
    BY <2>1, <2>2, CloseKeeps DEF Ended
  <2>3. ASSUME NEW l \in {"owner", "truncate"}, Goto(p, l), excl[fd[p]] = "nobody",
               excl' = [excl EXCEPT ![fd[p]] = p], UNCHANGED <<shared, fd, cut>>
        PROVE  ServeInv'
    <3>1. fd[p] \in Inodes /\ fd[p] # NoInode
      BY <2>1 DEF ServeInv, OpenThere, HasOpen, ServeTypeOK
    <3>2. /\ pc' \in [Procs -> {"start", "probe", "decide", "open", "lock", "owner", "truncate",
                                "write", "writeBehind", "serving", "unlink"} \cup Ended]
          /\ pc'[p] = l /\ \A q \in Procs \ {p} : pc'[q] = pc[q]
      BY <2>3 DEF Goto, ServeInv, ServeTypeOK
    <3>3. /\ excl' \in [Inodes -> Procs \cup {"nobody"}] /\ excl'[fd[p]] = p
          /\ \A i \in Inodes : excl[i] # "nobody" => excl'[i] = excl[i]
      BY <2>3, <3>1 DEF ServeInv, ServeTypeOK
    <3>4. \A q \in Procs : pc'[q] \in {"owner", "truncate", "write", "writeBehind", "serving"} =>
             fd'[q] # NoInode /\ excl'[fd'[q]] = q
      BY <2>3, <3>1, <3>2, <3>3, ServeAssumption DEF ServeInv, ServeTypeOK
    <3>5. ServeTypeOK'
      BY <2>1, <2>3, <3>2, <3>3, <3>4 DEF ServeInv, ServeTypeOK
    <3> QED BY <2>1, <2>3, <3>1, <3>5, PlainStep DEF Labels, HasOpen
  <2> QED BY <1>4, <2>2, <2>3, Zenon DEF Lock
<1>5. ASSUME NEW p \in Procs, CheckOwner(p) PROVE ServeInv'
  <2>1. pc[p] = "owner" /\ UNCHANGED <<checksOwner, path, text, policy, held>>
    BY <1>5, Zenon DEF CheckOwner
  <2>2. CASE Close(p, "refused")
    BY <2>1, <2>2, CloseKeeps DEF Ended
  <2>3. CASE Goto(p, "truncate") /\ UNCHANGED <<excl, shared, fd, cut>>
    <3>1. ServeTypeOK' /\ fd[p] # NoInode
      BY <2>1, <2>3 DEF ServeInv, ServeTypeOK, Goto
    <3> QED BY <2>1, <2>3, <3>1, PlainStep DEF Labels, HasOpen
  <2> QED BY <1>5, <2>2, <2>3, Zenon DEF CheckOwner
<1>6. ASSUME NEW p \in Procs, Truncate(p) PROVE ServeInv'
  <2>1. PICK l \in {"write", "writeBehind"} : Goto(p, l) /\ (l = "writeBehind" => checksOwner)
    BY <1>6 DEF Truncate
  <2> QED BY <1>6, <2>1, WriteStep, Zenon DEF Truncate
<1>7. ASSUME NEW p \in Procs, Write(p) PROVE ServeInv'
  <2>1. fd[p] \in Inodes
    BY <1>7 DEF Write, ServeInv, ServeTypeOK
  <2>2. CASE pc[p] = "write"
    <3>1. text' = [text EXCEPT ![fd[p]] = p]
      BY <1>7, <2>1, <2>2, Zenon DEF Write, ServeInv, Emptied
    <3> QED BY <1>7, <2>2, <3>1, WriteStep, Zenon DEF Write
  <2>3. CASE pc[p] = "writeBehind"
    <3>1. text' = [text EXCEPT ![fd[p]] = "garbled"] /\ checksOwner
      BY <1>7, <2>1, <2>3 DEF Write, ServeInv, BehindChecks
    <3> QED BY <1>7, <2>3, <3>1, WriteStep, Zenon DEF Write
  <2> QED BY <1>7, <2>2, <2>3 DEF Write
<1>8. ASSUME NEW p \in Procs, DropUnlock(p) PROVE ServeInv'
  <2>1. /\ pc[p] = "serving" /\ Goto(p, "unlink") /\ excl' = [excl EXCEPT ![fd[p]] = "nobody"]
        /\ UNCHANGED <<checksOwner, path, text, shared, policy, fd, held, cut>>
    BY <1>8 DEF DropUnlock
  <2>2. fd[p] # NoInode /\ ServeTypeOK'
    BY <2>1, Zenon DEF ServeInv, ServeTypeOK, Goto
  <2> QED BY <2>1, <2>2, PlainStep, Zenon DEF Labels, HasOpen
<1>9. ASSUME NEW p \in Procs, Crash(p) PROVE ServeInv'
  BY <1>9, CloseKeeps DEF Crash, Ended
<1>10. CASE UNCHANGED serveVars
  BY <1>10, Zenon DEF serveVars, ServeInv, ServeTypeOK, OpenThere, NameLeads, Emptied, BehindChecks,
     Recorded, Serving, StoppedNotAdvertised
<1> QED
  BY <1>1, <1>2, <1>3, <1>4, <1>5, <1>6, <1>7, <1>8, <1>9, <1>10, OpenKeeps, UnlinkKeeps
  DEF ServeNext

\* The inductive invariant of the lock holds in every reachable state.
THEOREM ServeInvariant == ServeSpec => []ServeInv
<1>1. ServeInit => ServeInv
  BY ServeAssumption DEF ServeInit, ServeInv, ServeTypeOK, OpenThere, NameLeads, Emptied,
     BehindChecks, Recorded, Serving, StoppedNotAdvertised, HasOpen, NoInode
<1> QED BY <1>1, ServeStepInv, PTL DEF ServeSpec

\* Whoever serves is found under the pidfile's name by every other actor, but
\* for a server whose pidfile another one's drop removed (try_acquire, drop).
THEOREM ServersAreAdvertised == ServeSpec => []Advertised
<1>1. ServeInv => Advertised
    BY DEF ServeInv, NameLeads, OpenThere, Recorded, Advertised, Serving, HasOpen
<1>. QED BY <1>1, ServeInvariant, PTL

\* A server that stopped is not found any more (drop).
THEOREM StoppedServersAreNot == ServeSpec => []StoppedNotAdvertised
<1>1. ServeInv => StoppedNotAdvertised BY DEF ServeInv
<1>. QED BY <1>1, ServeInvariant, PTL

\* Two processes serve at once only if a stopping server removed the pidfile of
\* one of them: how far "they must not silently double-serve" is kept.
THEOREM DoubleServeOnlyWhenCut ==
    ServeSpec => [](\A p, q \in Procs : Serving(p) /\ Serving(q) /\ p # q => p \in cut \/ q \in cut)
<1>1. ServeInv =>
        \A p, q \in Procs : Serving(p) /\ Serving(q) /\ p # q => p \in cut \/ q \in cut
    BY LockedAlone DEF ServeInv, NameLeads, OpenThere, Serving, HasOpen, HasLock
<1>. QED BY <1>1, ServeInvariant, PTL
=============================================================================
