--------------------------- MODULE SlotQueueProofs ---------------------------
(***************************************************************************)
(* For every number of callers, slots and priorities, and every time-out:  *)
(* the callers that run hold slots of their own, and no path out of        *)
(* with_slot leaves a ticket behind. While the age of a ticket fits its    *)
(* u8, somebody may always go, and of the tickets of one second the better *)
(* priority goes first.                                                    *)
(***************************************************************************)
EXTENDS SlotQueue, FiniteSetTheorems, WellFoundedInduction, TLAPS

\* A leaf is tried with SMT, then with Zenon, with time to spare on a busy machine.
USE SMTT(30), ZenonT(30)

\* The inductive invariant: the two properties with the types they rest on.
SlotInv == SlotTypeOK /\ SlotsExclusive /\ NoTicketLeak

\* The inductive invariant of the slots holds initially.
LEMMA SlotInitInv == SlotInit => SlotInv
BY SlotAssumption DEF SlotInit, SlotInv, SlotTypeOK, SlotsExclusive, NoTicketLeak, Slots, Free

\* Going on to the next slot keeps the types and leaves the caller waiting.
LEMMA NextSlotType ==
    ASSUME SlotTypeOK, NEW c \in Callers, NextSlot(c)
    PROVE  /\ at' \in [Callers -> Slots]
           /\ \E l \in {"try", "top"} : pc' = [pc EXCEPT ![c] = l]
           /\ \A d \in Callers \ {c} : at'[d] = at[d]
BY SlotAssumption, SMTT(30) DEF NextSlot, Goto, SlotTypeOK, Slots

\* Every step keeps the invariant.
LEMMA SlotStepInv == SlotInv /\ [SlotNext]_vars => SlotInv'
<1> SUFFICES ASSUME SlotInv, [SlotNext]_vars PROVE SlotInv'
  OBVIOUS
<1> USE SlotAssumption DEF SlotInv, SlotTypeOK, SlotsExclusive, NoTicketLeak, Goto,
                           Waiting, Free
<1>1. ASSUME NEW c \in Callers, Enqueue(c) PROVE SlotInv'
  <2>1. SlotTypeOK'
    <3>1. enq' \in [Callers -> 0..LastArrival]
      BY <1>1 DEF Enqueue
    <3>2. tickets' \subseteq Callers
      BY <1>1 DEF Enqueue
    <3> QED
      BY <1>1, <3>1, <3>2 DEF Enqueue
  <2>2. SlotsExclusive'
    BY <1>1 DEF Enqueue
  <2>3. NoTicketLeak'
    BY <1>1 DEF Enqueue
  <2> QED
    BY <2>1, <2>2, <2>3
<1>2. ASSUME NEW c \in Callers, TimedOut(c) PROVE SlotInv'
  BY <1>2 DEF TimedOut
<1>3. ASSUME NEW c \in Callers, MyTurn(c) PROVE SlotInv'
  BY <1>3, SMTT(30) DEF MyTurn, Slots
<1>4. ASSUME NEW c \in Callers, TryLock(c) PROVE SlotInv'
  <2>1. CASE lock[at[c]] = Free
    <3>1. /\ lock' = [lock EXCEPT ![at[c]] = c] /\ pc' = [pc EXCEPT ![c] = "recheck"]
          /\ at' = at /\ UNCHANGED <<now, prio, enq, tickets>>
      BY <1>4, <2>1 DEF TryLock
    <3>2. SlotTypeOK'
      BY <3>1
    <3>3. SlotsExclusive'
      BY <1>4, <2>1, <3>1 DEF TryLock
    <3>4. NoTicketLeak'
      BY <3>1
    <3> QED
      BY <3>2, <3>3, <3>4
  <2>2. CASE lock[at[c]] # Free
    <3>1. NextSlot(c) /\ lock' = lock /\ UNCHANGED <<now, prio, enq, tickets>>
      BY <1>4, <2>2 DEF TryLock
    <3>2. PICK l \in {"try", "top"} : pc' = [pc EXCEPT ![c] = l]
      BY <3>1, NextSlotType
    <3>3. at' \in [Callers -> Slots] /\ \A d \in Callers \ {c} : at'[d] = at[d]
      BY <3>1, NextSlotType
    <3>4. pc[c] = "try"
      BY <1>4 DEF TryLock
    <3>5. SlotTypeOK'
      BY <3>1, <3>2, <3>3, Zenon
    <3>6. SlotsExclusive'
      <4>1. \A s \in Slots : lock[s] # c
        BY <3>4
      <4>2. \A d \in Callers : pc'[d] \in {"recheck", "run"} => lock'[at'[d]] = d
        BY <3>1, <3>2, <3>3
      <4>3. \A s \in Slots : lock'[s] # Free =>
                pc'[lock'[s]] \in {"recheck", "run"} /\ at'[lock'[s]] = s
        <5> SUFFICES ASSUME NEW s \in Slots, lock'[s] # Free
                     PROVE  pc'[lock'[s]] \in {"recheck", "run"} /\ at'[lock'[s]] = s
          OBVIOUS
        <5>1. lock'[s] = lock[s] /\ lock[s] \in Callers \ {c}
          BY <4>1, <3>1, <3>2, <3>3
        <5>2. pc'[lock[s]] = pc[lock[s]]
          BY <5>1, <3>2
        <5>3. at'[lock[s]] = at[lock[s]]
          BY <5>1, <3>3, Zenon
        <5> QED
          BY <5>1, <5>2, <5>3
      <4> QED
        BY <4>2, <4>3
    <3>7. NoTicketLeak'
      BY <3>1, <3>2
    <3> QED
      BY <3>5, <3>6, <3>7
  <2> QED
    BY <2>1, <2>2
<1>5. ASSUME NEW c \in Callers, Recheck(c) PROVE SlotInv'
  <2>1. CASE /\ tickets' = tickets \ {c} /\ Goto(c, "run") /\ UNCHANGED <<lock, at>>
    BY <1>5, <2>1 DEF Recheck
  <2>2. CASE /\ lock' = [lock EXCEPT ![at[c]] = Free] /\ NextSlot(c)
             /\ tickets' = tickets
    <3>1. PICK l \in {"try", "top"} : pc' = [pc EXCEPT ![c] = l]
      BY <2>2, NextSlotType
    <3>2. at' \in [Callers -> Slots] /\ \A d \in Callers \ {c} : at'[d] = at[d]
      BY <2>2, NextSlotType
    <3>3. pc[c] = "recheck" /\ UNCHANGED <<now, prio, enq>>
      BY <1>5 DEF Recheck
    <3>4. SlotTypeOK'
      BY <2>2, <3>1, <3>2, <3>3, Zenon
    <3>5. SlotsExclusive'
      <4>1. \A s \in Slots : lock'[s] # c
        BY <2>2, <3>3
      <4>2. \A d \in Callers : pc'[d] \in {"recheck", "run"} => lock'[at'[d]] = d
        BY <2>2, <3>1, <3>2, <3>3
      <4>3. \A s \in Slots : lock'[s] # Free =>
                pc'[lock'[s]] \in {"recheck", "run"} /\ at'[lock'[s]] = s
        <5> SUFFICES ASSUME NEW s \in Slots, lock'[s] # Free
                     PROVE  pc'[lock'[s]] \in {"recheck", "run"} /\ at'[lock'[s]] = s
          OBVIOUS
        <5>1. lock'[s] = lock[s] /\ lock[s] \in Callers \ {c}
          BY <4>1, <2>2, <3>1, <3>2, <3>3
        <5>2. pc'[lock[s]] = pc[lock[s]]
          BY <5>1, <3>1
        <5>3. at'[lock[s]] = at[lock[s]]
          BY <5>1, <3>2, Zenon
        <5> QED
          BY <5>1, <5>2, <5>3
      <4> QED
        BY <4>2, <4>3
    <3>6. NoTicketLeak'
      BY <2>2, <3>1
    <3> QED
      BY <3>4, <3>5, <3>6
  <2> QED
    BY <1>5, <2>1, <2>2 DEF Recheck
<1>6. ASSUME NEW c \in Callers, Finish(c) PROVE SlotInv'
  <2>1. SlotTypeOK'
    BY <1>6 DEF Finish
  <2>2. SlotsExclusive'
    BY <1>6 DEF Finish
  <2>3. NoTicketLeak'
    BY <1>6 DEF Finish
  <2> QED
    BY <2>1, <2>2, <2>3
<1>7. ASSUME NEW c \in Callers, Kill(c) PROVE SlotInv'
  BY <1>7 DEF Kill, Live
<1>8. CASE Tick
  BY <1>8 DEF Tick
<1>9. CASE UNCHANGED vars
  BY <1>9 DEF vars
<1> QED
  BY <1>1, <1>2, <1>3, <1>4, <1>5, <1>6, <1>7, <1>8, <1>9 DEF SlotNext, Work

\* The invariant holds in every reachable state.
THEOREM SlotInvariant == SlotSpec => []SlotInv
<1>1. SlotInit => SlotInv
  BY SlotInitInv
<1>2. SlotInv /\ [SlotNext]_vars => SlotInv'
  BY SlotStepInv
<1> QED
  BY <1>1, <1>2, PTL DEF SlotSpec

\* A caller that runs f, or rechecks its turn, holds the lock of its slot, and a
\* slot is held only by such a caller.
THEOREM RunnersHoldSlots == SlotSpec => []SlotsExclusive
BY SlotInvariant, PTL DEF SlotInv

\* No return from with_slot leaves its ticket in the waiting directory.
THEOREM TicketsAreRemoved == SlotSpec => []NoTicketLeak
BY SlotInvariant, PTL DEF SlotInv

\* So two callers that run f at the same time use different slots.
THEOREM DistinctSlots ==
    ASSUME SlotInv, NEW c \in Callers, NEW d \in Callers, c # d,
           pc[c] = "run", pc[d] = "run"
    PROVE  at[c] # at[d]
BY DEF SlotInv, SlotsExclusive
-----------------------------------------------------------------------------
\* The refinement mapping, by name
Where == [c \in Callers |-> IF Waiting(c) THEN "waiting"
                           ELSE IF pc[c] = "run" THEN "inside" ELSE pc[c]]
Running == {c \in Callers : pc[c] = "run"}

\* Callers that hold slots of their own are no more than the slots.
LEMMA HoldersFit ==
    ASSUME SlotInv, NEW S \in SUBSET Callers,
           \A c \in S : pc[c] \in {"recheck", "run"}
    PROVE  IsFiniteSet(S) /\ Cardinality(S) <= MaxConcurrent
<1> DEFINE f == [c \in S |-> at[c]]
<1>1. f \in Injection(S, Slots)
  <2>1. f \in [S -> Slots]
    BY DEF SlotInv, SlotTypeOK
  <2>2. \A c, d \in S : f[c] = f[d] => c = d
    BY DEF SlotInv, SlotsExclusive
  <2> QED BY <2>1, <2>2 DEF Injection, IsInjective
<1>2. IsFiniteSet(Slots) /\ Cardinality(Slots) = MaxConcurrent
  <2>1. 0 \in Int /\ MaxConcurrent - 1 \in Int /\ ~(0 > MaxConcurrent - 1)
        /\ (MaxConcurrent - 1) - 0 + 1 = MaxConcurrent
    BY SlotAssumption
  <2> QED BY <2>1, FS_Interval DEF Slots
<1> HIDE DEF f
<1> QED BY <1>1, <1>2, FS_Injection

\* A caller that holds a slot and does not run yet leaves one for itself.
LEMMA RoomForOne ==
    ASSUME SlotInv, NEW c \in Callers, pc[c] = "recheck"
    PROVE  Cardinality(Running) < MaxConcurrent
<1>1. IsFiniteSet(Running)
  BY HoldersFit DEF Running
<1>2. Cardinality(Running \cup {c}) <= MaxConcurrent
  BY HoldersFit DEF Running
<1>3. c \notin Running
  BY DEF Running
<1>4. Cardinality(Running \cup {c}) = Cardinality(Running) + 1
  BY <1>1, <1>3, FS_AddElement, Zenon
<1>5. Cardinality(Running) \in Nat
  BY <1>1, FS_CardinalityType
<1> QED BY <1>2, <1>4, <1>5, SlotAssumption

\* Every step of with_slot is a step of the limiter or changes nothing there.
LEMMA LimitStep ==
    SlotInv /\ [SlotNext]_vars => [Limiter!LimitNext]_Where
<1> SUFFICES ASSUME SlotInv, [SlotNext]_vars
             PROVE  Limiter!LimitNext \/ Where' = Where
  OBVIOUS
<1>0. pc \in [Callers -> {"out", "top", "try", "recheck", "run", "ok", "timeout", "killed"}]
  BY DEF SlotInv, SlotTypeOK
<1>1. ASSUME NEW c \in Callers, NEW l, pc' = [pc EXCEPT ![c] = l]
      PROVE  Where' = [Where EXCEPT ![c] =
                          IF l \in {"top", "try", "recheck"} THEN "waiting"
                          ELSE IF l = "run" THEN "inside" ELSE l]
  BY <1>0, <1>1, Zenon DEF Where, Waiting
<1>2. ASSUME NEW c \in Callers, Waiting(c),
             NEW l \in {"top", "try", "recheck"}, pc' = [pc EXCEPT ![c] = l]
      PROVE  Where' = Where
  BY <1>0, <1>2 DEF Where, Waiting
<1>3. ASSUME NEW c \in Callers,
             \/ Limiter!Arrive(c) \/ Limiter!Admit(c) \/ Limiter!Leave(c)
             \/ Limiter!GiveUp(c) \/ Limiter!Die(c)
      PROVE  Limiter!LimitNext
  BY <1>3 DEF Limiter!LimitNext
<1>4. ASSUME NEW c \in Callers, Enqueue(c) PROVE Limiter!Arrive(c)
  <2>1. Where[c] = "out"
    BY <1>4 DEF Enqueue, Where, Waiting
  <2>2. Where' = [Where EXCEPT ![c] = "waiting"]
    BY <1>1, <1>4, Zenon DEF Enqueue, Goto
  <2> QED BY <2>1, <2>2 DEF Limiter!Arrive, Limiter!Move, Where
<1>5. ASSUME NEW c \in Callers, TimedOut(c) PROVE Limiter!GiveUp(c)
  <2>1. Where[c] = "waiting"
    BY <1>5 DEF TimedOut, Where, Waiting
  <2>2. Where' = [Where EXCEPT ![c] = "timeout"]
    BY <1>1, <1>5, Zenon DEF TimedOut, Goto
  <2> QED BY <2>1, <2>2 DEF Limiter!GiveUp, Limiter!Move, Where
<1>6. ASSUME NEW c \in Callers, MyTurn(c) PROVE Where' = Where
  BY <1>2, <1>6, Zenon DEF MyTurn, Waiting, Goto
<1>7. ASSUME NEW c \in Callers, TryLock(c) PROVE Where' = Where
  <2>1. PICK l \in {"top", "try", "recheck"} : pc' = [pc EXCEPT ![c] = l]
    BY <1>7, NextSlotType DEF TryLock, Goto, SlotInv
  <2> QED BY <2>1, <1>2, <1>7, Zenon DEF TryLock, Waiting
<1>8. ASSUME NEW c \in Callers, Recheck(c) PROVE Limiter!Admit(c) \/ Where' = Where
  <2>1. CASE Goto(c, "run")
    <3>1. Where[c] = "waiting"
      BY <1>8 DEF Recheck, Where, Waiting
    <3>2. Where' = [Where EXCEPT ![c] = "inside"]
      BY <1>1, <2>1, Zenon DEF Goto
    <3>3. Limiter!Inside = Running
      BY <1>0 DEF Limiter!Inside, Running, Waiting
    <3>4. Cardinality(Limiter!Inside) < MaxConcurrent
      BY <3>3, <1>8, RoomForOne DEF Recheck
    <3>5. Limiter!Move(c, "waiting", "inside")
      BY <3>1, <3>2 DEF Limiter!Move, Where
    <3>6. \A S : Limiter!Cardinality(S) = Cardinality(S)
      BY Zenon DEF Limiter!Cardinality, Cardinality
    <3> QED BY <3>4, <3>5, <3>6 DEF Limiter!Admit
  <2>2. CASE NextSlot(c)
    <3>1. PICK l \in {"top", "try"} : pc' = [pc EXCEPT ![c] = l]
      BY <2>2, NextSlotType DEF SlotInv
    <3> QED BY <3>1, <1>2, <1>8, Zenon DEF Recheck, Waiting
  <2> QED BY <1>8, <2>1, <2>2 DEF Recheck
<1>9. ASSUME NEW c \in Callers, Finish(c) PROVE Limiter!Leave(c)
  <2>1. Where[c] = "inside"
    BY <1>9 DEF Finish, Where, Waiting
  <2>2. Where' = [Where EXCEPT ![c] = "ok"]
    BY <1>1, <1>9, Zenon DEF Finish, Goto
  <2> QED BY <2>1, <2>2 DEF Limiter!Leave, Limiter!Move, Where
<1>10. ASSUME NEW c \in Callers, Kill(c) PROVE Limiter!Die(c)
  <2>1. Where[c] \in {"waiting", "inside"}
    BY <1>10 DEF Kill, Live, Where, Waiting
  <2>2. Where' = [Where EXCEPT ![c] = "killed"]
    BY <1>1, <1>10, Zenon DEF Kill, Goto
  <2> QED BY <2>1, <2>2 DEF Limiter!Die, Limiter!Move, Where
<1>11. CASE Tick \/ UNCHANGED vars
  BY <1>11 DEF Tick, vars, Where, Waiting
<1> QED
  BY <1>3, <1>4, <1>5, <1>6, <1>7, <1>8, <1>9, <1>10, <1>11 DEF SlotNext, Work

\* For every number of callers and slots with_slot implements the limiter:
\* nobody is let in while MaxConcurrent callers run.
THEOREM SlotQueueLimits == SlotSpec => LimitsConcurrency
<1>1. SlotInit => Limiter!LimitInit
  BY DEF SlotInit, Limiter!LimitInit, Waiting
<1>2. SlotInv /\ [SlotNext]_vars => [Limiter!LimitNext]_Where
  BY LimitStep
<1> QED
  BY <1>1, <1>2, SlotInvariant, PTL DEF SlotSpec, LimitsConcurrency, Limiter!LimitSpec, Where
-----------------------------------------------------------------------------
\* What the turns rest on: a waiting caller's ticket is in the directory and is
\* no older than the time-out.
AgeInv ==
    \A c \in Callers :
        /\ enq[c] <= now
        /\ Waiting(c) => c \in tickets /\ now <= enq[c] + Timeout

\* Every step keeps it: the clock does not pass a deadline that a caller still
\* has to notice.
LEMMA AgeStep == SlotInv /\ AgeInv /\ [SlotNext]_vars => AgeInv'
<1> SUFFICES ASSUME SlotInv, AgeInv, [SlotNext]_vars PROVE AgeInv'
  OBVIOUS
<1> USE SlotAssumption DEF SlotInv, SlotTypeOK, AgeInv, Goto, Waiting
<1>1. ASSUME NEW c \in Callers, Enqueue(c) PROVE AgeInv'
  BY <1>1 DEF Enqueue
<1>2. ASSUME NEW c \in Callers, TimedOut(c) PROVE AgeInv'
  BY <1>2 DEF TimedOut
<1>3. ASSUME NEW c \in Callers, MyTurn(c) PROVE AgeInv'
  BY <1>3 DEF MyTurn
<1>4. ASSUME NEW c \in Callers, TryLock(c) PROVE AgeInv'
  <2>1. PICK l \in {"top", "try", "recheck"} : pc' = [pc EXCEPT ![c] = l]
    BY <1>4, NextSlotType DEF TryLock
  <2> QED BY <2>1, <1>4 DEF TryLock
<1>5. ASSUME NEW c \in Callers, Recheck(c) PROVE AgeInv'
  <2>1. CASE tickets' = tickets \ {c} /\ Goto(c, "run")
    BY <1>5, <2>1 DEF Recheck
  <2>2. CASE NextSlot(c) /\ tickets' = tickets
    <3>1. PICK l \in {"top", "try"} : pc' = [pc EXCEPT ![c] = l]
      BY <2>2, NextSlotType
    <3> QED BY <3>1, <2>2, <1>5 DEF Recheck
  <2> QED BY <1>5, <2>1, <2>2 DEF Recheck
<1>6. ASSUME NEW c \in Callers, Finish(c) PROVE AgeInv'
  BY <1>6 DEF Finish
<1>7. ASSUME NEW c \in Callers, Kill(c) PROVE AgeInv'
  BY <1>7 DEF Kill
<1>8. CASE Tick
  BY <1>8 DEF Tick
<1>9. CASE UNCHANGED vars
  BY <1>9 DEF vars
<1> QED
  BY <1>1, <1>2, <1>3, <1>4, <1>5, <1>6, <1>7, <1>8, <1>9 DEF SlotNext, Work

\* The invariant of the tickets' ages holds in every reachable state.
THEOREM AgesInvariant == SlotSpec => []AgeInv
<1>1. SlotInit => AgeInv
  BY DEF SlotInit, AgeInv, Waiting
<1> QED
  BY <1>1, AgeStep, SlotInvariant, PTL DEF SlotSpec

\* A non-empty set of numbers has a least one.
LEMMA LeastNumber ==
    ASSUME NEW S \in SUBSET Nat, S # {}
    PROVE  \E m \in S : \A n \in S : m <= n
<1> DEFINE R == OpToRel(<, Nat)
<1>1. IsWellFoundedOn(R, Nat)
  BY NatLessThanWellFounded, Zenon
<1>2. \A x, y \in Nat : x < y => <<x, y>> \in R
  BY DEF OpToRel
<1> HIDE DEF R
<1>3. PICK m \in S : \A n \in S : ~(<<n, m>> \in R)
  BY <1>1, WFMin, Zenon
<1>4. ASSUME NEW n \in S PROVE m <= n
  <2>1. m \in Nat /\ n \in Nat /\ ~(n < m)
    BY <1>2, <1>3, Zenon
  <2> QED BY <2>1
<1> QED BY <1>4

\* A ticket of least value of some measure.
LEMMA LeastTicket ==
    ASSUME NEW S, S # {}, NEW f \in [S -> Nat]
    PROVE  \E c \in S : \A d \in S : f[c] <= f[d]
<1>1. {f[c] : c \in S} \in SUBSET Nat /\ {f[c] : c \in S} # {}
  OBVIOUS
<1>2. PICK m \in {f[c] : c \in S} : \A n \in {f[c] : c \in S} : m <= n
  BY <1>1, LeastNumber, Zenon
<1> QED BY <1>2

\* Ranks are bytes.
LEMMA RankType == \A p \in 0..4, s \in Nat : Rank(p, s) \in 0..255
BY DEF Rank

\* Waiting longer never improves a rank before the count of seconds wraps.
LEMMA RankGrows ==
    \A p \in 0..4, s, t \in 0..255 : s <= t => Rank(p, s) <= Rank(p, t)
BY DEF Rank

\* Whole seconds: the age read off a ticket name is the caller's own count of
\* seconds or one more.
LEMMA SecondAges ==
    ASSUME NEW e \in Nat, NEW t \in Nat, e <= t
    PROVE  /\ Second(t - e) \in Nat /\ Second(t) - Second(e) \in Nat
           /\ Second(t - e) <= Second(t) - Second(e)
           /\ Second(t) - Second(e) <= Second(t - e) + 1
BY DEF Second

\* Of a wait of at most 2m half seconds both count at most m seconds.
LEMMA SecondsWithin ==
    ASSUME NEW e \in Nat, NEW t \in Nat, e <= t, NEW m \in Nat, t - e <= 2 * m
    PROVE  Second(t) - Second(e) \in 0..m /\ Second(t - e) \in 0..m
BY DEF Second

\* Among waiting tickets one is named first.
LEMMA FirstName ==
    ASSUME SlotTypeOK, NEW S \in SUBSET Callers, S # {}
    PROVE  \E c \in S : \A d \in S \ {c} : NamedBefore(c, d)
<1> DEFINE P == {c \in S : \A d \in S : prio[c] <= prio[d]}
           E == {c \in P : \A d \in P : Second(enq[c]) <= Second(enq[d])}
<1>0. \A c \in Callers : prio[c] \in Nat /\ Second(enq[c]) \in Nat /\ c \in Nat
  <2> SUFFICES ASSUME NEW c \in Callers
               PROVE  prio[c] \in Nat /\ Second(enq[c]) \in Nat /\ c \in Nat
    OBVIOUS
  <2>1. prio[c] \in 0..4
    BY SlotAssumption, Zenon DEF SlotTypeOK
  <2>2. enq[c] \in Nat
    BY SlotAssumption DEF SlotTypeOK
  <2>3. c \in Nat
    BY SlotAssumption
  <2> QED BY <2>1, <2>2, <2>3 DEF Second
<1>1. P # {}
  <2> DEFINE f == [c \in S |-> prio[c]]
  <2>1. f \in [S -> Nat]
    BY <1>0
  <2> HIDE DEF f
  <2>2. PICK c \in S : \A d \in S : f[c] <= f[d]
    BY <2>1, LeastTicket
  <2> QED BY <2>2 DEF f
<1>2. E # {}
  <2> DEFINE f == [c \in P |-> Second(enq[c])]
  <2>1. f \in [P -> Nat]
    BY <1>0
  <2> HIDE DEF f, P
  <2>2. PICK c \in P : \A d \in P : f[c] <= f[d]
    BY <1>1, <2>1, LeastTicket
  <2> QED BY <2>2 DEF f
<1>3. PICK c \in E : \A d \in E : c <= d
  <2>1. E \in SUBSET Nat
    BY <1>0
  <2> HIDE DEF E
  <2> QED BY <1>2, <2>1, LeastNumber
<1>4. ASSUME NEW d \in S \ {c} PROVE NamedBefore(c, d)
  <2>1. prio[c] <= prio[d] /\ (prio[c] = prio[d] => d \in P)
    BY <1>0
  <2>2. d \in P => Second(enq[c]) <= Second(enq[d])
                   /\ (Second(enq[c]) = Second(enq[d]) => d \in E)
    BY <1>0
  <2>3. d \in E => c < d
    BY <1>0, <1>3
  <2> HIDE DEF P, E
  <2>4. c \in Callers /\ d \in Callers
    BY DEF P, E
  <2> QED BY <1>0, <2>1, <2>2, <2>3, <2>4 DEF NamedBefore
<1> QED BY <1>4

\* The ranks of a caller are bytes, and the seconds they count are numbers.
LEMMA Ranks ==
    ASSUME SlotInv, AgeInv, NEW c \in Callers
    PROVE  /\ TicketRank(c) \in 0..255 /\ OwnRank(c) \in 0..255
           /\ prio[c] \in 0..4 /\ enq[c] \in Nat /\ now \in Nat /\ enq[c] <= now
<1>1. prio[c] \in 0..4
  BY SlotAssumption, Zenon DEF SlotInv, SlotTypeOK
<1>2. enq[c] \in Nat /\ now \in Nat /\ enq[c] <= now
  BY SlotAssumption DEF SlotInv, SlotTypeOK, AgeInv
<1>3. Second(now - enq[c]) \in Nat /\ Second(now) - Second(enq[c]) \in Nat
  BY <1>2, SecondAges, Zenon
<1> QED BY <1>1, <1>2, <1>3, RankType DEF TicketRank, OwnRank

\* While tickets wait, some of them have the best rank.
LEMMA SomeBest ==
    ASSUME SlotInv, AgeInv, tickets # {}
    PROVE  Best # {} /\ Best \subseteq tickets
<1> DEFINE f == [c \in tickets |-> TicketRank(c)]
<1>1. f \in [tickets -> Nat]
  BY Ranks DEF SlotInv, SlotTypeOK
<1> HIDE DEF f
<1>2. PICK c \in tickets : \A d \in tickets : f[c] <= f[d]
  BY <1>1, LeastTicket
<1>3. \A d \in tickets : TicketRank(c) <= TicketRank(d)
  BY <1>2 DEF f
<1>4. c \in Best
  BY <1>3, Zenon DEF Best
<1> QED BY <1>4, Zenon DEF Best

\* Callers do not all yield to each other: the first name among the best tickets
\* belongs to a waiting caller, whose own rank is no worse than that ticket's.
\* The u8 count of seconds must not wrap while a caller waits: a time-out of at
\* most 255 seconds (SlotQueue::new sets 30).
THEOREM TurnsNeverStall ==
    ASSUME Timeout <= 510
    PROVE  SlotSpec => []SomeoneMayGo
<1>1. SlotInv /\ AgeInv => SomeoneMayGo
  <2> SUFFICES ASSUME SlotInv, AgeInv, NEW w \in Callers, Waiting(w),
                      \A c \in Callers : pc[c] # "killed"
               PROVE  \E c \in Callers : Waiting(c) /\ IsMyTurn(c)
    BY DEF SomeoneMayGo
  <2>1. Best # {} /\ Best \subseteq tickets /\ tickets \subseteq Callers
    BY SomeBest DEF AgeInv, SlotInv, SlotTypeOK
  <2>2. PICK c \in Best : \A d \in Best \ {c} : NamedBefore(c, d)
    BY <2>1, FirstName DEF SlotInv
  <2>3. c \in Callers /\ Waiting(c)
    BY <2>1 DEF SlotInv, NoTicketLeak
  <2>4. OwnRank(c) <= TicketRank(c)
    <3>1. prio[c] \in 0..4 /\ enq[c] \in Nat /\ now \in Nat /\ enq[c] <= now
      BY <2>3, Ranks
    <3>2. now - enq[c] <= 2 * 255
      BY <2>3, <3>1, SlotAssumption DEF AgeInv
    <3>3. /\ Second(now) - Second(enq[c]) \in 0..255
          /\ Second(now - enq[c]) \in 0..255
      BY <3>1, <3>2, 255 \in Nat, SecondsWithin, Zenon
    <3>4. Second(now - enq[c]) \in Nat
          /\ Second(now - enq[c]) <= Second(now) - Second(enq[c])
      BY <3>1, SecondAges, Zenon
    <3> QED BY <3>1, <3>3, <3>4, RankGrows, Zenon DEF OwnRank, TicketRank
  <2>5. IsMyTurn(c)
    <3> SUFFICES ASSUME NEW b \in Best
                 PROVE  \/ OwnRank(c) < TicketRank(b)
                        \/ OwnRank(c) = TicketRank(b)
      BY <2>2 DEF IsMyTurn
    <3>1. TicketRank(c) <= TicketRank(b)
      BY <2>1 DEF Best
    <3>2. OwnRank(c) \in Nat /\ TicketRank(c) \in Nat /\ TicketRank(b) \in Nat
      BY <2>1, Ranks
    <3> QED BY <2>4, <3>1, <3>2
  <2> QED BY <2>3, <2>5
<1> QED BY <1>1, SlotInvariant, AgesInvariant, PTL

\* The caller that the recheck lets in is not behind a ticket of better priority
\* and of its own second.  The ranks must not reach the u8 limit, where they are
\* all equal, while a caller waits: a time-out of at most 251 seconds.
THEOREM BetterPriorityFirst ==
    ASSUME Timeout <= 502
    PROVE  SlotSpec => PriorityFirst
<1>1. ASSUME SlotInv, AgeInv, [SlotNext]_vars, NEW c \in Callers, NEW d \in Callers,
             pc[c] = "recheck", pc'[c] = "run", d \in tickets, prio[d] < prio[c],
             Second(enq[d]) = Second(enq[c])
      PROVE  FALSE
  <2>1. IsMyTurn(c)
    <3>1. \E e \in Callers : Recheck(e) /\ Goto(e, "run") /\ IsMyTurn(e) /\ e = c
      <4> USE <1>1 DEF SlotInv, SlotTypeOK, Goto
      <4>1. ASSUME NEW e \in Callers, TryLock(e) PROVE FALSE
        BY <4>1, NextSlotType DEF TryLock
      <4>2. ASSUME NEW e \in Callers, Recheck(e)
            PROVE  Goto(e, "run") /\ IsMyTurn(e) /\ e = c
        BY <4>2, NextSlotType DEF Recheck
      <4>3. ASSUME NEW e \in Callers,
                   Enqueue(e) \/ TimedOut(e) \/ MyTurn(e) \/ Finish(e) \/ Kill(e)
            PROVE  FALSE
        BY <4>3 DEF Enqueue, TimedOut, MyTurn, Finish, Kill
      <4>4. CASE Tick \/ UNCHANGED vars
        BY <4>4 DEF Tick, vars
      <4> QED BY <4>1, <4>2, <4>3, <4>4 DEF SlotNext, Work
    <3> QED BY <3>1
  <2> DEFINE s == Second(now) - Second(enq[c])
             o == Second(now - enq[c])
  <2>2. /\ prio[c] \in 0..4 /\ enq[c] \in Nat /\ now \in Nat /\ enq[c] <= now
        /\ prio[d] \in 0..4
    BY <1>1, Ranks
  <2>3. now - enq[c] <= 2 * 251
    BY <1>1, <2>2, SlotAssumption DEF AgeInv, Waiting
  <2>4. s \in 0..251 /\ o \in 0..251 /\ s <= o + 1
    <3>1. s \in 0..251 /\ o \in 0..251
      BY <2>2, <2>3, 251 \in Nat, SecondsWithin, Zenon
    <3>2. s <= o + 1
      BY <2>2, SecondAges, Zenon
    <3> QED BY <3>1, <3>2
  <2>5. TicketRank(d) = Rank(prio[d], s) /\ TicketRank(c) = Rank(prio[c], s)
        /\ OwnRank(c) = Rank(prio[c], o)
    BY <1>1 DEF TicketRank, OwnRank
  <2> HIDE DEF s, o
  <2>6. /\ TicketRank(d) < 255 /\ TicketRank(d) < TicketRank(c)
        /\ TicketRank(d) <= OwnRank(c)
    BY <1>1, <2>2, <2>4, <2>5 DEF Rank
  <2>7. PICK b \in Best : b \in Callers /\ TicketRank(b) <= TicketRank(d)
    <3>1. PICK b \in Best : TRUE
      BY <1>1, SomeBest
    <3>2. b \in tickets /\ TicketRank(b) <= TicketRank(d)
      BY <1>1, <3>1, Zenon DEF Best
    <3> QED BY <1>1, <3>1, <3>2 DEF SlotInv, SlotTypeOK
  <2>8. TicketRank(b) \in Nat /\ TicketRank(d) \in Nat /\ TicketRank(c) \in Nat
        /\ OwnRank(c) \in Nat
    BY <1>1, <2>7, Ranks
  <2>9. c \in Best
    BY <2>1, <2>6, <2>7, <2>8 DEF IsMyTurn
  <2> QED BY <1>1, <2>6, <2>8, <2>9 DEF Best
<1>2. SlotInv /\ AgeInv /\ [SlotNext]_vars =>
        [\A c, d \in Callers :
           /\ pc[c] = "recheck" /\ pc'[c] = "run"
           /\ d \in tickets /\ prio[d] < prio[c]
           => Second(enq[d]) # Second(enq[c])]_vars
  BY <1>1
<1> QED BY <1>2, SlotInvariant, AgesInvariant, PTL DEF SlotSpec, PriorityFirst
=============================================================================
