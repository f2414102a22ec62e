-------------------------- MODULE CoordinationProofs --------------------------
(***************************************************************************)
(* How callers coordinate, for any number of them: the groups of the       *)
(* speculative coalescer and the transaction contract's guards.            *)
(***************************************************************************)
EXTENDS TransactionContract, SpeculativeCoalescer, FiniteSetTheorems,
        WellFoundedInduction, TLAPS

\* A leaf is tried with SMT, then with Zenon, with time to spare on a busy machine.
USE SMTT(30), ZenonT(30)

-----------------------------------------------------------------------------
(* The speculative coalescer.                                              *)

\* What each caller is told, and with whom it waits.
OneSleeper ==
    \A t, u \in Tasks :
        task[t] = "sleep" /\ task[u] = "sleep" /\ taskKey[t] = taskKey[u] => t = u
PendingSleeps ==
    \A k \in Keys : k \in pending <=> \E t \in Tasks : task[t] = "sleep" /\ taskKey[t] = k
WaitersCall == \A k \in Keys : \A c \in waiters[k] : calling[c] = k
BatchCalls == \A t \in Tasks : \A c \in batch[t] : calling[c] = taskKey[t] /\ started[c]
BatchAlone ==
    \A t \in Tasks : \A c \in batch[t] :
        (\A k \in Keys : c \notin waiters[k]) /\ \A u \in Tasks \ {t} : c \notin batch[u]
Unanswered == \A c \in Callers : calling[c] # "no" => got[c] = "none"

\* A group is registered exactly while one task sleeps for it; whoever is in a
\* group waits for its key, and whoever is with a running task called before
\* the execution began and is in no other group.
CoInv ==
    /\ CoTypeOK /\ OneSleeper /\ PendingSleeps
    /\ WaitersCall /\ BatchCalls /\ BatchAlone
    /\ Unanswered /\ AnswerIsFresh

\* Coming in with a call keeps everything but the group's registration, and
\* that is left to JoinGroup and Lead.
LEMMA EnterKeeps ==
    ASSUME CoInv, NEW c \in Callers, NEW k \in Keys, Enter(c, k), batch' = batch,
           \A t \in Tasks : batch[t] # {} => taskKey'[t] = taskKey[t]
    PROVE  WaitersCall' /\ BatchCalls' /\ BatchAlone' /\ Unanswered' /\ AnswerIsFresh'
<1> USE CoalescerAssumption DEF CoInv, CoTypeOK
<1>1. /\ calling[c] = "no"
      /\ calling' \in [Callers -> Keys \cup {"no"}] /\ waiters' \in [Keys -> SUBSET Callers]
      /\ calling'[c] = k /\ got'[c] = "none"
      /\ waiters'[k] = waiters[k] \cup {c}
      /\ \A d \in Callers \ {c} :
            calling'[d] = calling[d] /\ got'[d] = got[d] /\ started'[d] = started[d]
      /\ \A j \in Keys \ {k} : waiters'[j] = waiters[j]
  BY DEF Enter
<1>2. (\A j \in Keys : c \notin waiters[j]) /\ \A t \in Tasks : c \notin batch[t]
  BY <1>1 DEF WaitersCall, BatchCalls
<1> HIDE DEF CoInv, CoTypeOK
<1>3. WaitersCall'
  BY <1>1, <1>2 DEF CoInv, CoTypeOK, WaitersCall
<1>4. BatchCalls'
  BY <1>1, <1>2 DEF CoInv, CoTypeOK, BatchCalls
<1>5. BatchAlone'
  BY <1>1, <1>2 DEF CoInv, CoTypeOK, BatchAlone
<1>6. Unanswered' /\ AnswerIsFresh'
  BY <1>1 DEF CoInv, Unanswered, AnswerIsFresh
<1> QED BY <1>3, <1>4, <1>5, <1>6

\* A cancelled caller leaves its group and whatever batch it is in.
LEMMA CancelKeeps ==
    ASSUME CoInv, NEW c \in Callers, Cancel(c)
    PROVE  CoInv'
<1>1. UNCHANGED <<got, pending, task, taskKey, started>>
  BY DEF Cancel
<1>2. /\ calling' \in [Callers -> Keys \cup {"no"}]
      /\ calling'[c] = "no" /\ calling[c] # "no"
      /\ \A d \in Callers \ {c} : calling'[d] = calling[d]
  BY DEF Cancel, CoInv, CoTypeOK
<1>3. /\ waiters' \in [Keys -> SUBSET Callers] /\ batch' \in [Tasks -> SUBSET Callers]
      /\ \A k \in Keys : waiters'[k] = waiters[k] \ {c}
      /\ \A t \in Tasks : batch'[t] = batch[t] \ {c}
  BY DEF Cancel, CoInv, CoTypeOK
<1>4. CoTypeOK'
  BY <1>1, <1>2, <1>3 DEF CoInv, CoTypeOK
<1>5. OneSleeper' /\ PendingSleeps'
  BY <1>1 DEF CoInv, OneSleeper, PendingSleeps
<1>6. WaitersCall' /\ BatchCalls'
  BY <1>1, <1>2, <1>3 DEF CoInv, CoTypeOK, WaitersCall, BatchCalls
<1>7. BatchAlone'
  BY <1>3 DEF CoInv, CoTypeOK, BatchAlone
<1>8. Unanswered' /\ AnswerIsFresh'
  BY <1>1, <1>2 DEF CoInv, Unanswered, AnswerIsFresh
<1> QED BY <1>4, <1>5, <1>6, <1>7, <1>8 DEF CoInv

\* The first caller of a group brings the task that sleeps for it.
LEMMA LeadKeeps ==
    ASSUME CoInv, NEW c \in Callers, NEW k \in Keys, Lead(c, k)
    PROVE  CoInv'
<1>1. PICK t \in Tasks : /\ task[t] = "free"
                         /\ task' = [task EXCEPT ![t] = "sleep"]
                         /\ taskKey' = [taskKey EXCEPT ![t] = k]
  BY Zenon DEF Lead
<1>2. /\ k \notin pending /\ pending' = pending \cup {k}
      /\ batch' = batch /\ batch[t] = {} /\ Enter(c, k)
  BY <1>1 DEF Lead, CoInv, CoTypeOK
<1>3. /\ task' \in [Tasks -> {"free", "sleep", "run"}] /\ taskKey' \in [Tasks -> Keys]
      /\ task'[t] = "sleep" /\ taskKey'[t] = k
      /\ \A u \in Tasks \ {t} : task'[u] = task[u] /\ taskKey'[u] = taskKey[u]
  BY <1>1 DEF CoInv, CoTypeOK
<1>4. /\ calling' \in [Callers -> Keys \cup {"no"}]
      /\ got' \in [Callers -> {"none", "ok", "err"}]
      /\ started' \in [Callers -> BOOLEAN]
      /\ waiters' \in [Keys -> SUBSET Callers]
      /\ \A j \in Keys \ {k} : waiters'[j] = waiters[j]
  BY <1>2 DEF CoInv, CoTypeOK, Enter
<1>5. CoTypeOK'
  BY <1>2, <1>3, <1>4 DEF CoInv, CoTypeOK
<1>6. OneSleeper'
  BY <1>2, <1>3 DEF CoInv, OneSleeper, PendingSleeps
<1>7. PendingSleeps'
  BY <1>1, <1>2, <1>3 DEF CoInv, PendingSleeps
<1>8. WaitersCall' /\ BatchCalls' /\ BatchAlone' /\ Unanswered' /\ AnswerIsFresh'
  BY <1>2, <1>3, EnterKeeps
<1> QED BY <1>5, <1>6, <1>7, <1>8 DEF CoInv

\* The task takes its group out of the map and starts the execution.
LEMMA WindowOverKeeps ==
    ASSUME CoInv, NEW t \in Tasks, WindowOver(t)
    PROVE  CoInv'
<1> DEFINE k == taskKey[t]
<1>1. k \in Keys /\ task[t] = "sleep" /\ UNCHANGED <<calling, got, taskKey>>
  BY DEF WindowOver, CoInv, CoTypeOK
<1>2. /\ task' \in [Tasks -> {"free", "sleep", "run"}]
      /\ task'[t] = "run" /\ \A u \in Tasks \ {t} : task'[u] = task[u]
  BY DEF WindowOver, CoInv, CoTypeOK
<1>3. /\ batch' \in [Tasks -> SUBSET Callers]
      /\ batch'[t] = waiters[k] /\ \A u \in Tasks \ {t} : batch'[u] = batch[u]
  BY <1>1 DEF WindowOver, CoInv, CoTypeOK
<1>4. /\ waiters' \in [Keys -> SUBSET Callers]
      /\ waiters'[k] = {} /\ \A j \in Keys \ {k} : waiters'[j] = waiters[j]
  BY <1>1 DEF WindowOver, CoInv, CoTypeOK
<1>5. pending' = pending \ {k}
  BY DEF WindowOver
<1>6. /\ started' \in [Callers -> BOOLEAN]
      /\ \A c \in Callers : started[c] \/ calling[c] = k => started'[c]
  BY <1>1, Zenon DEF WindowOver, CoInv, CoTypeOK
<1> HIDE DEF k
<1>7. CoTypeOK'
  BY <1>1, <1>2, <1>3, <1>4, <1>5, <1>6 DEF CoInv, CoTypeOK
<1>8. OneSleeper'
  BY <1>1, <1>2 DEF CoInv, OneSleeper
<1>9. PendingSleeps'
  BY <1>1, <1>2, <1>5 DEF CoInv, PendingSleeps, OneSleeper, k
<1>10. WaitersCall'
  BY <1>1, <1>4 DEF CoInv, WaitersCall
<1>11. BatchCalls'
  BY <1>1, <1>3, <1>6 DEF CoInv, CoTypeOK, BatchCalls, WaitersCall, k
<1>12. BatchAlone'
  <2>1. \A c \in waiters[k] : \A j \in Keys : c \notin waiters'[j]
    BY <1>1, <1>4 DEF CoInv, WaitersCall
  <2>2. \A c \in waiters[k] : \A u \in Tasks : c \notin batch[u]
    BY <1>1 DEF CoInv, BatchAlone
  <2> QED BY <2>1, <2>2, <1>3, <1>4 DEF CoInv, BatchAlone
<1>13. Unanswered' /\ AnswerIsFresh'
  BY <1>1, <1>6 DEF CoInv, Unanswered, AnswerIsFresh
<1> QED BY <1>7, <1>8, <1>9, <1>10, <1>11, <1>12, <1>13 DEF CoInv

\* The end of the execution answers exactly those in the batch.
LEMMA ExecEndsKeeps ==
    ASSUME CoInv, NEW t \in Tasks, NEW r \in {"ok", "err"}, ExecEnds(t, r)
    PROVE  CoInv'
<1>1. task[t] = "run" /\ UNCHANGED <<pending, waiters, taskKey, started>>
  BY DEF ExecEnds
<1>2. /\ task' \in [Tasks -> {"free", "sleep", "run"}]
      /\ task'[t] = "free" /\ \A u \in Tasks \ {t} : task'[u] = task[u]
  BY DEF ExecEnds, Answer, CoInv, CoTypeOK
<1>3. /\ batch' \in [Tasks -> SUBSET Callers]
      /\ batch'[t] = {} /\ \A u \in Tasks \ {t} : batch'[u] = batch[u]
  BY DEF ExecEnds, Answer, CoInv, CoTypeOK
<1>4. /\ calling' \in [Callers -> Keys \cup {"no"}]
      /\ got' \in [Callers -> {"none", "ok", "err"}]
      /\ \A c \in batch[t] : calling'[c] = "no" /\ got'[c] = r
      /\ \A c \in Callers \ batch[t] : calling'[c] = calling[c] /\ got'[c] = got[c]
  BY DEF ExecEnds, Answer, CoInv, CoTypeOK
<1>5. CoTypeOK'
  BY <1>1, <1>2, <1>3, <1>4 DEF CoInv, CoTypeOK
<1>6. OneSleeper' /\ PendingSleeps'
  BY <1>1, <1>2 DEF CoInv, OneSleeper, PendingSleeps
<1>7. WaitersCall'
  BY <1>1, <1>4 DEF CoInv, CoTypeOK, WaitersCall, BatchAlone
<1>8. BatchCalls' /\ BatchAlone'
  BY <1>1, <1>3, <1>4 DEF CoInv, CoTypeOK, BatchCalls, BatchAlone
<1>9. Unanswered'
  BY <1>4 DEF CoInv, Unanswered
<1>10. AnswerIsFresh'
  BY <1>1, <1>4 DEF CoInv, AnswerIsFresh, BatchCalls
<1> QED BY <1>5, <1>6, <1>7, <1>8, <1>9, <1>10 DEF CoInv

\* The inductive invariant of the coalescer holds in every reachable state.
THEOREM CoalescerInvariant == CoSpec => []CoInv
<1>1. CoInit => CoInv
  BY CoalescerAssumption DEF CoInit, CoInv, CoTypeOK, OneSleeper, PendingSleeps, WaitersCall,
     BatchCalls, BatchAlone, Unanswered, AnswerIsFresh
<1>2. CoInv /\ [CoNext]_coVars => CoInv'
  <2> SUFFICES ASSUME CoInv, [CoNext]_coVars PROVE CoInv'
    OBVIOUS
  <2>1. ASSUME NEW c \in Callers, NEW k \in Keys, JoinGroup(c, k) PROVE CoInv'
    <3>1. Enter(c, k) /\ k \in pending /\ UNCHANGED <<pending, task, taskKey, batch>>
      BY <2>1 DEF JoinGroup
    <3>2. CoTypeOK'
      BY <3>1 DEF CoInv, CoTypeOK, Enter
    <3>3. OneSleeper' /\ PendingSleeps'
      BY <3>1 DEF CoInv, OneSleeper, PendingSleeps
    <3>4. WaitersCall' /\ BatchCalls' /\ BatchAlone' /\ Unanswered' /\ AnswerIsFresh'
      BY <3>1, EnterKeeps
    <3> QED BY <3>2, <3>3, <3>4 DEF CoInv
  <2>2. CASE UNCHANGED coVars
    BY <2>2 DEF coVars, CoInv, CoTypeOK, OneSleeper, PendingSleeps, WaitersCall, BatchCalls,
       BatchAlone, Unanswered, AnswerIsFresh
  <2> QED BY <2>1, <2>2, CancelKeeps, LeadKeeps, WindowOverKeeps, ExecEndsKeeps DEF CoNext
<1> QED BY <1>1, <1>2, PTL DEF CoSpec

\* A registered group has exactly one task that will drain it (coalesce).
THEOREM OneTaskPerGroup == CoSpec => []GroupHasOneTask
<1>1. CoInv => GroupHasOneTask
    <2> SUFFICES ASSUME CoInv, NEW k \in Keys
                 PROVE  Cardinality({t \in Tasks : task[t] = "sleep" /\ taskKey[t] = k})
                            = IF k \in pending THEN 1 ELSE 0
        BY DEF GroupHasOneTask
    <2> DEFINE Sleepers == {t \in Tasks : task[t] = "sleep" /\ taskKey[t] = k}
    <2>1. CASE k \in pending
        <3>1. PICK t \in Tasks : task[t] = "sleep" /\ taskKey[t] = k
            BY <2>1 DEF CoInv, PendingSleeps
        <3>2. Sleepers = {t}
            BY <3>1 DEF CoInv, OneSleeper
        <3>. QED BY <2>1, <3>2, FS_Singleton, Zenon
    <2>2. CASE k \notin pending
        <3>1. Sleepers = {}
            BY <2>2 DEF CoInv, PendingSleeps
        <3>. QED BY <2>2, <3>1, FS_EmptySet
    <2>. QED BY <2>1, <2>2
<1>. QED BY <1>1, CoalescerInvariant, PTL

\* No caller is answered by an execution that began before its call (coalesce,
\* whose task takes the group out of the map before it runs the executor).
THEOREM AnswersAreFresh == CoSpec => []AnswerIsFresh
<1>1. CoInv => AnswerIsFresh BY DEF CoInv
<1>. QED BY <1>1, CoalescerInvariant, PTL

-----------------------------------------------------------------------------
(* The guards of the transaction contract.  Each has its own inductive     *)
(* invariant, over its own variables; steps of the others leave them alone. *)

\* A generation that stops has no consumers, and the consumers of the running
\* one are exactly those that attached with its number.
ProdInv ==
    /\ generation \in Nat /\ known \in [Consumers -> Nat]
    /\ attached \subseteq Consumers /\ attached = consumers
    /\ state \in {"Running", "Stopping"}
    /\ state = "Stopping" => consumers = {}
    /\ \A c \in attached : known[c] = generation

\* Requests performed or on their way all carry the last key, and there is more
\* than one only if the target deduplicates.
EffInv ==
    /\ outcome = "NotDispatched" => inFlight = {} /\ done = {}
    /\ \A x \in inFlight \cup done : x[2] = key
    /\ \A x, y \in inFlight \cup done : x = y \/ dedup
    /\ AtMostOnce

\* A coordinator that read the current version read the current children.
ParInv ==
    /\ version \in Nat /\ sealed \in BOOLEAN
    /\ seen \in [Coordinators -> [version : Nat, children : SUBSET Children]]
    /\ \A k \in Coordinators :
         ~sealed => /\ seen[k].version <= version
                    /\ seen[k].version = version => seen[k].children = DOMAIN required
    /\ DOMAIN required \subseteq Children
    /\ SealedAsSeen

\* The steps, by the guard they belong to.
PoolStep == \E r \in Reservations : Release(r) \/ \E u \in 1..MaxU64 : Reserve(r, u)
ProdStep == (\E c \in Consumers : Lookup(c) \/ Join(c) \/ Detach(c)) \/ NextGeneration
EffStep == \/ \E s, a \in BOOLEAN : Dispatch(s, a)
           \/ \E m \in inFlight : Perform(m) \/ Fail(m)
ParStep == \/ \E i \in Children : AddChild(i) \/ MarkAccepted(i)
           \/ \E k \in Coordinators : ReadMembership(k) \/ Seal(k)

\* A step of one guard leaves the variables of the others alone.
LEMMA StepOfOneGuard ==
    ASSUME [ContractNext]_contractVars
    PROVE  /\ ProdStep \/ UNCHANGED prodVars
           /\ EffStep \/ UNCHANGED effVars
           /\ ParStep \/ UNCHANGED parVars
<1>1. CASE PoolStep
  BY <1>1 DEF PoolStep, Release, Reserve
<1>2. CASE ProdStep
  BY <1>2 DEF ProdStep, Lookup, Join, Detach, NextGeneration
<1>3. CASE EffStep
  BY <1>3 DEF EffStep, Dispatch, Perform, Fail
<1>4. CASE ParStep
  BY <1>4, Zenon DEF ParStep, AddChild, MarkAccepted, ReadMembership, Seal
<1>5. CASE UNCHANGED contractVars
  BY <1>5 DEF contractVars
<1> QED
  BY <1>1, <1>2, <1>3, <1>4, <1>5 DEF ContractNext, PoolStep, ProdStep, EffStep, ParStep
-----------------------------------------------------------------------------
\* Every step keeps the invariant of the producer.
LEMMA ProdStepInv == ProdInv /\ [ContractNext]_contractVars => ProdInv'
<1> SUFFICES ASSUME ProdInv, ProdStep \/ UNCHANGED prodVars PROVE ProdInv'
  BY StepOfOneGuard
<1> USE DEF ProdInv
<1>1. ASSUME NEW c \in Consumers, Lookup(c) PROVE ProdInv'
  BY <1>1 DEF Lookup
<1>2. ASSUME NEW c \in Consumers, Join(c) PROVE ProdInv'
  BY <1>2 DEF Join
<1>3. ASSUME NEW c \in Consumers, Detach(c) PROVE ProdInv'
  BY <1>3 DEF Detach
<1>4. CASE NextGeneration
  BY <1>4 DEF NextGeneration
<1>5. CASE UNCHANGED prodVars
  BY <1>5 DEF prodVars
<1> QED
  BY <1>1, <1>2, <1>3, <1>4, <1>5 DEF ProdStep

\* Whatever consumers know and in whatever order they join and leave, one that
\* attached is served by a running generation that counts it.
THEOREM AttachedConsumersServed == ContractSpec => []AttachedIsServed
<1>1. ContractInit => ProdInv
  BY DEF ContractInit, ProdInv
<1>2. ProdInv /\ [ContractNext]_contractVars => ProdInv'
  BY ProdStepInv
<1>3. ProdInv => AttachedIsServed
  BY DEF ProdInv, AttachedIsServed
<1> QED
  BY <1>1, <1>2, <1>3, PTL DEF ContractSpec
-----------------------------------------------------------------------------
\* Every step keeps the invariant of the effect guard.
LEMMA EffStepInv == EffInv /\ [ContractNext]_contractVars => EffInv'
<1> SUFFICES ASSUME EffInv, EffStep \/ UNCHANGED effVars PROVE EffInv'
  BY StepOfOneGuard
<1> USE DEF EffInv, AtMostOnce
<1>1. ASSUME NEW s \in BOOLEAN, NEW a \in BOOLEAN, Dispatch(s, a) PROVE EffInv'
  <2> DEFINE k == IF s THEN key ELSE key + 1
  <2>1. /\ key' = k /\ outcome' = "Unknown" /\ dedup' = dedup /\ done' = done
        /\ inFlight' = inFlight \cup {<<sends + 1, k>>}
    BY <1>1 DEF Dispatch
  <2>2. CASE inFlight = {} /\ done = {}
    BY <2>1, <2>2
  <2>3. CASE s /\ dedup
    BY <2>1, <2>3
  <2> QED
    BY <1>1, <2>2, <2>3 DEF Dispatch, CanRetry
<1>2. ASSUME NEW m \in inFlight, Perform(m) PROVE EffInv'
  <2>1. CASE dedup /\ \E d \in done : d[2] = m[2]
    BY <1>2, <2>1 DEF Perform
  <2>2. CASE ~(dedup /\ \E d \in done : d[2] = m[2])
    <3>1. done' = done \cup {m} /\ inFlight' = inFlight \ {m} /\ UNCHANGED <<key, dedup>>
      BY <1>2, <2>2 DEF Perform
    <3>2. \A d \in done : d = m
      BY <2>2
    <3>3. outcome' # "NotDispatched"
      BY <1>2 DEF Perform
    <3> QED
      BY <3>1, <3>2, <3>3
  <2> QED
    BY <2>1, <2>2
<1>3. ASSUME NEW m \in inFlight, Fail(m) PROVE EffInv'
  BY <1>3 DEF Fail
<1>4. CASE UNCHANGED effVars
  BY <1>4 DEF effVars
<1> QED
  BY <1>1, <1>2, <1>3, <1>4 DEF EffStep

\* An effect retried only when can_retry_effect allows it is performed at most
\* once, however often it is sent and however requests are lost or delayed.
THEOREM EffectAtMostOnce == ContractSpec => []AtMostOnce
<1>1. ContractInit => EffInv
  BY DEF ContractInit, EffInv, AtMostOnce
<1>2. EffInv /\ [ContractNext]_contractVars => EffInv'
  BY EffStepInv
<1>3. EffInv => AtMostOnce
  BY DEF EffInv
<1> QED
  BY <1>1, <1>2, <1>3, PTL DEF ContractSpec
-----------------------------------------------------------------------------
\* Every step keeps the invariant of the participants.
LEMMA ParStepInv == ParInv /\ [ContractNext]_contractVars => ParInv'
<1> SUFFICES ASSUME ParInv, ParStep \/ UNCHANGED parVars PROVE ParInv'
  BY StepOfOneGuard
<1> USE DEF ParInv, SealedAsSeen
<1>1. ASSUME NEW i \in Children, AddChild(i) PROVE ParInv'
  <2>1. DOMAIN required' = DOMAIN required \cup {i} /\ version' = version + 1
        /\ ~sealed /\ sealed' = sealed /\ seen' = seen
    BY <1>1 DEF AddChild
  <2>2. \A k \in Coordinators : seen'[k].version <= version' /\ seen'[k].version # version'
    BY <2>1
  <2>3. version' \in Nat
    BY <2>1
  <2>4. sealed' \in BOOLEAN
    BY <2>1, Zenon
  <2>5. ~sealed'
    BY <2>1, Zenon
  <2> QED
    BY <2>1, <2>2, <2>3, <2>4, <2>5
<1>2. ASSUME NEW i \in Children, MarkAccepted(i) PROVE ParInv'
  BY <1>2 DEF MarkAccepted
<1>3. ASSUME NEW k \in Coordinators, ReadMembership(k) PROVE ParInv'
  BY <1>3 DEF ReadMembership
<1>4. ASSUME NEW k \in Coordinators, Seal(k) PROVE ParInv'
  BY <1>4 DEF Seal
<1>5. CASE UNCHANGED parVars
  BY <1>5 DEF parVars
<1> QED
  BY <1>1, <1>2, <1>3, <1>4, <1>5 DEF ParStep

\* A parent is sealed with exactly the children its sealer read, all accepted,
\* and stays so: no child slips in between the reading and the sealing.
THEOREM SealIsExact == ContractSpec => []SealedAsSeen
<1>1. ContractInit => ParInv
  <2> SUFFICES ASSUME ContractInit PROVE ParInv
    OBVIOUS
  <2>1. DOMAIN required = {}
    BY DEF ContractInit
  <2>2. version = 0 /\ sealed = FALSE
        /\ seen = [c \in Coordinators |-> [version |-> 0, children |-> {}]]
    BY DEF ContractInit
  <2>3. sealed \in BOOLEAN /\ ~sealed
    BY <2>2, Zenon
  <2>4. seen \in [Coordinators -> [version : Nat, children : SUBSET Children]]
    BY <2>2
  <2> QED
    BY <2>1, <2>2, <2>3, <2>4 DEF ParInv, SealedAsSeen
<1>2. ParInv /\ [ContractNext]_contractVars => ParInv'
  BY ParStepInv
<1>3. ParInv => SealedAsSeen
  BY DEF ParInv
<1> QED
  BY <1>1, <1>2, <1>3, PTL DEF ContractSpec

-----------------------------------------------------------------------------
(* Sum(active) is a fold over a finite set in an order that CHOOSE picks.   *)
(* What it computes is shown by induction on the size of the set, with the  *)
(* induction itself stated about a set of numbers.                          *)

\* A set of numbers with 0 in it, and with n its successor, has them all.
LEMMA CountUp ==
    ASSUME NEW S \in SUBSET Nat, 0 \in S, \A n \in S : n + 1 \in S
    PROVE  S = Nat
<1> DEFINE R == OpToRel(<, Nat)
           T == Nat \ S
<1>1. IsWellFoundedOn(R, Nat)
  BY NatLessThanWellFounded, Zenon
<1>2. \A x, y \in Nat : x < y => <<x, y>> \in R
  BY DEF OpToRel
<1> HIDE DEF R
<1>3. ASSUME T # {} PROVE FALSE
  <2>1. PICK m \in T : \A n \in T : ~(<<n, m>> \in R)
    BY <1>1, <1>3, WFMin, Zenon
  <2>2. m \in Nat /\ m - 1 \in Nat /\ m - 1 < m /\ (m - 1) + 1 = m
    BY <2>1
  <2>3. m - 1 \in T
    BY <2>1, <2>2
  <2>4. <<m - 1, m>> \in R
    BY <1>2, <2>1, <2>2
  <2> QED BY <2>1, <2>3, <2>4, Zenon
<1> QED BY <1>3, Zenon

\* Delegation is transitive,
LEMMA DelegationComposes ==
    ASSUME NEW scopes, NEW operations, NEW max \in Nat,
           NEW a \in Grants(scopes, operations, max), NEW b \in Grants(scopes, operations, max),
           NEW c \in Grants(scopes, operations, max),
           ValidateDelegation(a, b, TRUE), ValidateDelegation(b, c, TRUE)
    PROVE  ValidateDelegation(a, c, TRUE)
  BY DEF ValidateDelegation, Grants

\* so a chain of validated delegations, however long, never widens rights: its
\* last grant is one its first could have delegated.  Below is the order of the
\* scopes, of which the code asks that its caller know it.
THEOREM DelegationsAttenuate ==
    ASSUME NEW scopes, NEW operations, NEW max \in Nat, NEW Below,
           \A x, y, z \in scopes : <<x, y>> \in Below /\ <<y, z>> \in Below => <<x, z>> \in Below,
           NEW n \in Nat, NEW grant \in [0..n -> Grants(scopes, operations, max)],
           DelegationChain(grant, n, Below)
    PROVE  Attenuates(grant, n, Below)
<1> DEFINE S == {i \in Nat : i <= n => Attenuates(grant, i, Below)}
<1>1. 0 \in S
  BY DEF Attenuates
<1>2. ASSUME NEW i \in S PROVE i + 1 \in S
  <2> SUFFICES ASSUME i + 1 <= n PROVE Attenuates(grant, i + 1, Below)
    OBVIOUS
  <2>1. /\ i \in Nat /\ i \in 0..n /\ i + 1 \in 1..n /\ i + 1 \in 0..n /\ 0 \in 0..n
        /\ (i + 1) - 1 = i /\ i <= n
    BY <1>2
  <2>2. Attenuates(grant, i, Below)
    BY <1>2, <2>1
  <2> DEFINE a == grant[0]
             b == grant[i]
             c == grant[i + 1]
  <2>3. /\ a \in Grants(scopes, operations, max) /\ b \in Grants(scopes, operations, max)
        /\ c \in Grants(scopes, operations, max)
    BY <2>1
  <2>4. ValidateDelegation(b, c, <<c.scope_id, b.scope_id>> \in Below)
    BY <2>1 DEF DelegationChain
  <2>5. a.scope_id \in scopes /\ b.scope_id \in scopes /\ c.scope_id \in scopes
    BY <2>3 DEF Grants
  <2> SUFFICES ValidateDelegation(a, c, <<c.scope_id, a.scope_id>> \in Below)
    BY DEF Attenuates
  <2>6. CASE i = 0
    BY <2>4, <2>6
  <2>7. CASE i > 0
    <3>1. ValidateDelegation(a, b, <<b.scope_id, a.scope_id>> \in Below)
      BY <2>2, <2>7 DEF Attenuates
    <3> HIDE DEF a, b, c
    <3>2. <<c.scope_id, b.scope_id>> \in Below /\ <<b.scope_id, a.scope_id>> \in Below
      BY <2>4, <3>1 DEF ValidateDelegation
    <3>3. <<c.scope_id, a.scope_id>> \in Below
      BY <2>5, <3>2
    <3>4. ValidateDelegation(a, b, TRUE) /\ ValidateDelegation(b, c, TRUE)
      BY <2>4, <3>1 DEF ValidateDelegation
    <3>5. ValidateDelegation(a, c, TRUE)
      BY <2>3, <3>4, DelegationComposes
    <3> QED BY <3>3, <3>5 DEF ValidateDelegation
  <2> QED BY <2>1, <2>6, <2>7
<1> HIDE DEF S
<1>3. S = Nat
  <2>1. S \in SUBSET Nat
    BY DEF S
  <2> QED BY <1>1, <1>2, <2>1, CountUp
<1> QED BY <1>3 DEF S

\* One element of a finite set taken out
LEMMA OneLess ==
    ASSUME NEW s, IsFiniteSet(s), NEW x \in s
    PROVE  /\ IsFiniteSet(s \ {x}) /\ Cardinality(s) \in Nat \ {0}
           /\ Cardinality(s \ {x}) = Cardinality(s) - 1
<1>1. Cardinality(s) \in Nat
  BY FS_CardinalityType
<1>2. IsFiniteSet(s \ {x}) /\ Cardinality(s \ {x}) = Cardinality(s) - 1
  BY FS_RemoveElement
<1>3. Cardinality(s \ {x}) \in Nat
  BY <1>2, FS_CardinalityType
<1> QED BY <1>1, <1>2, <1>3

\* The unfolding of the fold: what it takes out first, and what it adds
Pick(s) == CHOOSE x \in s : TRUE
Unfolded(f, g) ==
    [s \in SUBSET DOMAIN f |-> IF s = {} THEN 0 ELSE f[Pick(s)] + g[s \ {Pick(s)}]]
IsFold(f, g) == g = Unfolded(f, g)

\* What it should be: a number, whatever is taken out first
SumsUp(f, g) ==
    \A s \in SUBSET DOMAIN f : g[s] \in Nat /\ \A x \in s : g[s] = f[x] + g[s \ {x}]

\* The fold over a finite domain has a function that is its own unfolding, and
\* Sum is its value for the whole domain.
LEMMA SumUnfolds ==
    ASSUME NEW f, IsFiniteSet(DOMAIN f)
    PROVE  \E g : IsFold(f, g) /\ Sum(f) = g[DOMAIN f]
<1> DEFINE D == DOMAIN f
           Upto(g, n) == \A s \in SUBSET D :
                            Cardinality(s) <= n => g[s] = Unfolded(f, g)[s]
           N == {n \in Nat : \E g : Upto(g, n)}
<1>0. \A s \in SUBSET D : /\ IsFiniteSet(s) /\ Cardinality(s) \in Nat
                          /\ Cardinality(s) <= Cardinality(D)
  BY FS_Subset, FS_CardinalityType
<1>1. 0 \in N
  <2> DEFINE g == [s \in SUBSET D |-> 0]
  <2>1. ASSUME NEW s \in SUBSET D, Cardinality(s) <= 0 PROVE g[s] = Unfolded(f, g)[s]
    <3>1. Cardinality(s) = 0
      BY <1>0, <2>1
    <3>2. s = {}
      BY <1>0, <3>1, FS_EmptySet
    <3> QED BY <3>2 DEF Unfolded
  <2> QED BY <2>1
<1>2. ASSUME NEW n \in N PROVE n + 1 \in N
  <2>1. PICK g : Upto(g, n)
    BY <1>2
  <2> DEFINE h == Unfolded(f, g)
  <2>2. ASSUME NEW s \in SUBSET D, Cardinality(s) <= n + 1
        PROVE  h[s] = Unfolded(f, h)[s]
    <3>1. CASE s = {}
      BY <3>1 DEF Unfolded
    <3>2. CASE s # {}
      <4>1. Pick(s) \in s
        BY <3>2 DEF Pick
      <4>2. Cardinality(s \ {Pick(s)}) <= n
        BY <1>0, <2>2, <4>1, OneLess
      <4>3. h[s \ {Pick(s)}] = g[s \ {Pick(s)}]
        BY <2>1, <4>2
      <4> HIDE DEF h
      <4>4. h[s] = f[Pick(s)] + g[s \ {Pick(s)}]
        BY <3>2 DEF h, Unfolded
      <4>5. Unfolded(f, h)[s] = f[Pick(s)] + h[s \ {Pick(s)}]
        BY <3>2 DEF Unfolded
      <4> QED BY <4>3, <4>4, <4>5
    <3> QED BY <3>1, <3>2
  <2>3. Upto(h, n + 1)
    BY <2>2
  <2> HIDE DEF h
  <2> QED BY <2>3
<1>3. Cardinality(D) \in N
  <2>1. N = Nat
    <3> HIDE DEF N
    <3>1. N \in SUBSET Nat
      BY DEF N
    <3> QED BY <1>1, <1>2, <3>1, CountUp
  <2> QED BY <1>0, <2>1, FS_CardinalityType
<1>4. PICK g : Upto(g, Cardinality(D))
  BY <1>3
<1> DEFINE h == Unfolded(f, g)
<1>5. \A s \in SUBSET D : g[s] = h[s]
  BY <1>0, <1>4
<1>6. h = Unfolded(f, h)
  <2> HIDE DEF h
  <2>1. \A s \in SUBSET D : s # {} => Pick(s) \in s /\ s \ {Pick(s)} \in SUBSET D
    BY DEF Pick
  <2>2. \A s \in SUBSET D : s # {} => g[s \ {Pick(s)}] = h[s \ {Pick(s)}]
    BY <1>5, <2>1
  <2>3. Unfolded(f, g) = Unfolded(f, h)
    BY <2>2 DEF Unfolded
  <2> QED BY <2>3 DEF h
<1>7. Sum(f) = (CHOOSE i : i = Unfolded(f, i))[DOMAIN f]
  BY Zenon DEF Sum, FoldFunction, FoldFunctionOnSet, MapThenFoldSet, Unfolded, Pick
<1> HIDE DEF h
<1> QED BY <1>6, <1>7, Zenon DEF IsFold

\* The function of the fold does that.
LEMMA AnyOrder ==
    ASSUME NEW f, IsFiniteSet(DOMAIN f), \A x \in DOMAIN f : f[x] \in Nat,
           NEW g, IsFold(f, g)
    PROVE  SumsUp(f, g)
<1> DEFINE D == DOMAIN f
           Good(s) == g[s] \in Nat /\ \A x \in s : g[s] = f[x] + g[s \ {x}]
           N == {n \in Nat : \A s \in SUBSET D : Cardinality(s) <= n => Good(s)}
<1>0. \A s \in SUBSET D : IsFiniteSet(s) /\ Cardinality(s) \in Nat
  BY FS_Subset, FS_CardinalityType
<1>1. \A s \in SUBSET D : g[s] = IF s = {} THEN 0 ELSE f[Pick(s)] + g[s \ {Pick(s)}]
  BY Zenon DEF Unfolded, IsFold
<1>2. 0 \in N
  <2>1. ASSUME NEW s \in SUBSET D, Cardinality(s) <= 0 PROVE Good(s)
    <3>0. Cardinality(s) = 0
      BY <1>0, <2>1
    <3>1. s = {}
      BY <1>0, <3>0, FS_EmptySet
    <3>2. g[s] = 0
      BY <1>1, <3>1
    <3> QED BY <3>1, <3>2
  <2> HIDE DEF Good
  <2> QED BY <2>1
<1>3. ASSUME NEW n \in N PROVE n + 1 \in N
  <2>1. ASSUME NEW s \in SUBSET D, Cardinality(s) <= n + 1, s # {} PROVE Good(s)
    <3> DEFINE p == Pick(s)
    <3>0. n \in Nat
      BY <1>3
    <3>2. p \in s
      BY <2>1 DEF Pick
    <3>3. ASSUME NEW x \in s PROVE Good(s \ {x}) /\ s \ {x} \in SUBSET D
      <4>1. Cardinality(s \ {x}) <= n
        BY <1>0, <2>1, <3>0, OneLess
      <4>2. s \ {x} \in SUBSET D
        OBVIOUS
      <4> HIDE DEF Good
      <4> QED BY <1>3, <4>1, <4>2
    <3> HIDE DEF p
    <3>4. g[s] = f[p] + g[s \ {p}]
      BY <1>1, <2>1 DEF p
    <3>5. g[s] \in Nat
      <4>1. g[s \ {p}] \in Nat /\ f[p] \in Nat
        BY <3>2, <3>3
      <4> QED BY <3>4, <4>1
    <3>6. ASSUME NEW x \in s PROVE g[s] = f[x] + g[s \ {x}]
      <4>1. CASE x = p
        BY <3>4, <4>1
      <4>2. CASE x # p
        <5>1. x \in s \ {p} /\ p \in s \ {x}
          BY <3>2, <4>2
        <5>2. g[s \ {p}] = f[x] + g[(s \ {p}) \ {x}]
          BY <3>2, <3>3, <5>1, Zenon
        <5>3. g[s \ {x}] = f[p] + g[(s \ {x}) \ {p}]
          BY <3>3, <5>1, Zenon
        <5>4. (s \ {p}) \ {x} = (s \ {x}) \ {p} /\ (s \ {p}) \ {x} \in SUBSET D
          OBVIOUS
        <5> DEFINE rest == g[(s \ {p}) \ {x}]
        <5>6. g[s \ {p}] = f[x] + rest /\ g[s \ {x}] = f[p] + rest
          BY <5>2, <5>3, <5>4, Zenon
        <5>7. rest \in Nat
          <6>1. Cardinality(s \ {p}) <= n /\ IsFiniteSet(s \ {p})
            BY <1>0, <2>1, <3>0, <3>2, OneLess
          <6>2. Cardinality((s \ {p}) \ {x}) <= n
            <7>1. Cardinality((s \ {p}) \ {x}) = Cardinality(s \ {p}) - 1
                  /\ Cardinality(s \ {p}) \in Nat
              BY <5>1, <6>1, OneLess
            <7> QED BY <3>0, <6>1, <7>1
          <6> QED BY <1>3, <5>4, <6>2
        <5> HIDE DEF rest
        <5>8. f[x] \in Nat /\ f[p] \in Nat
          BY <3>2
        <5> QED BY <3>4, <5>6, <5>7, <5>8
      <4> QED BY <4>1, <4>2
    <3> QED BY <3>5, <3>6
  <2>2. Good({})
    <3>1. g[{}] = 0
      BY <1>1
    <3> QED BY <3>1
  <2>3. \A s \in SUBSET D : Cardinality(s) <= n + 1 => Good(s)
    <3> HIDE DEF Good
    <3> QED BY <2>1, <2>2
  <2> HIDE DEF Good
  <2> QED BY <1>3, <2>3
<1>4. N = Nat
  <2> HIDE DEF N
  <2>1. N \in SUBSET Nat
    BY DEF N
  <2> QED BY <1>2, <1>3, <2>1, CountUp
<1>5. \A s \in SUBSET D : Good(s)
  <2> HIDE DEF Good
  <2> QED BY <1>0, <1>4
<1> QED BY <1>5 DEF SumsUp

\* One more entry adds its value to the sum.
LEMMA SumOneMore ==
    ASSUME NEW f, IsFiniteSet(DOMAIN f), \A y \in DOMAIN f : f[y] \in Nat,
           NEW x \in DOMAIN f,
           NEW h, DOMAIN h = DOMAIN f \ {x}, \A y \in DOMAIN h : h[y] = f[y]
    PROVE  Sum(h) \in Nat /\ Sum(f) = f[x] + Sum(h)
<1> DEFINE D == DOMAIN h
<1>0. /\ IsFiniteSet(D) /\ D \in SUBSET DOMAIN f /\ DOMAIN f \in SUBSET DOMAIN f
      /\ \A s \in SUBSET D : IsFiniteSet(s) /\ Cardinality(s) \in Nat
  <2>1. IsFiniteSet(D) /\ D \in SUBSET DOMAIN f
    BY FS_Subset
  <2> HIDE DEF D
  <2>2. \A s \in SUBSET D : IsFiniteSet(s)
    BY <2>1, FS_Subset
  <2>3. \A s \in SUBSET D : Cardinality(s) \in Nat
    BY <2>2, FS_CardinalityType
  <2> QED BY <2>1, <2>2, <2>3
<1>1. PICK g : IsFold(f, g) /\ Sum(f) = g[DOMAIN f]
  BY SumUnfolds
<1>2. PICK k : IsFold(h, k) /\ Sum(h) = k[D]
  BY <1>0, SumUnfolds
<1> DEFINE N == {n \in Nat : \A s \in SUBSET D : Cardinality(s) <= n => k[s] = g[s]}
<1>3. \A s \in SUBSET D :
         /\ s = {} => k[s] = 0 /\ g[s] = 0
         /\ s # {} => /\ Pick(s) \in s
                      /\ k[s] = h[Pick(s)] + k[s \ {Pick(s)}]
                      /\ g[s] = f[Pick(s)] + g[s \ {Pick(s)}]
  <2>1. \A s \in SUBSET D : s # {} => Pick(s) \in s
    BY DEF Pick
  <2>2. \A s \in SUBSET D :
           k[s] = IF s = {} THEN 0 ELSE h[Pick(s)] + k[s \ {Pick(s)}]
    BY <1>2, Zenon DEF IsFold, Unfolded
  <2>3. \A s \in SUBSET DOMAIN f :
           g[s] = IF s = {} THEN 0 ELSE f[Pick(s)] + g[s \ {Pick(s)}]
    BY <1>1, Zenon DEF IsFold, Unfolded
  <2> QED BY <1>0, <2>1, <2>2, <2>3
<1>4. 0 \in N
  <2>1. ASSUME NEW s \in SUBSET D, Cardinality(s) <= 0 PROVE k[s] = g[s]
    <3>1. Cardinality(s) = 0
      BY <1>0, <2>1
    <3>2. s = {}
      BY <1>0, <3>1, FS_EmptySet
    <3> QED BY <1>3, <3>2
  <2> QED BY <2>1
<1>5. ASSUME NEW n \in N PROVE n + 1 \in N
  <2>1. ASSUME NEW s \in SUBSET D, Cardinality(s) <= n + 1 PROVE k[s] = g[s]
    <3>1. CASE s = {}
      BY <1>3, <3>1, Zenon
    <3>2. CASE s # {}
      <4>1. Pick(s) \in s
        BY <1>3, <3>2
      <4>2. Cardinality(s \ {Pick(s)}) <= n
        BY <1>0, <1>5, <2>1, <4>1, OneLess
      <4>3. s \ {Pick(s)} \in SUBSET D
        OBVIOUS
      <4>4. k[s \ {Pick(s)}] = g[s \ {Pick(s)}]
        BY <1>5, <4>2, <4>3
      <4>5. h[Pick(s)] = f[Pick(s)]
        BY <4>1
      <4> QED BY <1>3, <3>2, <4>4, <4>5
    <3> QED BY <3>1, <3>2
  <2> QED BY <1>5, <2>1
<1>6. N = Nat
  <2> HIDE DEF N
  <2>1. N \in SUBSET Nat
    BY DEF N
  <2> QED BY <1>4, <1>5, <2>1, CountUp
<1>7. k[D] = g[D]
  BY <1>0, <1>6
<1>8. g[D] \in Nat /\ g[DOMAIN f] = f[x] + g[DOMAIN f \ {x}]
  <2>1. SumsUp(f, g)
    BY <1>1, AnyOrder
  <2> QED BY <1>0, <2>1, Zenon DEF SumsUp
<1> QED BY <1>1, <1>2, <1>7, <1>8

\* Reservations that were admitted are finitely many, and fit.
PoolInv ==
    /\ IsFiniteSet(DOMAIN active)
    /\ \A r \in DOMAIN active : active[r] \in Nat
    /\ Sum(active) \in Nat /\ WithinCapacity

\* Every reserve and release keeps the sum within the capacity.
LEMMA PoolStepInv == PoolInv /\ [ContractNext]_contractVars => PoolInv'
<1> SUFFICES ASSUME PoolInv, [ContractNext]_contractVars PROVE PoolInv'
  OBVIOUS
<1>1. PoolStep \/ UNCHANGED active
  BY Zenon DEF ContractNext, PoolStep, contractVars, poolVars, Lookup, Join, Detach,
         NextGeneration, Dispatch, Perform, Fail, AddChild, MarkAccepted,
         ReadMembership, Seal
<1>2. ASSUME NEW r \in Reservations, NEW u \in 1..MaxU64, Reserve(r, u) PROVE PoolInv'
  <2>1. /\ r \notin DOMAIN active /\ Sum(active) + u <= Capacity
        /\ active' = [i \in DOMAIN active \cup {r} |-> IF i = r THEN u ELSE active[i]]
    BY <1>2 DEF Reserve
  <2>2. /\ DOMAIN active' = DOMAIN active \cup {r} /\ active'[r] = u
        /\ \A i \in DOMAIN active : active'[i] = active[i]
        /\ DOMAIN active = DOMAIN active' \ {r}
    BY <2>1
  <2>3. u \in Nat
    BY ContractAssumption
  <2>4. IsFiniteSet(DOMAIN active')
    BY <2>2, FS_AddElement DEF PoolInv
  <2>5. \A i \in DOMAIN active' : active'[i] \in Nat
    BY <2>2, <2>3 DEF PoolInv
  <2>6. Sum(active') = u + Sum(active)
    <3> DEFINE new == active'
    <3>1. /\ IsFiniteSet(DOMAIN new) /\ \A y \in DOMAIN new : new[y] \in Nat
          /\ r \in DOMAIN new /\ DOMAIN active = DOMAIN new \ {r}
          /\ \A y \in DOMAIN active : active[y] = new[y]
          /\ new[r] = u
      BY <2>2, <2>4, <2>5
    <3> HIDE DEF new
    <3>2. Sum(new) = new[r] + Sum(active)
      BY <3>1, SumOneMore, Zenon
    <3> QED BY <3>1, <3>2 DEF new
  <2>7. Sum(active') \in Nat /\ Sum(active') <= Capacity
    BY <2>1, <2>3, <2>6, ContractAssumption DEF PoolInv
  <2> QED BY <2>4, <2>5, <2>7 DEF PoolInv, WithinCapacity
<1>3. ASSUME NEW r \in Reservations, Release(r) PROVE PoolInv'
  <2>1. r \in DOMAIN active /\ active' = [i \in DOMAIN active \ {r} |-> active[i]]
    BY <1>3 DEF Release, Restrict
  <2>2. /\ DOMAIN active' = DOMAIN active \ {r}
        /\ \A i \in DOMAIN active' : active'[i] = active[i]
    BY <2>1
  <2>3. IsFiniteSet(DOMAIN active') /\ \A i \in DOMAIN active' : active'[i] \in Nat
    BY <2>2, FS_Subset DEF PoolInv
  <2>4. Sum(active') \in Nat /\ Sum(active) = active[r] + Sum(active')
    BY <2>1, <2>2, SumOneMore DEF PoolInv
  <2>5. Sum(active') <= Capacity
    BY <2>1, <2>4, ContractAssumption DEF PoolInv, WithinCapacity
  <2> QED BY <2>3, <2>4, <2>5 DEF PoolInv, WithinCapacity
<1>4. CASE UNCHANGED active
  <2>1. Sum(active') = Sum(active)
    BY <1>4
  <2> QED BY <1>4, <2>1 DEF PoolInv, WithinCapacity
<1> QED BY <1>1, <1>2, <1>3, <1>4 DEF PoolStep

\* The units of all active reservations together never exceed the capacity,
\* for any reservations, and admitted() cannot overflow.
THEOREM PoolWithinCapacity == ContractSpec => []WithinCapacity
<1>1. ContractInit => PoolInv
  <2> SUFFICES ASSUME active = <<>> PROVE PoolInv
    BY DEF ContractInit
  <2>1. DOMAIN active = {} /\ IsFiniteSet({})
    BY FS_EmptySet
  <2>2. PICK g : IsFold(active, g) /\ Sum(active) = g[DOMAIN active]
    BY <2>1, SumUnfolds
  <2>3. Sum(active) = 0
    BY <2>1, <2>2 DEF IsFold, Unfolded
  <2> QED BY <2>1, <2>3, ContractAssumption DEF PoolInv, WithinCapacity
<1>2. PoolInv => WithinCapacity
  BY DEF PoolInv
<1> QED BY <1>1, <1>2, PoolStepInv, PTL DEF ContractSpec
=============================================================================
