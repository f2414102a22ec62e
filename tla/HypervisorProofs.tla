-------------------------- MODULE HypervisorProofs --------------------------
(***************************************************************************)
(* The Lock-Wait-Cache on its own and under Hypervisor::run, for any sets  *)
(* of callers and keys, any TTL and lock deadline, and any retry limit,    *)
(* speculation threshold and queue size.                                   *)
(***************************************************************************)
EXTENDS Hypervisor, TLAPS

\* A leaf is tried with SMT, then with Zenon, with time to spare on a busy machine.
USE SMTT(30), ZenonT(30)

USE CacheAssumption

\* The definitions a step of a caller expands to.
LEMMA CacheActions ==
    CacheNext <=>
      \/ \E c \in Callers :
          \/ \E k \in Keys : Call(c, k)
          \/ TryLock(c) \/ LockTimeout(c)
          \/ CheckFresh(c) \/ ReadHit(c) \/ ReadGone(c) \/ DebounceOver(c)
          \/ Persist(c, "ok") \/ SweepCheck(c) \/ SweepRemove(c) \/ SweepDone(c)
          \/ RunOk(c) \/ RunFail(c) \/ IoErr(c) \/ SweepErr(c)
          \/ Kill(c)
      \/ Tick
  BY DEF CacheNext, CallerStep

-----------------------------------------------------------------------------
\* The initial states of the cache have the right types.
LEMMA TypeInit == CacheInit => CacheTypeOK
  BY DEF CacheInit, CacheTypeOK, PCs, Kinds

\* store keeps the types, whatever result it stores.
LEMMA PersistType ==
    ASSUME CacheTypeOK, NEW c \in Callers, NEW r \in {"none", "ok", "fail"}, Persist(c, r)
    PROVE  CacheTypeOK'
  BY DEF CacheTypeOK, Persist, Goto, PCs, Critical

\* Every step of the cache keeps the types, one case per action.
LEMMA TypeNext == CacheTypeOK /\ [CacheNext]_cacheVars => CacheTypeOK'
<1> SUFFICES ASSUME CacheTypeOK, [CacheNext]_cacheVars PROVE CacheTypeOK'
  OBVIOUS
<1> USE DEF CacheTypeOK, PCs, Critical, Kinds, Goto, Return
<1>1. ASSUME NEW c \in Callers, NEW k \in Keys, Call(c, k) PROVE CacheTypeOK'
  BY <1>1 DEF Call
<1>2. ASSUME NEW c \in Callers, TryLock(c) PROVE CacheTypeOK'
  BY <1>2 DEF TryLock
<1>3. ASSUME NEW c \in Callers, LockTimeout(c) PROVE CacheTypeOK'
  BY <1>3 DEF LockTimeout
<1>4. ASSUME NEW c \in Callers, CheckFresh(c) PROVE CacheTypeOK'
  BY <1>4 DEF CheckFresh, AfterMiss
<1>5. ASSUME NEW c \in Callers, ReadHit(c) PROVE CacheTypeOK'
  BY <1>5, SMTT(30) DEF ReadHit
<1>6. ASSUME NEW c \in Callers, ReadGone(c) PROVE CacheTypeOK'
  BY <1>6 DEF ReadGone, AfterMiss
<1>7. ASSUME NEW c \in Callers, DebounceOver(c) \/ RunOk(c) PROVE CacheTypeOK'
  BY <1>7 DEF DebounceOver, RunOk
<1>8. ASSUME NEW c \in Callers, Persist(c, "ok") PROVE CacheTypeOK'
  BY <1>8, PersistType
<1>9. ASSUME NEW c \in Callers, SweepCheck(c) PROVE CacheTypeOK'
  BY <1>9 DEF SweepCheck
<1>10. ASSUME NEW c \in Callers, SweepRemove(c) PROVE CacheTypeOK'
  BY <1>10 DEF SweepRemove
<1>11. ASSUME NEW c \in Callers, SweepDone(c) \/ SweepErr(c) PROVE CacheTypeOK'
  <2>1. CASE SweepDone(c)
    BY <2>1, SMTT(30) DEF SweepDone
  <2>2. CASE SweepErr(c)
    BY <2>2, SMTT(30) DEF SweepErr
  <2> QED
    BY <1>11, <2>1, <2>2
<1>12. ASSUME NEW c \in Callers, RunFail(c) \/ IoErr(c) PROVE CacheTypeOK'
  <2>1. CASE RunFail(c)
    BY <2>1, SMTT(30) DEF RunFail
  <2>2. CASE IoErr(c)
    BY <2>2, SMTT(30) DEF IoErr
  <2> QED
    BY <1>12, <2>1, <2>2
<1>13. ASSUME NEW c \in Callers, Kill(c) PROVE CacheTypeOK'
  BY <1>13 DEF Kill
<1>14. CASE Tick
  BY <1>14 DEF Tick, Older
<1>15. CASE UNCHANGED cacheVars
  BY <1>15 DEF cacheVars
<1> HIDE DEF CacheTypeOK, PCs, Critical, Kinds, Goto, Return
<1> QED
  BY CacheActions, <1>1, <1>2, <1>3, <1>4, <1>5, <1>6, <1>7, <1>8, <1>9, <1>10,
     <1>11, <1>12, <1>13, <1>14, <1>15

\* Every variable keeps its type in every behaviour.
THEOREM CacheTypeCorrect == CacheSpec => []CacheTypeOK
  BY TypeInit, TypeNext, PTL DEF CacheSpec
-----------------------------------------------------------------------------
\* The callers of S hold the flocks they should.
ExactFor(S) ==
    \A c \in S, k \in Keys : holder[k] = c <=> pc[c] \in Critical /\ key[c] = k

\* A caller that returns gives up its flock and no other,
LEMMA ExactReturn ==
    ASSUME CacheTypeOK, NEW S \in SUBSET Callers, ExactFor(S), NEW c \in Callers,
           NEW r, NEW how, Return(c, r, how), key' = key
    PROVE  ExactFor(S)'
<1>1. /\ pc'[c] = "idle" /\ \A d \in Callers \ {c} : pc'[d] = pc[d]
      /\ \A k \in Keys : holder'[k] = IF holder[k] = c THEN None ELSE holder[k]
  BY DEF Return, Goto, CacheTypeOK
<1> QED
  BY <1>1 DEF ExactFor, Critical

\* one that goes on inside or outside the critical section keeps what it has,
LEMMA ExactMove ==
    ASSUME CacheTypeOK, NEW S \in SUBSET Callers, ExactFor(S), NEW c \in Callers,
           NEW label, Goto(c, label), label \in Critical <=> pc[c] \in Critical,
           UNCHANGED <<holder, key>>
    PROVE  ExactFor(S)'
<1>1. pc'[c] = label /\ \A d \in Callers \ {c} : pc'[d] = pc[d]
  BY DEF Goto, CacheTypeOK
<1> QED
  BY <1>1 DEF ExactFor

\* and one that enters it takes the flock.
LEMMA ExactTake ==
    ASSUME CacheTypeOK, NEW S \in SUBSET Callers, ExactFor(S), NEW c \in Callers, TryLock(c)
    PROVE  ExactFor(S)'
<1>1. /\ pc[c] = "lock" /\ pc'[c] = "recheck" /\ \A d \in Callers \ {c} : pc'[d] = pc[d]
      /\ holder[key[c]] = None /\ holder'[key[c]] = c /\ key' = key
      /\ \A k \in Keys \ {key[c]} : holder'[k] = holder[k]
  BY DEF TryLock, Goto, CacheTypeOK
<1> QED
  BY <1>1 DEF ExactFor, Critical

\* A call begins without a flock.
LEMMA ExactCall ==
    ASSUME CacheTypeOK, NEW S \in SUBSET Callers, ExactFor(S), NEW c \in Callers,
           NEW k \in Keys, Call(c, k)
    PROVE  ExactFor(S)'
<1>1. /\ pc[c] = "idle" /\ pc'[c] = "lock" /\ holder' = holder
      /\ \A d \in Callers \ {c} : pc'[d] = pc[d] /\ key'[d] = key[d]
  BY DEF Call, Goto, CacheTypeOK
<1> QED
  BY <1>1 DEF ExactFor, Critical

\* Every step of the cache keeps the flocks where they belong.
LEMMA ExactNext ==
    ASSUME CacheTypeOK, NEW S \in SUBSET Callers, ExactFor(S), [CacheNext]_cacheVars
    PROVE  ExactFor(S)'
<1>1. ASSUME NEW c \in Callers, CheckFresh(c) \/ ReadGone(c) PROVE ExactFor(S)'
  <2>1. /\ pc[c] \in Critical /\ UNCHANGED <<holder, key>>
        /\ \E label \in Critical : Goto(c, label)
    BY <1>1 DEF CheckFresh, ReadGone, AfterMiss, Critical
  <2> QED
    BY <2>1, ExactMove
<1>2. ASSUME NEW c \in Callers, DebounceOver(c) \/ RunOk(c) \/ Persist(c, "ok")
      PROVE  ExactFor(S)'
  <2>1. /\ pc[c] \in Critical /\ UNCHANGED <<holder, key>>
        /\ \E label \in Critical : Goto(c, label)
    BY <1>2 DEF DebounceOver, RunOk, Persist, Critical
  <2> QED
    BY <2>1, ExactMove
<1>3. ASSUME NEW c \in Callers, SweepCheck(c) \/ SweepRemove(c) PROVE ExactFor(S)'
  BY <1>3 DEF SweepCheck, SweepRemove, ExactFor
<1>4. ASSUME NEW c \in Callers, LockTimeout(c) \/ ReadHit(c) \/ RunFail(c) \/ IoErr(c)
      PROVE  ExactFor(S)'
  BY <1>4, ExactReturn DEF LockTimeout, ReadHit, RunFail, IoErr
<1>5. ASSUME NEW c \in Callers, SweepDone(c) \/ SweepErr(c) \/ Kill(c) PROVE ExactFor(S)'
  BY <1>5, ExactReturn DEF SweepDone, SweepErr, Kill
<1>6. CASE Tick \/ UNCHANGED cacheVars
  BY <1>6 DEF Tick, cacheVars, ExactFor
<1> QED
  BY CacheActions, ExactCall, ExactTake, <1>1, <1>2, <1>3, <1>4, <1>5, <1>6

-----------------------------------------------------------------------------
\* What the entries and the replies say: no failure is stored or replayed, and
\* an entry is as old as the last persisted success.
SuccessInv ==
    /\ OnlySuccessReplayed
    /\ \A k \in Keys : entry[k] # "fail"
    /\ \A k \in Keys : entry[k] # "none" => sinceOk[k] = age[k]

\* The inductive invariant of the cache is these two.
LEMMA IInvParts == CacheIInv <=> ExactFor(Callers) /\ SuccessInv
  BY DEF CacheIInv, LockExact, ExactFor, SuccessInv

\* A call ends with the result of its own run or with a stored success.
LEMMA ReturnSuccess ==
    ASSUME CacheTypeOK, SuccessInv, NEW c \in Callers, NEW r, NEW how, Return(c, r, how),
           how \in {"LockRecheck", "DebounceRecheck"} => r = "ok",
           UNCHANGED <<entry, age, sinceOk>>
    PROVE  SuccessInv'
<1>1. OnlySuccessReplayed'
  BY DEF Return, CacheTypeOK, SuccessInv, OnlySuccessReplayed
<1> QED
  BY <1>1 DEF SuccessInv

\* Every step keeps failures out of the cache and its ages right.
LEMMA SuccessNext ==
    ASSUME CacheTypeOK, SuccessInv, [CacheNext]_cacheVars
    PROVE  SuccessInv'
<1>1. ASSUME NEW c \in Callers, NEW k \in Keys, Call(c, k) PROVE SuccessInv'
  BY <1>1 DEF Call, CacheTypeOK, SuccessInv, OnlySuccessReplayed
<1>2. ASSUME NEW c \in Callers, LockTimeout(c) \/ RunFail(c) \/ IoErr(c) PROVE SuccessInv'
  BY <1>2, ReturnSuccess DEF LockTimeout, RunFail, IoErr
<1>3. ASSUME NEW c \in Callers, SweepDone(c) \/ SweepErr(c) \/ Kill(c) PROVE SuccessInv'
  BY <1>3, ReturnSuccess DEF SweepDone, SweepErr, Kill
<1>4. ASSUME NEW c \in Callers, ReadHit(c) PROVE SuccessInv'
  <2>1. entry[key[c]] = "ok"
    BY <1>4 DEF ReadHit, CacheTypeOK, SuccessInv
  <2> QED
    BY <1>4, <2>1, ReturnSuccess DEF ReadHit
<1>5. ASSUME NEW c \in Callers,
             \/ TryLock(c) \/ CheckFresh(c) \/ ReadGone(c) \/ DebounceOver(c) \/ RunOk(c)
             \/ SweepCheck(c)
      PROVE SuccessInv'
  <2>1. UNCHANGED <<entry, age, result, kind, sinceOk>>
    BY <1>5, Zenon DEF TryLock, CheckFresh, ReadGone, DebounceOver, RunOk, SweepCheck
  <2> QED
    BY <2>1 DEF SuccessInv, OnlySuccessReplayed
<1>6. ASSUME NEW c \in Callers, Persist(c, "ok") PROVE SuccessInv'
  BY <1>6 DEF Persist, CacheTypeOK, SuccessInv, OnlySuccessReplayed
<1>7. ASSUME NEW c \in Callers, SweepRemove(c) PROVE SuccessInv'
  BY <1>7 DEF SweepRemove, CacheTypeOK, SuccessInv, OnlySuccessReplayed
<1>8. CASE Tick
  BY <1>8 DEF Tick, Older, CacheTypeOK, SuccessInv, OnlySuccessReplayed
<1>9. CASE UNCHANGED cacheVars
  BY <1>9 DEF cacheVars, SuccessInv, OnlySuccessReplayed
<1> QED
  BY CacheActions, <1>1, <1>2, <1>3, <1>4, <1>5, <1>6, <1>7, <1>8, <1>9

\* The inductive invariant of the cache holds initially.
LEMMA IInvInit == CacheInit => CacheIInv
  BY DEF CacheInit, CacheIInv, LockExact, OnlySuccessReplayed, Critical

\* Every step of the cache keeps its inductive invariant.
LEMMA IInvNext ==
    CacheTypeOK /\ CacheIInv /\ [CacheNext]_cacheVars => CacheIInv'
<1>1. (ExactFor(Callers) /\ SuccessInv)' => CacheIInv'
  BY DEF CacheIInv, LockExact, ExactFor, SuccessInv
<1> QED
  BY <1>1, IInvParts, ExactNext, SuccessNext

\* Types and inductive invariant hold in every reachable state of the cache.
LEMMA CacheInvariant == CacheSpec => [](CacheTypeOK /\ CacheIInv)
<1>1. CacheInit => CacheTypeOK /\ CacheIInv
  BY TypeInit, IInvInit
<1>2. (CacheTypeOK /\ CacheIInv) /\ [CacheNext]_cacheVars
        => (CacheTypeOK /\ CacheIInv)'
  BY TypeNext, IInvNext
<1> QED
  BY <1>1, <1>2, PTL DEF CacheSpec

\* The flock of a key is held exactly by the caller that is between its
\* acquisition and its return in with_lock_detailed.
THEOREM LockIsExact == CacheSpec => []LockExact
<1>1. CacheIInv => LockExact
  BY DEF CacheIInv
<1> QED
  BY <1>1, CacheInvariant, PTL

\* At most one caller at a time runs or stores a given command.
THEOREM OneRunnerPerKey == CacheSpec => []OneRunner
<1>1. CacheTypeOK /\ CacheIInv => OneRunner
  BY DEF CacheTypeOK, CacheIInv, LockExact, OneRunner
<1> QED
  BY <1>1, CacheInvariant, PTL

\* Callers of with_lock_detailed never get a failed run out of the cache.
THEOREM FailuresNotReplayed == CacheSpec => []OnlySuccessReplayed
<1>1. CacheIInv => OnlySuccessReplayed
  BY DEF CacheIInv
<1> QED
  BY <1>1, CacheInvariant, PTL

\* A step of the cache moves one caller at most.
LEMMA GotoMoves ==
    ASSUME CacheTypeOK, NEW c \in Callers, NEW label, Goto(c, label), NEW d \in Callers
    PROVE  pc'[d] = IF d = c THEN label ELSE pc[d]
  BY DEF Goto, CacheTypeOK

\* A run starts only after a look at the entry that found none or a stale one.
LEMMA RunStarts ==
    ASSUME CacheTypeOK, CacheNext, NEW d \in Callers, StartsRun(d)
    PROVE  ~IsFresh(key[d])
<1>1. ASSUME NEW c \in Callers, NEW label, Goto(c, label), label # "run" PROVE FALSE
  BY <1>1, GotoMoves DEF StartsRun
<1>2. ASSUME NEW c \in Callers, NEW k \in Keys, Call(c, k) PROVE FALSE
  BY <1>1, <1>2 DEF Call
<1>3. ASSUME NEW c \in Callers,
             \/ TryLock(c) \/ DebounceOver(c) \/ RunOk(c) \/ Persist(c, "ok")
      PROVE  FALSE
  BY <1>1, <1>3 DEF TryLock, DebounceOver, RunOk, Persist
<1>4. ASSUME NEW c \in Callers, LockTimeout(c) \/ ReadHit(c) \/ RunFail(c) \/ IoErr(c)
      PROVE  FALSE
  BY <1>1, <1>4 DEF LockTimeout, ReadHit, RunFail, IoErr, Return
<1>5. ASSUME NEW c \in Callers, SweepDone(c) \/ SweepErr(c) \/ Kill(c) PROVE FALSE
  BY <1>1, <1>5 DEF SweepDone, SweepErr, Kill, Return
<1>6. ASSUME NEW c \in Callers, SweepCheck(c) \/ SweepRemove(c) \/ Tick PROVE FALSE
  BY <1>6 DEF SweepCheck, SweepRemove, Tick, StartsRun
<1>7. ASSUME NEW c \in Callers, CheckFresh(c) \/ ReadGone(c) PROVE ~IsFresh(key[d])
  <2>1. \/ \E label : Goto(c, label) /\ label # "run"
        \/ ~IsFresh(key[c]) /\ Goto(c, "run")
    BY <1>7 DEF CheckFresh, ReadGone, AfterMiss, IsFresh
  <2>2. ~IsFresh(key[c]) /\ Goto(c, "run")
    BY <1>1, <2>1
  <2>3. c = d
    BY <2>2, GotoMoves DEF StartsRun
  <2> QED
    BY <2>2, <2>3
<1> QED
  BY CacheActions, <1>2, <1>3, <1>4, <1>5, <1>6, <1>7

\* Within the TTL of a success the command is run again only when a sweep has
\* removed the entry.
THEOREM RerunsOnlyAfterSweep == CacheSpec => RerunOnlyIfSwept
<1> DEFINE A == \A c \in Callers :
                  StartsRun(c) => sinceOk[key[c]] = TTL \/ entry[key[c]] = "none"
<1>1. CacheTypeOK /\ CacheIInv /\ [CacheNext]_cacheVars => [A]_cacheVars
  <2> SUFFICES ASSUME CacheTypeOK, CacheIInv, CacheNext, NEW d \in Callers,
                      StartsRun(d)
               PROVE  sinceOk[key[d]] = TTL \/ entry[key[d]] = "none"
    OBVIOUS
  <2>1. key[d] \in Keys /\ age[key[d]] \in 0..TTL
    BY DEF CacheTypeOK
  <2>2. entry[key[d]] # "none" => sinceOk[key[d]] = age[key[d]]
    BY <2>1 DEF CacheIInv
  <2> QED
    BY <2>1, <2>2, RunStarts DEF IsFresh
<1> QED
  BY <1>1, CacheInvariant, PTL DEF CacheSpec, RerunOnlyIfSwept

-----------------------------------------------------------------------------
(* Hypervisor::run and the speculation task over the cache.                *)

USE HypervisorAssumption

\* The steps of HvNext that move a caller inside with_lock_detailed are steps of
\* the cache.
LEMMA HvCacheSteps ==
    ASSUME HvTypeOK, NEW c \in Runners,
           MountAndLock(c) \/ CacheStep(c) \/ CommandEnds(c)
    PROVE  CacheNext
  BY DEF HvTypeOK, CacheTypeOK, Runners, MountAndLock, CacheStep, CommandEnds, CacheNext

\* run returns without having entered with_lock_detailed.
LEMMA RunReturnType ==
    ASSUME CacheTypeOK, NEW c \in Callers, NEW r \in {"none", "ok", "fail"}, NEW how \in Kinds,
           result' = [result EXCEPT ![c] = r], kind' = [kind EXCEPT ![c] = how],
           UNCHANGED <<entry, age, holder, pc, key, waited, sweep, doomed, sinceOk>>
    PROVE  CacheTypeOK'
  BY DEF CacheTypeOK

\* The speculation task moves, or takes up a command.
LEMMA SpecMoveType ==
    ASSUME CacheTypeOK, NEW c \in Callers,
           pc' = pc \/ \E label \in PCs : Goto(c, label),
           key' = key \/ \E k \in Keys : key' = [key EXCEPT ![c] = k],
           sweep' = sweep \/ sweep' = [sweep EXCEPT ![c] = {}],
           UNCHANGED <<entry, age, holder, waited, result, kind, doomed, sinceOk>>
    PROVE  CacheTypeOK'
<1>1. pc' \in [Callers -> PCs] /\ key' \in [Callers -> Keys]
      /\ sweep' \in [Callers -> SUBSET Keys]
  BY DEF CacheTypeOK, Goto
<1> QED
  BY <1>1 DEF CacheTypeOK

\* A crash leaves every caller idle, with no lock and no answer.
LEMMA CrashType ==
    ASSUME CacheTypeOK, pc' = [c \in Callers |-> "idle"], holder' = [k \in Keys |-> None],
           waited' = [c \in Callers |-> 0], result' = [c \in Callers |-> "none"],
           kind' = [c \in Callers |-> "Killed"], sweep' = [c \in Callers |-> {}],
           doomed' = [c \in Callers |-> None], UNCHANGED <<entry, age, key, sinceOk>>
    PROVE  CacheTypeOK'
  BY DEF CacheTypeOK, PCs, Kinds

\* The initial states of the hypervisor have the right types.
LEMMA HvTypeInit == HvInit => HvTypeOK
  BY TypeInit DEF HvInit, HvTypeOK, Stages, Gates, Decisions

\* Every step of the hypervisor keeps the types, one case per action.
LEMMA HvTypeNext == HvTypeOK /\ [HvNext]_vars => HvTypeOK'
<1> SUFFICES ASSUME HvTypeOK, [HvNext]_vars PROVE HvTypeOK'
  OBVIOUS
<1> USE DEF HvTypeOK, Stages, Gates, Decisions, Runners, Stage, RunReturn, hvVars, specVars,
            trackVars
<1>1. ASSUME NEW c \in Runners, NEW k \in Keys, RunStart(c, k) PROVE HvTypeOK'
  <2>1. CacheTypeOK'
    BY <1>1 DEF RunStart, CacheTypeOK, Kinds
  <2>2. cool' \in [Runners -> BOOLEAN]
    BY <1>1, (thermal # "Refuse") \in BOOLEAN DEF RunStart
  <2> QED
    BY <1>1, <2>1, <2>2 DEF RunStart
<1>2. ASSUME NEW c \in Runners, GateOpen(c) PROVE HvTypeOK'
  BY <1>2, TypeNext DEF GateOpen
<1>3. ASSUME NEW c \in Runners, GateRed(c) PROVE HvTypeOK'
  <2>1. CacheTypeOK'
    BY <1>3, TypeNext, RunReturnType DEF GateRed, Kinds
  <2> QED
    BY <1>3, <2>1 DEF GateRed
<1>4. ASSUME NEW c \in Runners, EarlyErr(c) PROVE HvTypeOK'
  <2>1. CacheTypeOK'
    BY <1>4, RunReturnType, Zenon DEF EarlyErr, Kinds
  <2> QED
    BY <1>4, <2>1 DEF EarlyErr
<1>5. ASSUME NEW c \in Runners, Lookup(c) \/ Coalesced(c) PROVE HvTypeOK'
  BY <1>5, TypeNext DEF Lookup, Coalesced
<1>6. ASSUME NEW c \in Runners, LookupRead(c) PROVE HvTypeOK'
  <2>1. entry[key[c]] \in {"none", "ok", "fail"}
    BY DEF CacheTypeOK
  <2>2. CacheTypeOK'
    <3>1. CASE entry[key[c]] # "none"
      BY <1>6, <2>1, <3>1, RunReturnType, Zenon DEF LookupRead, Kinds
    <3>2. CASE entry[key[c]] = "none"
      BY <1>6, <3>2, TypeNext, Zenon DEF LookupRead, cacheVars
    <3> QED
      BY <3>1, <3>2
  <2> QED
    BY <1>6, <2>2, Zenon DEF LookupRead
<1>7. ASSUME NEW c \in Runners, MountAndLock(c) \/ CacheStep(c) \/ CommandEnds(c)
      PROVE HvTypeOK'
  <2>1. CacheTypeOK'
    BY <1>7, HvCacheSteps, TypeNext
  <2> QED
    BY <1>7, <2>1 DEF MountAndLock, CacheStep, CommandEnds
<1>8. ASSUME NEW c \in Runners, RecordHit(c) PROVE HvTypeOK'
  <2>1. key[c] \in Keys
    BY DEF CacheTypeOK
  <2>2. CacheTypeOK'
    BY <1>8, TypeNext DEF RecordHit
  <2>3. hits' \in [Keys -> 0..HitCap] /\ hitAge' \in [Keys -> 0..(Window + 1)]
    BY <1>8, <2>1 DEF RecordHit, Older
  <2> QED
    BY <1>8, <2>2, <2>3, Zenon DEF RecordHit
<1>9. ASSUME NEW c \in Runners, Slot(c) PROVE HvTypeOK'
  BY <1>9, TypeNext, RunReturnType, Zenon DEF Slot, Kinds
<1>10. ASSUME NEW c \in Runners, SlotRun(c) PROVE HvTypeOK'
  BY <1>10, RunReturnType, Zenon DEF SlotRun, Kinds
<1>11. CASE SpecWake \/ SpecRead
  BY <1>11, TypeNext, Zenon DEF SpecWake, SpecRead
<1>12. CASE SpecDrain
  BY <1>12, TypeNext DEF SpecDrain, Eligible
<1>13. CASE SpecNext
  <2>1. CacheTypeOK'
    BY <1>13, SpecMoveType DEF SpecNext
  <2>2. todo' \subseteq Keys /\ spc' \in {"sleep", "next", "read", "run"}
    BY <1>13 DEF SpecNext
  <2> QED
    BY <1>13, <2>1, <2>2 DEF SpecNext
<1>14. CASE SpecExecuted
  <2>1. CacheTypeOK'
    <3>1. "store" \in PCs
      BY DEF PCs, Critical
    <3> QED
      BY <1>14, <3>1, SpecMoveType DEF SpecExecuted
  <2> QED
    BY <1>14, <2>1 DEF SpecExecuted
<1>15. CASE SpecStore
  <2>1. key[Speculator] \in Keys
    BY DEF CacheTypeOK
  <2>2. CacheTypeOK'
    BY <1>15, PersistType, TypeNext, Zenon DEF SpecStore, CacheNext, CallerStep
  <2>3. specFailed' \subseteq Keys /\ UNCHANGED <<stage, attempt, thermal, cool, trackVars, spc, todo, specResult>>
    BY <1>15, <2>1 DEF SpecStore
  <2> QED
    BY <2>2, <2>3
<1>16. CASE SpecStored
  <2>1. CacheTypeOK'
    <3>1. "idle" \in PCs
      BY DEF PCs
    <3> QED
      BY <1>16, <3>1, SpecMoveType, Zenon DEF SpecStored
  <2> QED
    BY <1>16, <2>1 DEF SpecStored
<1>17. CASE ThermalChange
  BY <1>17, TypeNext DEF ThermalChange, Combine
<1>18. CASE Crash
  <2>1. CacheTypeOK'
    BY <1>18, CrashType, Zenon DEF Crash
  <2> QED
    BY <1>18, <2>1 DEF Crash
<1>19. CASE HvTick
  BY <1>19, TypeNext DEF HvTick, CacheNext, Older
<1>20. CASE UNCHANGED vars
  BY <1>20, TypeNext DEF vars
<1> HIDE DEF HvTypeOK, Stages, Gates, Decisions, Runners, Stage, RunReturn, hvVars, specVars,
             trackVars
<1> QED
  BY <1>1, <1>2, <1>3, <1>4, <1>5, <1>6, <1>7, <1>8, <1>9, <1>10, <1>11, <1>12, <1>13,
     <1>14, <1>15, <1>16, <1>17, <1>18, <1>19, <1>20 DEF HvNext

\* Every variable of the composition keeps its type in every behaviour.
LEMMA HvTypeCorrect == HvSpec => []HvTypeOK
  BY HvTypeInit, HvTypeNext, PTL DEF HvSpec
-----------------------------------------------------------------------------
\* A runner past the gates was let through, and one still before them knows of
\* a gate that does not refuse now.
GateInv ==
    /\ Admitted
    /\ \A c \in Runners : stage[c] # "out" /\ thermal # "Refuse" => cool[c]

\* Only the speculation task's failures are in the cache, so only those are served.
SpecInv ==
    /\ \A k \in Keys : entry[k] = "fail" => k \in specFailed
    /\ ServedFailuresAreSpeculated

\* The flock of a key is held exactly by the runner inside with_lock_detailed
\* for it; the speculation task stores beside it and changes no holder.
RunnersLockExact ==
    /\ ExactFor(Runners)
    /\ \A c \in Runners : stage[c] # "coalesce" => pc[c] = "idle"

HvInv == GateInv /\ SpecInv /\ RunnersLockExact

\* A step serves only speculated failures if it stores and hands out none but those.
LEMMA ServedRule ==
    ASSUME SpecInv, specFailed \subseteq specFailed',
           \A k \in Keys : entry'[k] = "fail" => entry[k] = "fail" \/ k \in specFailed',
           \A c \in Runners : kind'[c] \in Shared /\ result'[c] # "ok" =>
               \/ kind[c] = kind'[c] /\ result[c] = result'[c] /\ key[c] = key'[c]
               \/ key'[c] \in specFailed'
    PROVE  SpecInv'
<1>1. \A k \in Keys : entry'[k] = "fail" => k \in specFailed'
  BY Zenon DEF SpecInv
<1>2. ServedFailuresAreSpeculated'
  BY DEF SpecInv, ServedFailuresAreSpeculated
<1> QED
  BY <1>1, <1>2 DEF SpecInv

\* A call returns the result of its own run or the entry it found.
LEMMA ReturnServed ==
    ASSUME CacheTypeOK, SpecInv, NEW c \in Runners, NEW r, NEW how, Return(c, r, how),
           how \in Shared => r = entry[key[c]] /\ r # "none", UNCHANGED <<entry, key, specFailed>>
    PROVE  SpecInv'
<1>1. /\ kind'[c] = how /\ result'[c] = r
      /\ \A d \in Runners \ {c} : kind'[d] = kind[d] /\ result'[d] = result[d]
  BY DEF Return, CacheTypeOK, Runners
<1>2. how \in Shared /\ r # "ok" => key[c] \in specFailed
  BY DEF CacheTypeOK, SpecInv, Runners
<1> QED
  BY <1>1, <1>2, ServedRule, Zenon

\* A step that touches neither the entries nor the replies.
LEMMA QuietServed ==
    ASSUME SpecInv, UNCHANGED <<entry, key, result, kind, specFailed>>
    PROVE  SpecInv'
  BY Zenon DEF SpecInv, ServedFailuresAreSpeculated

\* The steps inside with_lock_detailed add no failure.
LEMMA CallerServed ==
    ASSUME CacheTypeOK, SpecInv, NEW c \in Runners,
           CallerStep(c) \/ RunOk(c) \/ RunFail(c) \/ IoErr(c) \/ SweepErr(c),
           UNCHANGED specFailed
    PROVE  SpecInv'
<1>1. CASE LockTimeout(c) \/ RunFail(c) \/ IoErr(c)
  BY <1>1, ReturnServed, Zenon DEF LockTimeout, RunFail, IoErr, Shared
<1>2. CASE SweepDone(c) \/ SweepErr(c)
  BY <1>2, ReturnServed, Zenon DEF SweepDone, SweepErr, Shared
<1>3. CASE ReadHit(c)
  BY <1>3, ReturnServed, Zenon DEF ReadHit
<1>4. CASE \/ TryLock(c) \/ CheckFresh(c) \/ ReadGone(c) \/ DebounceOver(c) \/ RunOk(c)
           \/ SweepCheck(c)
  <2>1. UNCHANGED <<entry, key, result, kind>>
    BY <1>4, Zenon DEF TryLock, CheckFresh, ReadGone, DebounceOver, RunOk, SweepCheck
  <2> QED
    BY <2>1, QuietServed
<1>5. CASE Persist(c, "ok") \/ SweepRemove(c)
  <2>1. UNCHANGED <<key, result, kind>> /\ \A k \in Keys : entry'[k] = "fail" => entry[k] = "fail"
    BY <1>5, Zenon DEF Persist, SweepRemove, CacheTypeOK, Runners
  <2> QED
    BY <2>1, ServedRule, Zenon
<1> QED
  BY <1>1, <1>2, <1>3, <1>4, <1>5 DEF CallerStep

\* They move no other caller.
LEMMA CallerAlone ==
    ASSUME CacheTypeOK, NEW c \in Callers, NEW d \in Callers \ {c},
           CallerStep(c) \/ RunOk(c) \/ RunFail(c) \/ IoErr(c) \/ SweepErr(c)
    PROVE  pc'[d] = pc[d]
<1>1. \/ pc' = pc \/ \E label \in PCs : Goto(c, label)
      \/ \E r \in {"none", "ok", "fail"}, how \in Kinds : Return(c, r, how)
  <2>1. CASE TryLock(c) \/ CheckFresh(c) \/ ReadGone(c) \/ DebounceOver(c) \/ RunOk(c)
    BY <2>1, Zenon DEF TryLock, CheckFresh, ReadGone, AfterMiss, DebounceOver, RunOk, PCs, Critical
  <2>2. CASE Persist(c, "ok") \/ SweepCheck(c) \/ SweepRemove(c)
    BY <2>2, Zenon DEF Persist, SweepCheck, SweepRemove, PCs, Critical
  <2>3. CASE LockTimeout(c) \/ RunFail(c) \/ IoErr(c) \/ SweepDone(c) \/ SweepErr(c)
    BY <2>3, Zenon DEF LockTimeout, RunFail, IoErr, SweepDone, SweepErr, Kinds
  <2>4. CASE ReadHit(c)
    BY <2>4 DEF ReadHit, Kinds, CacheTypeOK
  <2> QED
    BY <2>1, <2>2, <2>3, <2>4 DEF CallerStep
<1> QED
  BY <1>1 DEF Return, Goto, CacheTypeOK

\* The inductive invariant of the hypervisor holds initially.
LEMMA HvInvInit == HvInit => HvInv
<1> SUFFICES ASSUME HvInit PROVE HvInv
  OBVIOUS
<1>1. GateInv
  BY DEF HvInit, GateInv, Admitted
<1>2. SpecInv
  BY DEF HvInit, CacheInit, SpecInv, ServedFailuresAreSpeculated, Shared, Runners
<1>3. RunnersLockExact
  BY DEF HvInit, CacheInit, RunnersLockExact, ExactFor, Runners, Critical
<1> QED
  BY <1>1, <1>2, <1>3 DEF HvInv

\* Every step keeps what the runners know of the gates.
LEMMA GateStep == HvTypeOK /\ GateInv /\ [HvNext]_vars => GateInv'
<1> SUFFICES ASSUME HvTypeOK, GateInv, [HvNext]_vars PROVE GateInv'
  OBVIOUS
<1> USE DEF HvTypeOK, GateInv, Admitted, Stages, Gates, Stage, hvVars
<1>1. ASSUME NEW c \in Runners, NEW k \in Keys, RunStart(c, k) PROVE GateInv'
  <2>1. /\ stage'[c] \in Gates /\ (thermal # "Refuse" => cool'[c]) /\ thermal' = thermal
        /\ \A d \in Runners \ {c} : stage'[d] = stage[d] /\ cool'[d] = cool[d]
    BY <1>1, Zenon DEF RunStart
  <2> QED
    BY <2>1
<1>2. ASSUME NEW c \in Runners, GateOpen(c) PROVE GateInv'
  BY <1>2 DEF GateOpen
<1>3. ASSUME NEW c \in Runners, GateRed(c) \/ EarlyErr(c) PROVE GateInv'
  BY <1>3 DEF GateRed, EarlyErr, RunReturn
<1>4. ASSUME NEW c \in Runners, Lookup(c) \/ LookupRead(c) \/ MountAndLock(c) PROVE GateInv'
  <2>1. /\ stage[c] \in {"lookup", "lookupRead", "mount"} /\ UNCHANGED <<thermal, cool>>
        /\ \A d \in Runners \ {c} : stage'[d] = stage[d]
    BY <1>4, Zenon DEF Lookup, LookupRead, MountAndLock
  <2>2. cool[c]
    BY <2>1
  <2> QED
    BY <2>1, <2>2
<1>5. ASSUME NEW c \in Runners, CacheStep(c) \/ CommandEnds(c) PROVE GateInv'
  BY <1>5 DEF CacheStep, CommandEnds
<1>6. ASSUME NEW c \in Runners, Coalesced(c) \/ RecordHit(c) PROVE GateInv'
  BY <1>6, Zenon DEF Coalesced, RecordHit
<1>7. ASSUME NEW c \in Runners, Slot(c) \/ SlotRun(c) PROVE GateInv'
  BY <1>7, Zenon DEF Slot, SlotRun, RunReturn
<1>8. CASE SpecWake \/ SpecDrain \/ SpecNext \/ SpecRead \/ SpecExecuted \/ SpecStore \/ SpecStored
  BY <1>8, Zenon DEF SpecWake, SpecDrain, SpecNext, SpecRead, SpecExecuted, SpecStore, SpecStored
<1>9. CASE ThermalChange
  BY <1>9, Zenon DEF ThermalChange
<1>10. CASE Crash \/ HvTick
  BY <1>10, Zenon DEF Crash, HvTick
<1>11. CASE UNCHANGED vars
  BY <1>11 DEF vars
<1> QED
  BY <1>1, <1>2, <1>3, <1>4, <1>5, <1>6, <1>7, <1>8, <1>9, <1>10, <1>11, Zenon DEF HvNext

\* Every step serves only speculated failures.
LEMMA SpecStep == HvTypeOK /\ SpecInv /\ [HvNext]_vars => SpecInv'
<1> SUFFICES ASSUME HvTypeOK, SpecInv, [HvNext]_vars PROVE SpecInv'
  OBVIOUS
<1>0. /\ CacheTypeOK /\ key \in [Callers -> Keys] /\ entry \in [Keys -> {"none", "ok", "fail"}]
      /\ result \in [Callers -> {"none", "ok", "fail"}] /\ kind \in [Callers -> Kinds]
  BY DEF HvTypeOK, CacheTypeOK
<1>1. ASSUME NEW c \in Runners, CacheStep(c) \/ CommandEnds(c) PROVE SpecInv'
  BY <1>0, <1>1, CallerServed DEF CacheStep, CommandEnds, hvVars
<1>2. ASSUME NEW c \in Runners, NEW r, NEW how, how \notin Shared, specFailed' = specFailed,
             result' = [result EXCEPT ![c] = r], kind' = [kind EXCEPT ![c] = how],
             entry' = entry, \A d \in Runners \ {c} : key'[d] = key[d]
      PROVE SpecInv'
  BY <1>0, <1>2, ServedRule, Zenon DEF Runners
<1>3. ASSUME NEW c \in Runners, NEW k \in Keys, RunStart(c, k) PROVE SpecInv'
  BY <1>0, <1>2, <1>3, Zenon DEF RunStart, specVars, Shared, Runners
<1>4. ASSUME NEW c \in Runners, MountAndLock(c) PROVE SpecInv'
  BY <1>0, <1>2, <1>4, Zenon DEF MountAndLock, Call, specVars, Shared, Runners
<1>5. ASSUME NEW c \in Runners, NEW r, NEW how \in {"Err", "Miss"}, RunReturn(c, r, how),
             UNCHANGED specFailed
      PROVE SpecInv'
  BY <1>0, <1>2, <1>5, Zenon DEF RunReturn, Shared
<1>6. ASSUME NEW c \in Runners, GateOpen(c) \/ Lookup(c) \/ Coalesced(c) \/ RecordHit(c)
      PROVE SpecInv'
  BY <1>6, QuietServed, Zenon DEF GateOpen, Lookup, Coalesced, RecordHit, cacheVars, specVars
<1>7. ASSUME NEW c \in Runners, GateRed(c) \/ EarlyErr(c) PROVE SpecInv'
  BY <1>5, <1>7, QuietServed DEF GateRed, EarlyErr, cacheVars, specVars
<1>8. ASSUME NEW c \in Runners, Slot(c) \/ SlotRun(c) PROVE SpecInv'
  BY <1>5, <1>8, QuietServed DEF Slot, SlotRun, cacheVars, specVars
<1>9. ASSUME NEW c \in Runners, LookupRead(c) PROVE SpecInv'
  <2>1. UNCHANGED <<entry, key, specFailed>>
    BY <1>9, Zenon DEF LookupRead, specVars
  <2>2. CASE entry[key[c]] # "none"
    <3>1. /\ result'[c] = entry[key[c]]
          /\ \A d \in Runners \ {c} : result'[d] = result[d] /\ kind'[d] = kind[d]
      BY <1>0, <1>9, <2>2 DEF LookupRead, Runners
    <3>2. result'[c] # "ok" => key[c] \in specFailed
      BY <1>0, <2>2, <3>1 DEF SpecInv, Runners
    <3> QED
      BY <2>1, <3>1, <3>2, ServedRule, Zenon
  <2>3. CASE entry[key[c]] = "none"
    BY <1>9, <2>1, <2>3, QuietServed, Zenon DEF LookupRead
  <2> QED
    BY <2>2, <2>3
<1>10. CASE SpecWake \/ SpecDrain \/ SpecRead \/ ThermalChange \/ UNCHANGED vars
  BY <1>10, QuietServed, Zenon DEF SpecWake, SpecDrain, SpecRead, ThermalChange, cacheVars, specVars,
     vars, hvVars
<1>11. CASE SpecExecuted \/ SpecStored
  BY <1>11, QuietServed, Zenon DEF SpecExecuted, SpecStored
<1>12. CASE SpecNext
  <2>1. UNCHANGED <<entry, result, kind, specFailed>> /\ \A c \in Runners : key'[c] = key[c]
    BY <1>0, <1>12 DEF SpecNext, Runners
  <2> QED
    BY <2>1, ServedRule, Zenon
<1>13. CASE SpecStore
  <2>1. CASE SweepCheck(Speculator) \/ SweepRemove(Speculator)
    <3>1. /\ UNCHANGED <<key, result, kind>> /\ specFailed \subseteq specFailed'
          /\ \A k \in Keys : entry'[k] = "fail" => entry[k] = "fail"
      BY <1>0, <1>13, <2>1, Zenon DEF SpecStore, SweepCheck, SweepRemove
    <3> QED
      BY <3>1, ServedRule
  <2>2. CASE Persist(Speculator, specResult) /\
             specFailed' = IF specResult = "fail"
                           THEN specFailed \cup {key[Speculator]} ELSE specFailed
    <3>1. /\ UNCHANGED <<key, result, kind>>
          /\ entry' = [entry EXCEPT ![key[Speculator]] = specResult]
      BY <2>2, Zenon DEF Persist
    <3>2. \A k \in Keys : entry'[k] = "fail" => entry[k] = "fail" \/ k \in specFailed'
      BY <1>0, <2>2, <3>1
    <3> QED
      BY <2>2, <3>1, <3>2, ServedRule, Zenon
  <2> QED
    BY <1>13, <2>1, <2>2 DEF SpecStore
<1>14. CASE Crash
  BY <1>14, ServedRule, Zenon DEF Crash, Runners, Shared
<1>15. CASE HvTick
  BY <1>15, QuietServed, Zenon DEF HvTick, Tick, specVars
<1> QED
  BY <1>1, <1>3, <1>4, <1>6, <1>7, <1>8, <1>9, <1>10, <1>11, <1>12, <1>13, <1>14, <1>15
  DEF HvNext

\* Every step keeps the flocks exact.
LEMMA LockStep == HvTypeOK /\ RunnersLockExact /\ [HvNext]_vars => RunnersLockExact'
<1> SUFFICES ASSUME HvTypeOK, RunnersLockExact, [HvNext]_vars PROVE RunnersLockExact'
  OBVIOUS
<1>0. /\ CacheTypeOK /\ stage \in [Runners -> Stages] /\ Runners \in SUBSET Callers
      /\ pc \in [Callers -> PCs] /\ key \in [Callers -> Keys]
      /\ ExactFor(Runners) /\ \A c \in Runners : stage[c] # "coalesce" => pc[c] = "idle"
  BY Zenon DEF HvTypeOK, CacheTypeOK, RunnersLockExact, Runners
<1>1. ASSUME NEW c \in Runners, CacheStep(c) \/ CommandEnds(c) PROVE RunnersLockExact'
  <2>1. ExactFor(Runners)'
    BY <1>0, <1>1, HvCacheSteps, ExactNext
  <2>2. stage[c] = "coalesce" /\ stage' = stage /\ \A d \in Runners \ {c} : pc'[d] = pc[d]
    BY <1>0, <1>1, CallerAlone DEF CacheStep, CommandEnds, hvVars
  <2> QED
    BY <1>0, <2>1, <2>2 DEF RunnersLockExact
<1>2. ASSUME NEW c \in Runners, MountAndLock(c) PROVE RunnersLockExact'
  <2>1. ExactFor(Runners)'
    BY <1>0, <1>2, HvCacheSteps, ExactNext
  <2>2. stage'[c] = "coalesce" /\ \A d \in Runners \ {c} : pc'[d] = pc[d] /\ stage'[d] = stage[d]
    BY <1>0, <1>2 DEF MountAndLock, Call, Goto, Stage
  <2> QED
    BY <1>0, <2>1, <2>2 DEF RunnersLockExact
<1>3. ASSUME NEW c \in Runners, NEW s \in Stages, Stage(c, s), UNCHANGED <<holder, pc>>,
             pc[c] = "idle", \A d \in Runners \ {c} : key'[d] = key[d]
      PROVE RunnersLockExact'
  <2>1. \A d \in Runners \ {c} : stage'[d] = stage[d]
    BY <1>0, <1>3 DEF Stage
  <2>2. ExactFor(Runners)'
    BY <1>0, <1>3 DEF ExactFor, Critical
  <2> QED
    BY <1>0, <1>3, <2>1, <2>2, Zenon DEF RunnersLockExact
<1>4. ASSUME NEW c \in Runners, NEW k \in Keys, RunStart(c, k) PROVE RunnersLockExact'
  BY <1>0, <1>3, <1>4 DEF RunStart, Stages, Gates, Runners
<1>5. ASSUME NEW c \in Runners, NEW s \in Stages, Stage(c, s), UNCHANGED <<holder, pc, key>>,
             pc[c] = "idle"
      PROVE RunnersLockExact'
  BY <1>3, <1>5
<1>6. ASSUME NEW c \in Runners, GateOpen(c) \/ Lookup(c) PROVE RunnersLockExact'
  BY <1>0, <1>5, <1>6, Zenon DEF GateOpen, Lookup, cacheVars, Stages, Gates
<1>7. ASSUME NEW c \in Runners, Coalesced(c) \/ RecordHit(c) PROVE RunnersLockExact'
  BY <1>0, <1>5, <1>7, Zenon DEF Coalesced, RecordHit, cacheVars, Stages
<1>8. ASSUME NEW c \in Runners, LookupRead(c) PROVE RunnersLockExact'
  BY <1>0, <1>5, <1>8 DEF LookupRead, Stages
<1>9. ASSUME NEW c \in Runners, NEW r, NEW how, RunReturn(c, r, how), stage[c] # "coalesce"
      PROVE RunnersLockExact'
  BY <1>0, <1>5, <1>9 DEF RunReturn, Stages
<1>10. ASSUME UNCHANGED <<holder, stage>>, \A c \in Runners : pc'[c] = pc[c] /\ key'[c] = key[c]
       PROVE RunnersLockExact'
  <2>1. ExactFor(Runners)'
    BY <1>0, <1>10 DEF ExactFor
  <2> QED
    BY <1>0, <1>10, <2>1, Zenon DEF RunnersLockExact
<1>11. ASSUME NEW c \in Runners, GateRed(c) \/ EarlyErr(c) PROVE RunnersLockExact'
  <2>1. stage[c] # "coalesce"
    BY <1>11 DEF GateRed, EarlyErr, Gates
  <2>2. (\E r, how : RunReturn(c, r, how)) \/ UNCHANGED <<holder, stage, pc, key>>
    BY <1>11 DEF GateRed, EarlyErr, cacheVars
  <2> QED
    BY <1>9, <1>10, <2>1, <2>2
<1>12. ASSUME NEW c \in Runners, Slot(c) \/ SlotRun(c) PROVE RunnersLockExact'
  BY <1>0, <1>5, <1>9, <1>12, Zenon DEF Slot, SlotRun, cacheVars, Stages
<1>13. CASE SpecWake \/ SpecDrain \/ SpecRead \/ ThermalChange
  BY <1>10, <1>13, Zenon DEF SpecWake, SpecDrain, SpecRead, ThermalChange, cacheVars
<1>14. CASE SpecNext \/ SpecExecuted \/ SpecStored
  BY <1>0, <1>10, <1>14, Zenon DEF SpecNext, SpecExecuted, SpecStored, Goto, Runners
<1>15. CASE SpecStore
  BY <1>0, <1>10, <1>15, Zenon DEF SpecStore, Persist, SweepCheck, SweepRemove, Goto, Runners
<1>16. CASE Crash
  <2>1. /\ \A c \in Runners : pc'[c] = "idle" /\ c # None
        /\ \A k \in Keys : holder'[k] = None
    BY <1>16 DEF Crash, Runners
  <2> QED
    BY <2>1 DEF RunnersLockExact, ExactFor, Critical
<1>17. CASE HvTick \/ UNCHANGED vars
  BY <1>10, <1>17, Zenon DEF HvTick, Tick, vars, hvVars, cacheVars
<1> QED
  BY <1>1, <1>2, <1>4, <1>6, <1>7, <1>8, <1>11, <1>12, <1>13, <1>14, <1>15, <1>16, <1>17
  DEF HvNext

\* The inductive invariant of the composition holds in every reachable state.
LEMMA HvInvariant == HvSpec => []HvInv
<1>1. HvTypeOK /\ HvInv /\ [HvNext]_vars => HvInv'
  BY GateStep, SpecStep, LockStep DEF HvInv
<1> QED
  BY <1>1, HvInvInit, HvTypeCorrect, PTL DEF HvSpec

\* No run gets past thermal_gate_check in a call during which the gate always
\* refused, whatever the number of retries.
THEOREM GateAdmits == HvSpec => []Admitted
<1>1. HvInv => Admitted
  BY DEF HvInv, GateInv
<1> QED
  BY <1>1, HvInvariant, PTL

\* A failed result that Hypervisor::run serves from the cache was stored by the
\* speculation task, never by with_lock_detailed.
THEOREM OnlySpeculatedFailures == HvSpec => []ServedFailuresAreSpeculated
<1>1. HvInv => ServedFailuresAreSpeculated
  BY DEF HvInv, SpecInv
<1> QED
  BY <1>1, HvInvariant, PTL

\* Under Hypervisor::run, with crashes of the process and the speculation task
\* storing without the flock, still no two runs execute or store one command at
\* the same time.
THEOREM OneRunnerUnderHypervisor ==
    HvSpec => [](\A c, d \in Runners :
                    pc[c] \in Critical /\ pc[d] \in Critical /\ key[c] = key[d] => c = d)
<1>1. HvTypeOK /\ HvInv =>
        \A c, d \in Runners :
            pc[c] \in Critical /\ pc[d] \in Critical /\ key[c] = key[d] => c = d
  <2> SUFFICES ASSUME HvTypeOK, HvInv, NEW c \in Runners, NEW d \in Runners,
                      pc[c] \in Critical, pc[d] \in Critical, key[c] = key[d]
               PROVE  c = d
    OBVIOUS
  <2>1. key[c] \in Keys
    BY DEF HvTypeOK, CacheTypeOK, Runners
  <2>2. ExactFor(Runners)
    BY Zenon DEF HvInv, RunnersLockExact
  <2>3. holder[key[c]] = c /\ holder[key[c]] = d
    BY <2>1, <2>2, Zenon DEF ExactFor
  <2> QED
    BY <2>3
<1> QED
  BY <1>1, HvInvariant, HvTypeCorrect, PTL

-----------------------------------------------------------------------------
(* with_lock_detailed on its own again: it implements ResultContract.        *)

\* The contract sees a caller move when its label does,
LEMMA MoveSeen ==
    ASSUME CacheTypeOK, NEW c \in Callers, NEW label, Goto(c, label),
           NEW from, PhaseAt(pc[c]) \in from
    PROVE  Contract!Move(c, from, PhaseAt(label))
<1>1. Phase' = [Phase EXCEPT ![c] = PhaseAt(label)]
  BY Zenon DEF Phase, Goto, CacheTypeOK
<1>2. Phase[c] = PhaseAt(pc[c])
  BY DEF Phase
<1> QED
  BY <1>1, <1>2, Zenon DEF Contract!Move

\* unless both labels are of one phase,
LEMMA MoveUnseen ==
    ASSUME CacheTypeOK, NEW c \in Callers, NEW label, Goto(c, label),
           PhaseAt(label) = PhaseAt(pc[c])
    PROVE  Phase' = Phase
  BY DEF Phase, Goto, CacheTypeOK

\* and what a call returns, with the directory as it was.
LEMMA ReturnSeen ==
    ASSUME CacheTypeOK, NEW c \in Callers, NEW r, NEW how, Return(c, r, how),
           UNCHANGED <<entry, age>>, NEW from, PhaseAt(pc[c]) \in from
    PROVE  /\ Contract!Move(c, from, "out") /\ Contract!Answer(c, ReplyAt(r, how))
           /\ Good' = Good /\ Fresh' = Fresh
<1>1. Goto(c, "idle") /\ PhaseAt("idle") = "out"
  BY DEF Return, PhaseAt
<1>2. Reply' = [Reply EXCEPT ![c] = ReplyAt(r, how)]
  BY Zenon DEF Reply, Return, CacheTypeOK
<1>3. Good' = Good /\ Fresh' = Fresh
  BY DEF Good, Fresh, IsFresh
<1>4. Contract!Move(c, from, "out")
  BY <1>1, MoveSeen
<1> QED
  BY <1>2, <1>3, <1>4, Zenon DEF Contract!Answer

\* The phases of the labels.
LEMMA Phases ==
    /\ PhaseAt("idle") = "out" /\ PhaseAt("lock") = "waiting"
    /\ \A l \in {"recheck", "debounce", "debounced"} : PhaseAt(l) = "looking"
    /\ \A l \in {"recheckRead", "debouncedRead"} : PhaseAt(l) = "found"
    /\ \A l \in {"run", "store"} : PhaseAt(l) = "running"
    /\ PhaseAt("sweep") = "stored"
    /\ \A l \in PCs : PhaseAt(l) \in Contract!Inside <=> l \in Critical
    /\ \A l \in PCs : l # "idle" => PhaseAt(l) \in Contract!Inside \cup {"waiting"}
  BY DEF PhaseAt, PCs, Critical, Contract!Inside

\* Calls that end without a result give up.
LEMMA GivesUp ==
    ASSUME CacheTypeOK, NEW c \in Callers, NEW how \in {"Err", "Killed"},
           Return(c, "none", how), pc[c] # "idle", UNCHANGED <<entry, age, key>>
    PROVE  Contract!GiveUp(c)
<1>1. PhaseAt(pc[c]) \in Contract!Inside \cup {"waiting"}
  BY Phases DEF CacheTypeOK
<1>2. ReplyAt("none", how) = Contract!NoReply
  BY DEF ReplyAt, Contract!NoReply
<1>3. /\ Contract!Move(c, Contract!Inside \cup {"waiting"}, "out")
      /\ Contract!Answer(c, ReplyAt("none", how)) /\ Good' = Good /\ Fresh' = Fresh
  BY <1>1, ReturnSeen
<1> QED
  BY <1>2, <1>3 DEF Contract!GiveUp

\* A step that only moves the caller leaves the rest of the contract's state alone.
LEMMA OnlyMoves ==
    ASSUME UNCHANGED <<entry, age, key, result, kind>>
    PROVE  key' = key /\ Reply' = Reply /\ Good' = Good /\ Fresh' = Fresh
  BY Zenon DEF Reply, Good, Fresh, IsFresh

\* The first call of a caller that is out.
LEMMA CallAsks ==
    ASSUME CacheTypeOK, NEW c \in Callers, NEW k \in Keys, Call(c, k)
    PROVE  Contract!Ask(c, k)
<1>1. Contract!Move(c, {"out"}, "waiting")
  BY MoveSeen, Phases DEF Call
<1>2. Reply' = [Reply EXCEPT ![c] = ReplyAt("none", "none")]
  BY Zenon DEF Reply, Call, CacheTypeOK
<1>3. ReplyAt("none", "none") = Contract!NoReply
  BY DEF ReplyAt, Contract!NoReply
<1>4. Good' = Good /\ Fresh' = Fresh
  BY Zenon DEF Good, Fresh, IsFresh, Call
<1>5. key' = [key EXCEPT ![c] = k]
  BY DEF Call
<1> QED
  BY <1>1, <1>2, <1>3, <1>4, <1>5, Zenon DEF Contract!Ask, Contract!Answer

\* The flock lets one caller of a command in.
LEMMA LockEnters ==
    ASSUME CacheTypeOK, ExactFor(Callers), NEW c \in Callers, TryLock(c)
    PROVE  Contract!Enter(c)
<1>1. Contract!Move(c, {"waiting"}, "looking")
  BY MoveSeen, Phases, Zenon DEF TryLock
<1>2. key' = key /\ Reply' = Reply /\ Good' = Good /\ Fresh' = Fresh
  BY OnlyMoves, Zenon DEF TryLock
<1>3. ASSUME NEW d \in Callers, Phase[d] \in Contract!Inside PROVE key[d] # key[c]
  <2>1. pc[d] \in Critical
    BY <1>3, Phases DEF Phase, CacheTypeOK
  <2>2. key[d] \in Keys /\ holder[key[d]] = d
    BY <2>1 DEF ExactFor, CacheTypeOK
  <2> QED
    BY <2>2, Zenon DEF TryLock
<1> QED
  BY <1>1, <1>2, <1>3, Zenon DEF Contract!Enter

\* The look at the entry.
LEMMA LookSeen ==
    ASSUME CacheTypeOK, NEW c \in Callers, CheckFresh(c)
    PROVE  Contract!Find(c) \/ Contract!Run(c) \/ UNCHANGED Contract!contractVars
<1>1. key' = key /\ Reply' = Reply /\ Good' = Good /\ Fresh' = Fresh
  BY OnlyMoves, Zenon DEF CheckFresh
<1>2. pc[c] \in {"recheck", "debounced"} /\ PhaseAt(pc[c]) = "looking"
  BY Phases, Zenon DEF CheckFresh
<1>3. key[c] \in Keys
  BY DEF CacheTypeOK
<1>4. CASE IsFresh(key[c])
  <2>1. PICK label \in {"recheckRead", "debouncedRead"} : Goto(c, label)
    BY <1>4, Zenon DEF CheckFresh
  <2>2. Contract!Move(c, {"looking"}, "found")
    BY <1>2, <2>1, MoveSeen, Phases
  <2>3. key[c] \in Fresh
    BY <1>3, <1>4, Zenon DEF Fresh
  <2> QED
    BY <1>1, <2>2, <2>3, Zenon DEF Contract!Find
<1>5. CASE ~IsFresh(key[c])
  <2>1. Goto(c, "run") \/ Goto(c, "debounce")
    BY <1>5, Zenon DEF CheckFresh, AfterMiss
  <2>2. key[c] \notin Fresh
    BY <1>3, <1>5 DEF Fresh
  <2>3. CASE Goto(c, "run")
    <3>1. Contract!Move(c, {"looking", "found"}, "running")
      BY <1>2, <2>3, MoveSeen, Phases
    <3> QED
      BY <1>1, <2>2, <3>1, Zenon DEF Contract!Run
  <2>4. CASE Goto(c, "debounce")
    BY <1>1, <1>2, <2>4, MoveUnseen, Phases DEF Contract!contractVars
  <2> QED
    BY <2>1, <2>3, <2>4
<1> QED
  BY <1>4, <1>5

\* The read of the entry.
LEMMA ReadSeen ==
    ASSUME CacheTypeOK, SuccessInv, NEW c \in Callers, ReadHit(c) \/ ReadGone(c)
    PROVE  Contract!Serve(c) \/ Contract!Run(c) \/ Contract!LookAgain(c)
<1>1. PhaseAt(pc[c]) = "found" /\ key[c] \in Keys /\ key' = key
  BY Phases, Zenon DEF ReadHit, ReadGone, CacheTypeOK
<1>2. CASE ReadHit(c)
  <2>1. entry[key[c]] = "ok"
    BY <1>1, <1>2 DEF ReadHit, SuccessInv, CacheTypeOK
  <2>2. PICK how \in {"LockRecheck", "DebounceRecheck"} : Return(c, "ok", how)
    BY <1>2, <2>1, Zenon DEF ReadHit
  <2>3. UNCHANGED <<entry, age>>
    BY <1>2, Zenon DEF ReadHit
  <2>4. ReplyAt("ok", how) = <<"ok", "cache">>
    BY DEF ReplyAt
  <2>5. key[c] \in Good
    BY <1>1, <2>1, Zenon DEF Good
  <2>6. /\ Contract!Move(c, {"found"}, "out") /\ Contract!Answer(c, ReplyAt("ok", how))
        /\ Good' = Good /\ Fresh' = Fresh
    BY <1>1, <2>2, <2>3, ReturnSeen, Zenon
  <2> QED
    BY <1>1, <2>4, <2>5, <2>6, Zenon DEF Contract!Serve
<1>3. CASE ReadGone(c)
  <2>1. key' = key /\ Reply' = Reply /\ Good' = Good /\ Fresh' = Fresh
    BY <1>3, OnlyMoves, Zenon DEF ReadGone
  <2>2. key[c] \notin Good /\ key[c] \notin Fresh
    BY <1>3, Zenon DEF ReadGone, Good, Fresh, IsFresh
  <2>3. Goto(c, "run") \/ Goto(c, "debounce")
    BY <1>3, Zenon DEF ReadGone, AfterMiss
  <2>4. CASE Goto(c, "run")
    <3>1. Contract!Move(c, {"looking", "found"}, "running")
      BY <1>1, <2>4, MoveSeen, Phases
    <3> QED
      BY <2>1, <2>2, <3>1, Zenon DEF Contract!Run
  <2>5. CASE Goto(c, "debounce")
    <3>1. Contract!Move(c, {"found"}, "looking")
      BY <1>1, <2>5, MoveSeen, Phases
    <3> QED
      BY <2>1, <2>2, <3>1, Zenon DEF Contract!LookAgain
  <2> QED
    BY <2>3, <2>4, <2>5
<1> QED
  BY <1>2, <1>3

\* store keeps the success; the sweep that follows is not seen until it removes.
LEMMA StoreSeen ==
    ASSUME CacheTypeOK, NEW c \in Callers, Persist(c, "ok")
    PROVE  Contract!Keep(c)
<1>1. Contract!Move(c, {"running"}, "stored")
  BY MoveSeen, Phases, Zenon DEF Persist
<1>2. key' = key /\ Reply' = Reply /\ key[c] \in Keys
  BY DEF Persist, Reply, CacheTypeOK
<1>3. /\ \A k \in Keys \ {key[c]} : entry'[k] = entry[k] /\ age'[k] = age[k]
      /\ entry'[key[c]] = "ok" /\ age'[key[c]] = 0
  <2>1. /\ entry' = [entry EXCEPT ![key[c]] = "ok"] /\ age' = [age EXCEPT ![key[c]] = 0]
        /\ entry \in [Keys -> {"none", "ok", "fail"}] /\ age \in [Keys -> 0..TTL]
    BY DEF Persist, CacheTypeOK
  <2> QED
    BY <1>2, <2>1
<1>4. Good' = Good \cup {key[c]}
  BY <1>2, <1>3, Zenon DEF Good
<1>5. Fresh' = Fresh \cup {key[c]}
  <2>1. IsFresh(key[c])'
    <3>1. 0 < TTL
      OBVIOUS
    <3> QED
      BY <1>2, <1>3, <3>1, Zenon DEF IsFresh
  <2>2. \A k \in Keys \ {key[c]} : IsFresh(k)' <=> IsFresh(k)
    BY <1>3, Zenon DEF IsFresh
  <2> QED
    BY <1>2, <2>1, <2>2, Zenon DEF Fresh
<1> QED
  BY <1>1, <1>2, <1>4, <1>5, Zenon DEF Contract!Keep

\* A sweep forgets the entry it removes,
LEMMA RemovalSeen ==
    ASSUME CacheTypeOK, NEW c \in Callers, SweepRemove(c)
    PROVE  \E k \in Keys : Contract!Forget(k)
<1>1. doomed[c] \in Keys
  BY DEF SweepRemove, CacheTypeOK
<1>2. Phase' = Phase /\ key' = key /\ Reply' = Reply
  BY Zenon DEF SweepRemove, Phase, Reply
<1>3. /\ \A k \in Keys \ {doomed[c]} : entry'[k] = entry[k] /\ age'[k] = age[k]
      /\ entry'[doomed[c]] = "none"
  BY <1>1 DEF SweepRemove, CacheTypeOK
<1>4. Good' = Good \ {doomed[c]} /\ Fresh' = Fresh \ {doomed[c]}
  BY <1>1, <1>3, Zenon DEF Good, Fresh, IsFresh
<1>5. Contract!Forget(doomed[c])
  BY <1>2, <1>4, Zenon DEF Contract!Forget
<1> QED
  BY <1>1, <1>5

\* and time makes entries stale.
LEMMA TickSeen ==
    ASSUME CacheTypeOK, Tick
    PROVE  Contract!Expire
<1>1. Phase' = Phase /\ key' = key /\ Reply' = Reply /\ Good' = Good
  BY Zenon DEF Tick, Phase, Reply, Good
<1>2. /\ age \in [Keys -> 0..TTL] /\ entry' = entry
      /\ age' = [k \in Keys |-> IF entry[k] = "none" THEN age[k] ELSE Older(age[k], TTL)]
  BY Zenon DEF Tick, CacheTypeOK
<1>3. Fresh' \subseteq Fresh
  <2>1. \A k \in Keys : age[k] \in Nat /\ Older(age[k], TTL) \in Nat
                       /\ age[k] <= Older(age[k], TTL)
    BY <1>2 DEF Older
  <2>2. \A k \in Keys : entry[k] # "none" => age'[k] = Older(age[k], TTL)
    BY <1>2, Zenon
  <2>3. ASSUME NEW k \in Keys, IsFresh(k)' PROVE IsFresh(k)
    BY <1>2, <2>1, <2>2, <2>3 DEF IsFresh
  <2> QED
    BY <2>3, Zenon DEF Fresh
<1> QED
  BY <1>1, <1>3, Zenon DEF Contract!Expire

\* The command ends, and the call with it.
LEMMA EndSeen ==
    ASSUME CacheTypeOK, NEW c \in Callers, RunFail(c) \/ SweepDone(c)
    PROVE  Contract!Fail(c) \/ Contract!Deliver(c)
<1>1. CASE RunFail(c)
  <2>1. /\ Contract!Move(c, {"running"}, "out") /\ Contract!Answer(c, ReplyAt("fail", "Miss"))
        /\ Good' = Good /\ Fresh' = Fresh
    BY <1>1, ReturnSeen, Phases DEF RunFail
  <2>2. ReplyAt("fail", "Miss") = <<"fail", "run">> /\ key' = key
    BY <1>1 DEF ReplyAt, RunFail
  <2> QED
    BY <2>1, <2>2 DEF Contract!Fail
<1>2. CASE SweepDone(c)
  <2>1. /\ Contract!Move(c, {"stored"}, "out") /\ Contract!Answer(c, ReplyAt("ok", "Miss"))
        /\ Good' = Good /\ Fresh' = Fresh
    BY <1>2, ReturnSeen, Phases, Zenon DEF SweepDone
  <2>2. ReplyAt("ok", "Miss") = <<"ok", "run">> /\ key' = key
    BY <1>2 DEF ReplyAt, SweepDone
  <2> QED
    BY <2>1, <2>2 DEF Contract!Deliver
<1> QED
  BY <1>1, <1>2

\* Every step of the cache is a step of the contract or is not seen there.
LEMMA ContractStep ==
    ASSUME CacheTypeOK, CacheIInv, [CacheNext]_cacheVars
    PROVE  [Contract!ContractNext]_(Contract!contractVars)
<1>1. ExactFor(Callers) /\ SuccessInv
  BY IInvParts
<1>2. ASSUME NEW c \in Callers, NEW k \in Keys, Call(c, k) PROVE Contract!ContractNext
  BY <1>2, CallAsks DEF Contract!ContractNext
<1>3. ASSUME NEW c \in Callers, TryLock(c) PROVE Contract!ContractNext
  BY <1>1, <1>3, LockEnters DEF Contract!ContractNext
<1>4. ASSUME NEW c \in Callers, Contract!GiveUp(c) PROVE Contract!ContractNext
  BY <1>4 DEF Contract!ContractNext
<1>5. ASSUME NEW c \in Callers, LockTimeout(c) \/ IoErr(c) PROVE Contract!ContractNext
  BY <1>4, <1>5, GivesUp DEF LockTimeout, IoErr
<1>6. ASSUME NEW c \in Callers, SweepErr(c) \/ Kill(c) PROVE Contract!ContractNext
  BY <1>4, <1>6, GivesUp DEF SweepErr, Kill
<1>7. ASSUME NEW c \in Callers, CheckFresh(c)
      PROVE  Contract!ContractNext \/ UNCHANGED Contract!contractVars
  BY <1>7, LookSeen DEF Contract!ContractNext
<1>8. ASSUME NEW c \in Callers, ReadHit(c) \/ ReadGone(c) PROVE Contract!ContractNext
  BY <1>1, <1>8, ReadSeen DEF Contract!ContractNext
<1>9. ASSUME NEW c \in Callers, DebounceOver(c) \/ RunOk(c)
      PROVE  UNCHANGED Contract!contractVars
  <2>1. key' = key /\ Reply' = Reply /\ Good' = Good /\ Fresh' = Fresh
    BY <1>9, OnlyMoves DEF DebounceOver, RunOk
  <2>2. Phase' = Phase
    BY <1>9, MoveUnseen, Phases DEF DebounceOver, RunOk
  <2> QED
    BY <2>1, <2>2 DEF Contract!contractVars
<1>10. ASSUME NEW c \in Callers, Persist(c, "ok") PROVE Contract!ContractNext
  BY <1>10, StoreSeen DEF Contract!ContractNext
<1>11. ASSUME NEW c \in Callers, SweepCheck(c) PROVE UNCHANGED Contract!contractVars
  BY <1>11, Zenon DEF SweepCheck, Contract!contractVars, Phase, Reply, Good, Fresh, IsFresh
<1>12. ASSUME NEW c \in Callers, SweepRemove(c) PROVE Contract!ContractNext
  BY <1>12, RemovalSeen DEF Contract!ContractNext
<1>13. ASSUME NEW c \in Callers, RunFail(c) \/ SweepDone(c) PROVE Contract!ContractNext
  BY <1>13, EndSeen DEF Contract!ContractNext
<1>14. ASSUME Tick PROVE Contract!ContractNext
  BY <1>14, TickSeen DEF Contract!ContractNext
<1>15. CASE UNCHANGED cacheVars
  BY <1>15, Zenon DEF cacheVars, Contract!contractVars, Phase, Reply, Good, Fresh, IsFresh
<1> QED
  BY CacheActions, <1>2, <1>3, <1>5, <1>6, <1>7, <1>8, <1>9, <1>10, <1>11, <1>12, <1>13,
     <1>14, <1>15

\* with_lock_detailed implements the contract of the result cache, for any
\* callers and commands, any TTL, deadline and debounce.
THEOREM CacheKeepsContract == CacheSpec => KeepsContract
<1>1. CacheInit => Contract!ContractInit
  <2> SUFFICES ASSUME CacheInit PROVE Contract!ContractInit
    OBVIOUS
  <2>1. Phase = [c \in Callers |-> "out"]
    BY Phases DEF CacheInit, Phase
  <2>2. ReplyAt("none", "none") = Contract!NoReply
    BY DEF ReplyAt, Contract!NoReply
  <2>3. Reply = [c \in Callers |-> Contract!NoReply]
    BY <2>2 DEF CacheInit, Reply
  <2>4. Good = {} /\ Fresh = {}
    BY DEF CacheInit, Good, Fresh, IsFresh
  <2> QED
    BY <2>1, <2>3, <2>4 DEF Contract!ContractInit, CacheInit
<1>2. CacheTypeOK /\ CacheIInv /\ [CacheNext]_cacheVars
        => [Contract!ContractNext]_(Contract!contractVars)
  BY ContractStep
<1> QED
  BY <1>1, <1>2, CacheInvariant, PTL DEF CacheSpec, KeepsContract, Contract!ContractSpec
=============================================================================
