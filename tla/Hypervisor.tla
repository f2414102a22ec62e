------------------------------ MODULE Hypervisor ------------------------------
(***************************************************************************)
(* crates/sharecli-core: Hypervisor::run over the Lock-Wait-Cache, with    *)
(* the thermal gate in front of it and the speculation task beside it.     *)
(*                                                                         *)
(* One process: the Runners are the tasks that call Hypervisor::run, the   *)
(* Speculator is the background task of spawn_speculation_task.  It is a   *)
(* member of Callers because it stores through the same CoalesceCache, but *)
(* it never takes a flock.  The steps of with_lock_detailed and of the     *)
(* eviction sweep are those of CoalesceCache.                              *)
(*                                                                         *)
(* External: the command itself (it may succeed, fail, not start, or       *)
(* hang), the device's thermal state, the slot queue (see SlotQueue) and   *)
(* the FUSE mount of a miss (see FuseGuard), which never fails a run.      *)
(***************************************************************************)
EXTENDS CoalesceCache

CONSTANTS
    Speculator,     \* the speculation task, a member of Callers
    MaxRetries,     \* THERMAL_MAX_RETRIES
    Threshold,      \* SPECULATION_THRESHOLD
    Window,         \* SPECULATION_WINDOW, in ticks
    MaxCandidates,  \* SPECULATION_MAX_CANDIDATES
    QueueMax,       \* queue_max_concurrent
    HitCap          \* bound: hit counts saturate here

ASSUME HypervisorAssumption ==
    /\ Speculator \in Callers
    /\ MaxRetries \in Nat \ {0}
    /\ Threshold \in Nat \ {0}
    /\ Window \in Nat
    /\ MaxCandidates \in Nat \ {0}
    /\ QueueMax \in Nat \ {0}
    /\ HitCap \in Nat /\ HitCap >= Threshold

Runners == Callers \ {Speculator}

VARIABLES
    stage,      \* where each runner is in Hypervisor::run / run_queued
    attempt,    \* thermal_gate_check: Red polls so far
    thermal,    \* what ThermalGate::check answers now
    cool,       \* history: the gate did not refuse at some time in this call
    hits,       \* SpeculationTracker: hit count per key (0: not tracked)
    hitAge,     \* SpeculationTracker: age of the latest hit (0: not tracked)
    specFailed, \* history: keys whose failed pre-execution was stored
    spc,        \* where the speculation task is
    todo,       \* candidates drained and not yet looked at
    specResult  \* what the pre-execution returned

hvVars == <<stage, attempt, thermal, cool, hits, hitAge, specFailed, spc,
            todo, specResult>>
vars == <<cacheVars, hvVars>>
specVars == <<spc, todo, specResult, specFailed>>
trackVars == <<hits, hitAge>>

Decisions == {"Allow", "Warn", "Refuse"}

\* gate: the gate of run; gateNocache: the same, of a call with a nocache
\* argument; gateQueue: the second gate, in run_queued.
Gates == {"gate", "gateNocache", "gateQueue"}
Stages == Gates \cup {"out", "lookup", "lookupRead", "mount", "coalesce",
                      "record", "slot", "slotRun"}

HvTypeOK ==
    /\ CacheTypeOK
    /\ stage   \in [Runners -> Stages]
    /\ attempt \in [Runners -> 0..(MaxRetries - 1)]
    /\ thermal \in Decisions
    /\ cool    \in [Runners -> BOOLEAN]
    /\ hits    \in [Keys -> 0..HitCap]
    /\ hitAge  \in [Keys -> 0..(Window + 1)]
    /\ specFailed \subseteq Keys
    /\ spc     \in {"sleep", "drain", "next", "read", "run", "store"}
    /\ todo    \subseteq Keys
    /\ specResult \in {"none", "ok", "fail"}

HvInit ==
    /\ CacheInit
    /\ stage   = [c \in Runners |-> "out"]
    /\ attempt = [c \in Runners |-> 0]
    /\ thermal = "Allow"
    /\ cool    = [c \in Runners |-> FALSE]
    /\ hits    = [k \in Keys |-> 0]
    /\ hitAge  = [k \in Keys |-> 0]
    /\ specFailed = {}
    /\ spc     = "sleep"
    /\ todo    = {}
    /\ specResult = "none"
-----------------------------------------------------------------------------
(* The thermal gate. *)

\* combine_thermal_agent_decision: the hardware level escalated by the number
\* of agents on the host ("Ok", "Warn", "Refuse").
Combine(base, agents) ==
    IF "Refuse" \in {base, agents} THEN "Refuse"
    ELSE IF base = "Allow" /\ agents = "Ok" THEN "Allow" ELSE "Warn"

\* External: the device heats up or cools down, agents come and go.
\* SystemThermalGate::check maps the level (or a failed poll) to a decision.
ThermalChange ==
    /\ \E base \in Decisions, agents \in {"Ok", "Warn", "Refuse"} :
        thermal' = Combine(base, agents)
    /\ cool' = [c \in Runners |-> cool[c] \/ thermal' # "Refuse"]
    /\ UNCHANGED <<cacheVars, stage, attempt, trackVars, specVars>>

Stage(c, s) == stage' = [stage EXCEPT ![c] = s]

\* Hypervisor::run returns without having entered with_lock_detailed.
RunReturn(c, r, how) ==
    /\ Stage(c, "out")
    /\ result' = [result EXCEPT ![c] = r]
    /\ kind'   = [kind EXCEPT ![c] = how]
    /\ UNCHANGED <<entry, age, holder, pc, key, waited, sweep, doomed, sinceOk>>

\* run(req), for a cacheable command or for one with a nocache argument.
RunStart(c, k) ==
    /\ stage[c] = "out"
    /\ \/ Stage(c, "gate")
       \/ Stage(c, "gateNocache")
    /\ key'     = [key EXCEPT ![c] = k]
    /\ result'  = [result EXCEPT ![c] = "none"]
    /\ kind'    = [kind EXCEPT ![c] = "none"]
    /\ cool'    = [cool EXCEPT ![c] = thermal # "Refuse"]
    /\ UNCHANGED <<entry, age, holder, pc, waited, sweep, doomed, sinceOk,
                   attempt, thermal, trackVars, specVars>>

\* thermal_gate_check lets the call through: to the cache, to the second gate
\* of run_queued, or to the slot queue.
GateOpen(c) ==
    /\ thermal # "Refuse"
    /\ \/ stage[c] = "gate" /\ Stage(c, "lookup")
       \/ stage[c] = "gateNocache" /\ Stage(c, "gateQueue")
       \/ stage[c] = "gateQueue" /\ Stage(c, "slot")
    /\ attempt' = [attempt EXCEPT ![c] = 0]
    /\ UNCHANGED <<cacheVars, thermal, cool, trackVars, specVars>>

\* ResourceWatchSample::capture fails right after the gate, or the lookup does.
EarlyErr(c) ==
    /\ \/ stage[c] \in Gates /\ thermal # "Refuse"
       \/ stage[c] \in {"lookup", "lookupRead"}
    /\ RunReturn(c, "none", "Err")
    /\ attempt' = [attempt EXCEPT ![c] = 0]
    /\ UNCHANGED <<thermal, cool, trackVars, specVars>>

GateRed_ProceedsAnyway(c) ==
    /\ stage[c] \in Gates
    /\ thermal = "Refuse"
    /\ attempt' = [attempt EXCEPT ![c] = IF @ + 1 >= MaxRetries THEN 0 ELSE @ + 1]
    /\ IF attempt[c] + 1 >= MaxRetries
       THEN Stage(c, IF stage[c] = "gate" THEN "lookup" ELSE "slot")
       ELSE UNCHANGED stage
    /\ UNCHANGED <<cacheVars, thermal, cool, trackVars, specVars>>

\* A Red poll: sleep and poll again, or give up after MaxRetries of them.
GateRed(c) ==
    /\ stage[c] \in Gates
    /\ thermal = "Refuse"
    /\ \/ /\ attempt[c] + 1 >= MaxRetries
          /\ attempt' = [attempt EXCEPT ![c] = 0]
          /\ RunReturn(c, "none", "Err")
       \/ /\ attempt[c] + 1 < MaxRetries
          /\ attempt' = [attempt EXCEPT ![c] = @ + 1]
          /\ UNCHANGED <<cacheVars, stage>>
    /\ UNCHANGED <<thermal, cool, trackVars, specVars>>
-----------------------------------------------------------------------------
(* The cacheable path. *)

\* cache.lookup before the lock: the metadata check ...
Lookup(c) ==
    /\ stage[c] = "lookup"
    /\ Stage(c, IF IsFresh(key[c]) THEN "lookupRead" ELSE "mount")
    /\ UNCHANGED <<cacheVars, attempt, thermal, cool, trackVars, specVars>>

\* ... and the read, which may find the file gone.
LookupRead(c) ==
    /\ stage[c] = "lookupRead"
    /\ IF entry[key[c]] # "none"
       THEN /\ Stage(c, "record")
            /\ result' = [result EXCEPT ![c] = entry[key[c]]]
            /\ kind'   = [kind EXCEPT ![c] = "Lookup"]
       ELSE Stage(c, "mount") /\ UNCHANGED <<result, kind>>
    /\ UNCHANGED <<entry, age, holder, pc, key, waited, sweep, doomed, sinceOk,
                   attempt, thermal, cool, trackVars, specVars>>

\* FuseGuard::try_mount ends, one way or the other, and coalesce_via_lock
\* enters with_lock_detailed.
MountAndLock(c) ==
    /\ stage[c] = "mount"
    /\ Call(c, key[c])
    /\ Stage(c, "coalesce")
    /\ UNCHANGED <<attempt, thermal, cool, trackVars, specVars>>

\* with_lock_detailed has returned: a shared result is recorded as a hit.
Coalesced(c) ==
    /\ stage[c] = "coalesce"
    /\ pc[c] = "idle"
    /\ Stage(c, IF kind[c] \in {"LockRecheck", "DebounceRecheck"}
                THEN "record" ELSE "out")
    /\ UNCHANGED <<cacheVars, attempt, thermal, cool, trackVars, specVars>>

\* SpeculationTracker::record_hit, and run returns the shared result.
RecordHit(c) ==
    /\ stage[c] = "record"
    /\ hits'   = [hits EXCEPT ![key[c]] = Older(@, HitCap)]
    /\ hitAge' = [hitAge EXCEPT ![key[c]] = 0]
    /\ Stage(c, "out")
    /\ UNCHANGED <<cacheVars, attempt, thermal, cool, specVars>>

\* A step inside with_lock_detailed.
CacheStep(c) ==
    /\ stage[c] = "coalesce"
    /\ CallerStep(c)
    /\ UNCHANGED hvVars

\* The command ends (or the store or its sweep fails).
CommandEnds(c) ==
    /\ stage[c] = "coalesce"
    /\ RunOk(c) \/ RunFail(c) \/ IoErr(c) \/ SweepErr(c)
    /\ UNCHANGED hvVars
-----------------------------------------------------------------------------
(* The nocache path: run_queued. *)

\* External: SlotQueue::with_slot grants a slot or times out ...
Slot(c) ==
    /\ stage[c] = "slot"
    /\ \/ /\ Cardinality({d \in Runners : stage[d] = "slotRun"}) < QueueMax
          /\ Stage(c, "slotRun")
          /\ UNCHANGED cacheVars
       \/ RunReturn(c, "none", "Err")
    /\ UNCHANGED <<attempt, thermal, cool, trackVars, specVars>>

\* ... and the command runs in it; its result is not cached.
SlotRun(c) ==
    /\ stage[c] = "slotRun"
    /\ \/ \E r \in {"ok", "fail"} : RunReturn(c, r, "Miss")
       \/ RunReturn(c, "none", "Err")
    /\ UNCHANGED <<attempt, thermal, cool, trackVars, specVars>>
-----------------------------------------------------------------------------
(* The speculation task. *)

\* The interval is over: a cycle begins only if the gate says Allow.
SpecWake ==
    /\ spc = "sleep"
    /\ thermal = "Allow"
    /\ spc' = "drain"
    /\ UNCHANGED <<cacheVars, stage, attempt, thermal, cool, trackVars, todo,
                   specResult, specFailed>>

Eligible == {k \in Keys : hits[k] >= Threshold /\ hitAge[k] <= Window}

\* drain_candidates: the MaxCandidates most frequent keys (ties by key order),
\* which leave the tracker.
SpecDrain ==
    /\ spc = "drain"
    /\ \E S \in SUBSET Eligible :
        /\ Cardinality(S) = IF Cardinality(Eligible) <= MaxCandidates
                            THEN Cardinality(Eligible) ELSE MaxCandidates
        /\ \A k \in S, l \in Eligible \ S : hits[k] >= hits[l]
        /\ todo' = S
        /\ hits' = [k \in Keys |-> IF k \in S THEN 0 ELSE hits[k]]
        /\ hitAge' = [k \in Keys |-> IF k \in S THEN 0 ELSE hitAge[k]]
        /\ spc'  = IF S = {} THEN "sleep" ELSE "next"
    /\ UNCHANGED <<cacheVars, stage, attempt, thermal, cool, specResult, specFailed>>

\* The next candidate: its lookup finds a fresh entry, or it is executed.
\* A lookup error skips it.
SpecNext ==
    /\ spc = "next"
    /\ \/ todo = {} /\ spc' = "sleep" /\ UNCHANGED <<key, todo>>
       \/ \E k \in todo :
            /\ key'  = [key EXCEPT ![Speculator] = k]
            /\ todo' = todo \ {k}
            /\ \/ spc' = IF IsFresh(k) THEN "read" ELSE "run"
               \/ spc' = "next"
    /\ UNCHANGED <<entry, age, holder, pc, waited, result, kind, sweep, doomed,
                   sinceOk, stage, attempt, thermal, cool, trackVars, specResult,
                   specFailed>>

\* The read half of that lookup: warm, or gone meanwhile.
SpecRead ==
    /\ spc = "read"
    /\ spc' = IF entry[key[Speculator]] # "none" THEN "next" ELSE "run"
    /\ UNCHANGED <<cacheVars, stage, attempt, thermal, cool, trackVars, todo,
                   specResult, specFailed>>

\* speculate_execute ends: whatever the exit code, the result goes to store.
\* If it could not run at all the candidate is dropped.
SpecExecuted ==
    /\ spc = "run"
    /\ \/ /\ spc' = "store"
          /\ specResult' \in {"ok", "fail"}
          /\ Goto(Speculator, "store")
       \/ spc' = "next" /\ UNCHANGED <<pc, specResult>>
    /\ UNCHANGED <<entry, age, holder, key, waited, result, kind, sweep, doomed,
                   sinceOk, stage, attempt, thermal, cool, trackVars, todo, specFailed>>

\* cache.store without the flock: the rename and the sweep.
SpecStore ==
    /\ spc = "store"
    /\ \/ /\ Persist(Speculator, specResult)
          /\ specFailed' = IF specResult = "fail"
                           THEN specFailed \cup {key[Speculator]} ELSE specFailed
       \/ /\ SweepCheck(Speculator) \/ SweepRemove(Speculator)
          /\ UNCHANGED specFailed
    /\ UNCHANGED <<stage, attempt, thermal, cool, trackVars, spc, todo, specResult>>

\* store is over, or failed on the way: the error is logged and swallowed.
SpecStored ==
    /\ spc = "store"
    /\ doomed[Speculator] = None
    /\ spc'   = "next"
    /\ sweep' = [sweep EXCEPT ![Speculator] = {}]
    /\ specResult' = "none"
    /\ Goto(Speculator, "idle")
    /\ UNCHANGED <<entry, age, holder, key, waited, result, kind, doomed, sinceOk,
                   stage, attempt, thermal, cool, trackVars, todo, specFailed>>
-----------------------------------------------------------------------------
\* The process dies and is started again: flocks, the tracker and the
\* speculation task's candidates are gone, the entry files stay.
Crash ==
    /\ \E c \in Runners : stage[c] # "out"
    /\ pc'     = [c \in Callers |-> "idle"]
    /\ holder' = [k \in Keys |-> None]
    /\ waited' = [c \in Callers |-> 0]
    /\ result' = [c \in Callers |-> "none"]
    /\ kind'   = [c \in Callers |-> "Killed"]
    /\ sweep'  = [c \in Callers |-> {}]
    /\ doomed' = [c \in Callers |-> None]
    /\ stage'  = [c \in Runners |-> "out"]
    /\ attempt' = [c \in Runners |-> 0]
    /\ hits'   = [k \in Keys |-> 0]
    /\ hitAge' = [k \in Keys |-> 0]
    /\ spc'    = "sleep"
    /\ todo'   = {}
    /\ specResult' = "none"
    /\ UNCHANGED <<entry, age, key, sinceOk, thermal, cool, specFailed>>

\* Time passes for the cache and for the tracker.
HvTick ==
    /\ Tick
    /\ hitAge' = [k \in Keys |-> IF hits[k] = 0 THEN hitAge[k]
                                 ELSE Older(hitAge[k], Window + 1)]
    /\ UNCHANGED <<stage, attempt, thermal, cool, hits, specVars>>

HvNext ==
    \/ \E c \in Runners :
        \/ \E k \in Keys : RunStart(c, k)
        \/ GateOpen(c) \/ GateRed(c) \/ EarlyErr(c)
        \/ Lookup(c) \/ LookupRead(c) \/ MountAndLock(c) \/ CacheStep(c)
        \/ CommandEnds(c) \/ Coalesced(c) \/ RecordHit(c)
        \/ Slot(c) \/ SlotRun(c)
    \/ SpecWake \/ SpecDrain \/ SpecNext \/ SpecRead
    \/ SpecExecuted \/ SpecStore \/ SpecStored
    \/ ThermalChange \/ Crash \/ HvTick

HvSpec == HvInit /\ [][HvNext]_vars
-----------------------------------------------------------------------------
Shared == {"Lookup", "LockRecheck", "DebounceRecheck"}

\* No run reaches the cache, the queue or a command unless the gate answered
\* Green or Yellow at some time during the call (hypervisor.rs:195 "Before
\* touching the coalesce cache the hypervisor polls ThermalGate").
Admitted ==
    \A c \in Runners : stage[c] \in Stages \ (Gates \cup {"out"}) => cool[c]

\* with_lock_detailed keeps failures out of the cache on every interleaving: a
\* failed result that is served was stored by the speculation task.
ServedFailuresAreSpeculated ==
    \A c \in Runners :
        kind[c] \in Shared /\ result[c] # "ok" => key[c] \in specFailed

\* A failed run is never served from the cache (lib.rs:354-356).  It does not
\* hold: the speculation task stores failures, see ServedFailuresAreSpeculated.
OnlySuccessServed ==
    \A c \in Runners : kind[c] \in Shared => result[c] = "ok"
=============================================================================
