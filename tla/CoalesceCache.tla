---------------------------- MODULE CoalesceCache ----------------------------
(***************************************************************************)
(* The file-backed Lock-Wait-Cache of crates/sharecli-ipc/src/lib.rs.      *)
(*                                                                         *)
(* Several processes call with_lock_detailed for a command key.  A caller  *)
(* takes the flock of the key (polling, up to a deadline), looks the key   *)
(* up again, optionally sleeps out the debounce window and looks once      *)
(* more, and only then runs the command.  A successful result is persisted *)
(* by rename and a sweep then removes the entries that have outlived the   *)
(* TTL; a failed result is handed to its caller and not persisted.         *)
(*                                                                         *)
(* Time is kept as ages that saturate: age[k] is the age of the entry      *)
(* file of k up to TTL (at TTL the entry is stale), waited[c] the time c   *)
(* has polled for the lock up to LockDeadline.  A call is not atomic: the  *)
(* metadata check and the read of an entry are two system calls, and so    *)
(* are the sweep's check and its remove_file.                              *)
(***************************************************************************)
EXTENDS Naturals, FiniteSets

CONSTANTS
    Callers,        \* the processes (agents) that call the cache
    Keys,           \* command keys
    None,           \* "no caller" / "no key"
    TTL,            \* CoalesceCache::ttl, in ticks
    LockDeadline,   \* the 30 s bound of with_lock_detailed, in ticks
    Debouncers      \* the callers whose debounce window is not zero

ASSUME CacheAssumption ==
    /\ None \notin Callers
    /\ None \notin Keys
    /\ TTL \in Nat \ {0}
    /\ LockDeadline \in Nat
    /\ Debouncers \subseteq Callers

VARIABLES
    entry,      \* [Keys -> {"none", "ok", "fail"}]: the <key>.json files
    age,        \* [Keys -> 0..TTL]: mtime age of the entry (0: no entry)
    holder,     \* [Keys -> Callers \cup {None}]: flock on <key>.lock
    pc,         \* where each caller is
    key,        \* the key of the caller's current (or last) call
    waited,     \* time spent polling for the flock
    result,     \* what the last call returned: "none", "ok", "fail"
    kind,       \* how: CoalesceHitKind, or "Err" / "Killed" / "none"
    sweep,      \* entries evict_stale has still to look at
    doomed,     \* the entry found stale and about to be removed
    sinceOk     \* history: time since a success of the key was persisted

cacheVars == <<entry, age, holder, pc, key, waited, result, kind, sweep,
               doomed, sinceOk>>

\* "Lookup" is a hit before the lock, see Hypervisor.
Kinds == {"none", "Lookup", "LockRecheck", "DebounceRecheck", "Miss", "Err",
          "Killed"}

\* Inside with_lock_detailed with the flock held.
Critical == {"recheck", "recheckRead", "debounce", "debounced",
             "debouncedRead", "run", "store", "sweep"}

PCs == Critical \cup {"idle", "lock"}

CacheTypeOK ==
    /\ entry   \in [Keys -> {"none", "ok", "fail"}]
    /\ age     \in [Keys -> 0..TTL]
    /\ holder  \in [Keys -> Callers \cup {None}]
    /\ pc      \in [Callers -> PCs]
    /\ key     \in [Callers -> Keys]
    /\ waited  \in [Callers -> 0..LockDeadline]
    /\ result  \in [Callers -> {"none", "ok", "fail"}]
    /\ kind    \in [Callers -> Kinds]
    /\ sweep   \in [Callers -> SUBSET Keys]
    /\ doomed  \in [Callers -> Keys \cup {None}]
    /\ sinceOk \in [Keys -> 0..TTL]

CacheInit ==
    /\ entry   = [k \in Keys |-> "none"]
    /\ age     = [k \in Keys |-> 0]
    /\ holder  = [k \in Keys |-> None]
    /\ pc      = [c \in Callers |-> "idle"]
    /\ key     \in [Callers -> Keys]
    /\ waited  = [c \in Callers |-> 0]
    /\ result  = [c \in Callers |-> "none"]
    /\ kind    = [c \in Callers |-> "none"]
    /\ sweep   = [c \in Callers |-> {}]
    /\ doomed  = [c \in Callers |-> None]
    /\ sinceOk = [k \in Keys |-> TTL]
-----------------------------------------------------------------------------
\* is_fresh: the entry exists and its mtime age is below the TTL.
IsFresh(k) == entry[k] # "none" /\ age[k] < TTL

Goto(c, label) == pc' = [pc EXCEPT ![c] = label]

\* The call returns: the lock file handle is dropped (which releases the
\* flock when c holds it).
Return(c, r, how) ==
    /\ Goto(c, "idle")
    /\ holder' = [k \in Keys |-> IF holder[k] = c THEN None ELSE holder[k]]
    /\ result' = [result EXCEPT ![c] = r]
    /\ kind'   = [kind EXCEPT ![c] = how]
    /\ waited' = [waited EXCEPT ![c] = 0]

\* with_lock_detailed(k): create the root, open the lock file.
Call(c, k) ==
    /\ pc[c] = "idle"
    /\ Goto(c, "lock")
    /\ key'    = [key EXCEPT ![c] = k]
    /\ result' = [result EXCEPT ![c] = "none"]
    /\ kind'   = [kind EXCEPT ![c] = "none"]
    /\ UNCHANGED <<entry, age, holder, waited, sweep, doomed, sinceOk>>

\* acquire_lock_with_deadline: try_lock_exclusive succeeds.
TryLock(c) ==
    /\ pc[c] = "lock"
    /\ holder[key[c]] = None
    /\ holder' = [holder EXCEPT ![key[c]] = c]
    /\ waited' = [waited EXCEPT ![c] = 0]
    /\ Goto(c, "recheck")
    /\ UNCHANGED <<entry, age, key, result, kind, sweep, doomed, sinceOk>>

LockTimeout_Unbounded(c) ==
    /\ pc[c] = "lock"
    /\ holder[key[c]] # None
    /\ waited[c] > LockDeadline
    /\ Return(c, "none", "Err")
    /\ UNCHANGED <<entry, age, key, sweep, doomed, sinceOk>>

\* acquire_lock_with_deadline: WouldBlock, and the deadline has elapsed.
LockTimeout(c) ==
    /\ pc[c] = "lock"
    /\ holder[key[c]] # None
    /\ waited[c] >= LockDeadline
    /\ Return(c, "none", "Err")
    /\ UNCHANGED <<entry, age, key, sweep, doomed, sinceOk>>

\* A miss under the lock: the debounce sleep if one is configured, or the run.
AfterMiss(c) == Goto(c, IF c \in Debouncers THEN "debounce" ELSE "run")

CheckFresh_NoRecheck(c) ==
    /\ \/ pc[c] = "recheck" /\ AfterMiss(c)
       \/ pc[c] = "debounced" /\ Goto(c, "run")
    /\ UNCHANGED <<entry, age, holder, key, waited, result, kind, sweep, doomed,
                   sinceOk>>

\* The metadata half of lookup, on the re-check under the lock and on the one
\* after the debounce sleep.  A miss goes on to the debounce sleep or the run.
CheckFresh(c) ==
    /\ \/ pc[c] = "recheck" /\ IsFresh(key[c]) /\ Goto(c, "recheckRead")
       \/ pc[c] = "debounced" /\ IsFresh(key[c]) /\ Goto(c, "debouncedRead")
       \/ pc[c] = "recheck" /\ ~IsFresh(key[c]) /\ AfterMiss(c)
       \/ pc[c] = "debounced" /\ ~IsFresh(key[c]) /\ Goto(c, "run")
    /\ UNCHANGED <<entry, age, holder, key, waited, result, kind, sweep, doomed,
                   sinceOk>>

\* The read half of lookup finds the entry: the call returns it.
ReadHit(c) ==
    /\ entry[key[c]] # "none"
    /\ \/ pc[c] = "recheckRead" /\ Return(c, entry[key[c]], "LockRecheck")
       \/ pc[c] = "debouncedRead" /\ Return(c, entry[key[c]], "DebounceRecheck")
    /\ UNCHANGED <<entry, age, key, sweep, doomed, sinceOk>>

\* The read half finds no file any more (NotFound): a miss.
ReadGone(c) ==
    /\ entry[key[c]] = "none"
    /\ \/ pc[c] = "recheckRead" /\ AfterMiss(c)
       \/ pc[c] = "debouncedRead" /\ Goto(c, "run")
    /\ UNCHANGED <<entry, age, holder, key, waited, result, kind, sweep, doomed,
                   sinceOk>>

\* The debounce sleep ends.
DebounceOver(c) ==
    /\ pc[c] = "debounce"
    /\ Goto(c, "debounced")
    /\ UNCHANGED <<entry, age, holder, key, waited, result, kind, sweep, doomed,
                   sinceOk>>

RunOk_LockDropped(c) ==
    /\ pc[c] = "run"
    /\ Goto(c, "store")
    /\ holder' = [holder EXCEPT ![key[c]] = None]
    /\ UNCHANGED <<entry, age, key, waited, result, kind, sweep, doomed, sinceOk>>

\* f() ends with exit code 0: on to store.
RunOk(c) ==
    /\ pc[c] = "run"
    /\ Goto(c, "store")
    /\ UNCHANGED <<entry, age, holder, key, waited, result, kind, sweep, doomed,
                   sinceOk>>

RunFail_Persisted(c) ==
    /\ pc[c] = "run"
    /\ Return(c, "fail", "Miss")
    /\ entry' = [entry EXCEPT ![key[c]] = "fail"]
    /\ age'   = [age EXCEPT ![key[c]] = 0]
    /\ UNCHANGED <<key, sweep, doomed, sinceOk>>

\* f() ends with a non-zero exit code: returned as a Miss, not persisted.
RunFail(c) ==
    /\ pc[c] = "run"
    /\ Return(c, "fail", "Miss")
    /\ UNCHANGED <<entry, age, key, sweep, doomed, sinceOk>>

\* A lock attempt or a lookup fails with an I/O error, f() itself fails (the
\* program cannot be spawned), or store fails before its rename: the error is
\* propagated.
IoErr(c) ==
    /\ pc[c] \in {"lock", "recheck", "recheckRead", "debounced", "debouncedRead",
                  "run", "store"}
    /\ Return(c, "none", "Err")
    /\ UNCHANGED <<entry, age, key, sweep, doomed, sinceOk>>

\* store: the temp file is renamed over the entry; evict_stale starts.
Persist(c, r) ==
    /\ pc[c] = "store"
    /\ entry'   = [entry EXCEPT ![key[c]] = r]
    /\ age'     = [age EXCEPT ![key[c]] = 0]
    /\ sinceOk' = IF r = "ok" THEN [sinceOk EXCEPT ![key[c]] = 0] ELSE sinceOk
    /\ sweep'   = [sweep EXCEPT ![c] = {k \in Keys : entry'[k] # "none"}]
    /\ Goto(c, "sweep")
    /\ UNCHANGED <<holder, key, waited, result, kind, doomed>>

\* evict_stale looks at one entry (read_dir order is arbitrary).
SweepCheck(c) ==
    /\ pc[c] = "sweep"
    /\ doomed[c] = None
    /\ \E k \in sweep[c] :
        /\ sweep'  = [sweep EXCEPT ![c] = @ \ {k}]
        /\ doomed' = [doomed EXCEPT ![c] = IF IsFresh(k) THEN None ELSE k]
    /\ UNCHANGED <<entry, age, holder, pc, key, waited, result, kind, sinceOk>>

\* ... and removes the one it found stale; a missing file is ignored.
SweepRemove(c) ==
    /\ pc[c] = "sweep"
    /\ doomed[c] # None
    /\ entry'  = [entry EXCEPT ![doomed[c]] = "none"]
    /\ age'    = [age EXCEPT ![doomed[c]] = 0]
    /\ doomed' = [doomed EXCEPT ![c] = None]
    /\ UNCHANGED <<holder, pc, key, waited, result, kind, sweep, sinceOk>>

\* The sweep is over and with_lock_detailed returns the run's own result.
SweepDone(c) ==
    /\ pc[c] = "sweep"
    /\ doomed[c] = None
    /\ sweep[c] = {}
    /\ Return(c, "ok", "Miss")
    /\ UNCHANGED <<entry, age, key, sweep, doomed, sinceOk>>

\* evict_stale fails on a directory entry: the error surfaces although the
\* result has been persisted.
SweepErr(c) ==
    /\ pc[c] = "sweep"
    /\ doomed[c] = None
    /\ sweep[c] # {}
    /\ Return(c, "none", "Err")
    /\ sweep' = [sweep EXCEPT ![c] = {}]
    /\ UNCHANGED <<entry, age, key, doomed, sinceOk>>

\* The process dies; the kernel drops its flock.  An entry it renamed stays.
Kill(c) ==
    /\ pc[c] # "idle"
    /\ Return(c, "none", "Killed")
    /\ sweep'  = [sweep EXCEPT ![c] = {}]
    /\ doomed' = [doomed EXCEPT ![c] = None]
    /\ UNCHANGED <<entry, age, key, sinceOk>>

Older(t, bound) == IF t < bound THEN t + 1 ELSE t

\* Time passes for every entry and every polling caller.
Tick ==
    /\ age'     = [k \in Keys |-> IF entry[k] = "none" THEN age[k]
                                  ELSE Older(age[k], TTL)]
    /\ sinceOk' = [k \in Keys |-> Older(sinceOk[k], TTL)]
    /\ waited'  = [c \in Callers |-> IF pc[c] = "lock"
                                     THEN Older(waited[c], LockDeadline)
                                     ELSE waited[c]]
    /\ UNCHANGED <<entry, holder, pc, key, result, kind, sweep, doomed>>

\* The steps the scheduler owes a caller: everything but the command itself.
CallerStep(c) ==
    \/ TryLock(c) \/ LockTimeout(c)
    \/ CheckFresh(c) \/ ReadHit(c) \/ ReadGone(c) \/ DebounceOver(c)
    \/ Persist(c, "ok") \/ SweepCheck(c) \/ SweepRemove(c) \/ SweepDone(c)

CacheNext ==
    \/ \E c \in Callers :
        \/ \E k \in Keys : Call(c, k)
        \/ CallerStep(c)
        \/ RunOk(c) \/ RunFail(c) \/ IoErr(c) \/ SweepErr(c)
        \/ Kill(c)
    \/ Tick

CacheSpec == CacheInit /\ [][CacheNext]_cacheVars

\* A caller's own code keeps running and time passes.  Nothing is assumed of
\* the command a holder runs: it may hang forever.
CacheFairSpec ==
    /\ CacheSpec
    /\ \A c \in Callers : WF_cacheVars(CallerStep(c))
    /\ WF_cacheVars(Tick)
-----------------------------------------------------------------------------
\* The flock of a key is held by exactly the caller that is past
\* acquire_lock_with_deadline for that key and has not returned: no path out
\* of with_lock_detailed (hit, miss, error, death) leaks the lock, none
\* gives it up while the command or the store is still under way.
LockExact ==
    \A c \in Callers, k \in Keys :
        holder[k] = c <=> pc[c] \in Critical /\ key[c] = k

\* At most one caller at a time runs or stores a given command
\* (with_lock_detailed, lib.rs:291 "sole holder").
OneRunner ==
    \A c, d \in Callers :
        /\ pc[c] \in Critical
        /\ pc[d] \in Critical
        /\ key[c] = key[d]
        => c = d

\* A result served from the cache is never a failed run: the guard on
\* exit_code at lib.rs:357 keeps failures from being replayed to siblings.
OnlySuccessReplayed ==
    \A c \in Callers :
        kind[c] \in {"LockRecheck", "DebounceRecheck"} => result[c] = "ok"

StartsRun(c) == pc[c] # "run" /\ pc'[c] = "run"

\* A command is re-run within the TTL of a success of the same key only after a
\* sweep has taken its entry away, never over an entry that is there and fresh:
\* "subsequent callers block until the lock is released, then hit the
\* now-populated cache entry without re-executing" (lib.rs:104), as far as the
\* code keeps it.
RerunOnlyIfSwept ==
    [][\A c \in Callers :
          StartsRun(c) => sinceOk[key[c]] = TTL \/ entry[key[c]] = "none"]_cacheVars

\* A caller polling for the lock always gets away from the poll, whatever the
\* holder does, a hung command included (acquire_lock_with_deadline).
WaiterReturns ==
    \A c \in Callers : pc[c] = "lock" ~> pc[c] # "lock"

\* The callers and the directory seen from outside: how far a call has come, what
\* it returned and from where, the successes on disk and the fresh ones.
PhaseAt(l) ==
    CASE l = "idle" -> "out"
      [] l = "lock" -> "waiting"
      [] l \in {"recheck", "debounce", "debounced"} -> "looking"
      [] l \in {"recheckRead", "debouncedRead"} -> "found"
      [] l \in {"run", "store"} -> "running"
      [] OTHER -> "stored"

ReplyAt(r, how) ==
    <<r, CASE how \in {"LockRecheck", "DebounceRecheck"} -> "cache"
           [] how = "Miss" -> "run"
           [] OTHER -> "nobody">>

Phase == [c \in Callers |-> PhaseAt(pc[c])]
Reply == [c \in Callers |-> ReplyAt(result[c], kind[c])]
Good == {k \in Keys : entry[k] = "ok"}
Fresh == {k \in Keys : IsFresh(k)}

Contract == INSTANCE ResultContract WITH
    phase <- Phase, of <- key, reply <- Reply, good <- Good, fresh <- Fresh

\* with_lock_detailed keeps the contract of the result cache: with entries that
\* are checked and read in two steps, replaced and swept meanwhile, callers that
\* time out, fail or die anywhere, it runs a command for one caller at a time and
\* only when no fresh result is there, and serves the others a success, never a
\* failure (lib.rs:102 "serialises concurrent callers with the same key").
KeepsContract == Contract!ContractSpec

\* The strengthening the proofs need: no failed entry is ever in the cache,
\* and an entry that is there is as old as the last persisted success.
CacheIInv ==
    /\ LockExact
    /\ OnlySuccessReplayed
    /\ \A k \in Keys : entry[k] # "fail"
    /\ \A k \in Keys : entry[k] # "none" => sinceOk[k] = age[k]
=============================================================================
