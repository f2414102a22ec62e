------------------------------ MODULE FuseProofs ------------------------------
(***************************************************************************)
(* The intercepting file system and the guard that mounts it, for every    *)
(* number of paths, agents, threads and guards.                            *)
(***************************************************************************)
EXTENDS InterceptFs, FuseGuard, TLAPS

\* A leaf is tried with SMT, then with Zenon, with time to spare on a busy machine.
USE SMTT(30), ZenonT(30)

-----------------------------------------------------------------------------
(* The guard.                                                              *)

\* A marker belongs to a guard that will still remove it; a mount that is up
\* behind the unmount came up late.
GuardInv ==
    /\ GuardTypeOK
    /\ \A d \in marker : \E r \in Runs :
          Backing[r] = d /\ gpc[r] \in {"poll", "mounted", "unmount", "unmark"}
    /\ \A r \in Runs : gpc[r] \in {"unmark", "rmdir"} /\ mnt[r] = "up" => r \in late
    /\ RuinedOnlyByLateMount

\* The inductive invariant of the guards holds in every reachable state.
THEOREM GuardInvariant == GuardSpec => []GuardInv
<1> USE FuseGuardAssumption DEF GuardInv, GuardTypeOK, RuinedOnlyByLateMount, GuardTo
<1>1. GuardInit => GuardInv
    BY DEF GuardInit
<1>2. GuardInv /\ [GuardNext]_vars => GuardInv'
    <2> SUFFICES ASSUME GuardInv, [GuardNext]_vars PROVE GuardInv'
        BY Zenon
    <2>1. ASSUME NEW r \in Runs, TryMount(r) PROVE GuardInv'
        BY <2>1 DEF TryMount
    <2>2. ASSUME NEW r \in Runs, TryMountErr(r) PROVE GuardInv'
        BY <2>2, Zenon DEF TryMountErr
    <2>3. ASSUME NEW r \in Runs, MountThread(r) PROVE GuardInv'
        BY <2>3 DEF MountThread
    <2>4. ASSUME NEW r \in Runs, Poll(r) PROVE GuardInv'
        BY <2>4 DEF Poll
    <2>5. ASSUME NEW r \in Runs, Unmount(r) PROVE GuardInv'
        BY <2>5 DEF Unmount
    <2>6. ASSUME NEW r \in Runs, Unmark(r) PROVE GuardInv'
        BY <2>6 DEF Unmark
    <2>7. ASSUME NEW r \in Runs, RemoveMountpoint(r) PROVE GuardInv'
        BY <2>7 DEF RemoveMountpoint
    <2>8. ASSUME NEW r \in Runs, Drop(r) PROVE GuardInv'
        BY <2>8 DEF Drop
    <2>9. CASE UNCHANGED vars
        BY <2>9 DEF vars
    <2>. QED
        BY <2>1, <2>2, <2>3, <2>4, <2>5, <2>6, <2>7, <2>8, <2>9 DEF GuardNext, GuardStep
<1>. QED BY <1>1, <1>2, PTL DEF GuardSpec

\* However many guards share a working directory, no marker outlives the last
\* of them (FuseGuard::drop, try_mount).
THEOREM MarkersAreRemoved == GuardSpec => []NoMarkerLeft
<1>1. GuardInv => NoMarkerLeft BY DEF GuardInv, NoMarkerLeft
<1>. QED BY <1>1, GuardInvariant, PTL

\* Files are lost only below a mount that came up after its guard had given up
\* on it (fusermount before TempDir's destructor).
THEOREM LossOnlyByLateMount == GuardSpec => []RuinedOnlyByLateMount
<1>1. GuardInv => RuinedOnlyByLateMount BY DEF GuardInv
<1>. QED BY <1>1, GuardInvariant, PTL

-----------------------------------------------------------------------------
(* The file system.                                                        *)

Steps == {"idle", "stat", "found", "miss", "stamp", "meta", "remove", "invalidate",
          "forget", "remember", "commit", "load", "put"}

DiskTypes ==
    /\ file \in [Paths -> FileStates]
    /\ neg \subseteq Paths
    /\ cached \in [Paths -> {"none", "fresh", "old", "stale"}]
    /\ buf \in {"none", "fresh", "old", "stale"}
    /\ pending \in [Agents -> SUBSET Paths]

LocalTypes ==
    /\ pc \in [Threads -> Steps]
    /\ op \in [Threads -> Ops]
    /\ arg \in [Threads -> Paths \cup {None}]
    /\ dest \in [Threads -> Paths \cup {None}]
    /\ agent \in [Threads -> Agents \cup {None}]
    /\ todo \in [Threads -> SUBSET Paths]
    /\ done \in [Threads -> SUBSET Paths]

FsTypes == DiskTypes /\ LocalTypes

\* Which handlers have which steps.
Belongs(step, o) ==
    /\ step = "idle" => o = "none"
    /\ step \in {"stat", "found", "miss"} => o \in {"lookup", "exists"}
    /\ step = "stamp" => o \in {"create", "createRel", "write", "commit", "commitAll"}
    /\ step = "meta" => o = "setattr"
    /\ step = "remove" => o = "create"
    /\ step = "invalidate" => o \in {"create", "createRel"}
    /\ step = "forget" => o \notin {"none", "lookup", "exists", "read"}
    /\ step = "remember" => o \in {"unlink", "rename"}
    /\ step = "commit" => o = "commitAll"
    /\ step \in {"load", "put"} => o = "read"

\* What a handler knows at its steps.
Local(t) ==
    /\ Belongs(pc[t], op[t])
    /\ pc[t] \in {"idle", "commit"} => arg[t] = None
    /\ pc[t] = "commit" => agent[t] \in Agents
    /\ pc[t] \notin {"idle", "commit"} => arg[t] \in Paths
    /\ dest[t] # None => op[t] = "rename"
    /\ done[t] # {} => op[t] = "commitAll"

\* One loading read at a time.
OneReader == \A t, u \in Threads : op[t] = "read" /\ op[u] = "read" => t = u

\* The inductive core: types, what each thread's step says of its handler, and
\* the exclusion of the read_cache lock.
FsCore == FsTypes /\ (\A t \in Threads : Local(t)) /\ OneReader

\* A copy about to be put that is stale is accounted for like one in the cache.
PutFresh ==
    \A t \in Threads :
        pc[t] = "put" /\ buf = "stale" /\ Exists(arg[t]) =>
            arg[t] \in unsure \/ \E u \in Threads : Changing(u, arg[t])

FreshInv == CacheFresh /\ PutFresh

\* The handler of t has yet to drop the negative entry of p.
Dropping(t, p) ==
    \/ /\ op[t] \in {"create", "createRel"} /\ arg[t] = p
       /\ pc[t] \in {"stamp", "invalidate", "remove"}
    \/ dest[t] = p

\* A wrong negative entry still has the step before it that drops it.
NegDue == \A p \in neg : Exists(p) => p \in hidden \/ \E t \in Threads : Dropping(t, p)

FsInv == FsCore /\ FreshInv /\ NegDue /\ ProvenanceLoud

-----------------------------------------------------------------------------
\* What a change on disk does to the copies of it (Changed).
LEMMA ChangedCopies ==
    ASSUME DiskTypes, NEW ps \in SUBSET Paths, Changed(ps)
    PROVE  /\ cached' \in [Paths -> {"none", "fresh", "old", "stale"}]
           /\ \A p \in Paths \ ps : cached'[p] = cached[p]
           /\ buf' \in {"none", "fresh", "old", "stale"}
           /\ buf' # buf => \E t \in Threads : op[t] = "read" /\ arg[t] \in ps
BY DEF DiskTypes, Changed, HoldsReadCache

\* A step leaves the handlers of all threads but t where they are ...
Others(t) ==
    \A u \in Threads \ {t} :
       /\ pc'[u] = pc[u] /\ op'[u] = op[u] /\ arg'[u] = arg[u]
       /\ dest'[u] = dest[u] /\ agent'[u] = agent[u] /\ done'[u] = done[u]

\* ... and so what they have changed and have to annotate and to drop.
LEMMA OthersKeep ==
    ASSUME NEW t \in Threads, Others(t), NEW u \in Threads \ {t}
    PROVE  /\ Owing(u)' = Owing(u)
           /\ \A x \in Paths : Changing(u, x)' = Changing(u, x)
           /\ \A x \in Paths : Dropping(u, x)' = Dropping(u, x)
BY Zenon DEF Others, Owing, Changing, Dropping

\* A thread without a handler has nothing left to do.
LEMMA Idle ==
    ASSUME FsCore, NEW t \in Threads, pc[t] = "idle"
    PROVE  op[t] = "none" /\ arg[t] = None /\ dest[t] = None /\ done[t] = {}
BY DEF FsCore, Local, Belongs

\* A handler begins ...
LEMMA BeginFrame ==
    ASSUME FsCore, NEW t \in Threads, NEW o, NEW p, NEW next, Begin(t, o, p, next)
    PROVE  /\ Others(t) /\ pc[t] = "idle" /\ UNCHANGED <<dest, done>>
           /\ pc'[t] = next /\ op'[t] = o /\ arg'[t] = p
BY DEF Begin, FsCore, FsTypes, LocalTypes, Others

\* ... goes on ...
LEMMA GotoFrame ==
    ASSUME FsCore, NEW t \in Threads, NEW next, Goto(t, next)
    PROVE  Others(t) /\ pc'[t] = next /\ UNCHANGED <<op, arg, dest, agent, done>>
BY DEF Goto, FsCore, FsTypes, LocalTypes, Others

\* ... and replies.
LEMMA ReplyFrame ==
    ASSUME FsCore, NEW t \in Threads, Reply(t)
    PROVE  /\ Others(t) /\ pc'[t] = "idle" /\ op'[t] = "none"
           /\ arg'[t] = None /\ dest'[t] = None /\ done'[t] = {}
BY DEF Reply, FsCore, FsTypes, LocalTypes, Others

\* Somebody answers for a stale copy of p: a handler that has yet to drop it, or
\* the error that was returned.
Accounted(p) == p \in unsure \/ \E t \in Threads : Changing(t, p)

\* A step keeps the caches fresh if what was accounted for still is, and so is
\* every copy that it makes stale.
LEMMA FreshRule ==
    ASSUME FreshInv,
           \A p \in Paths : Accounted(p) /\ Exists(p)' => Accounted(p)',
           \A p \in Paths : cached'[p] = "stale" /\ Exists(p)' =>
               (cached[p] = "stale" /\ Exists(p)) \/ Accounted(p)',
           \A t \in Threads : pc'[t] = "put" => arg'[t] \in Paths,
           \A t \in Threads : pc'[t] = "put" /\ buf' = "stale" /\ file'[arg'[t]] # "absent" =>
               \/ pc[t] = "put" /\ arg'[t] = arg[t] /\ buf = "stale" /\ Exists(arg[t])
               \/ \E p \in Paths : p = arg'[t] /\ Accounted(p)'
    PROVE  FreshInv'
<1>1. CacheFresh'
  BY DEF FreshInv, CacheFresh, Accounted
<1>2. PutFresh'
  BY DEF FreshInv, PutFresh, Accounted, Exists
<1> QED BY <1>1, <1>2 DEF FreshInv

\* A step that leaves the caches alone and creates or removes no file ...
LEMMA QuietStep ==
    ASSUME FreshInv, UNCHANGED <<cached, buf>>, \A p \in Paths : Exists(p)' = Exists(p),
           \A p \in Paths : Accounted(p) /\ Exists(p) => Accounted(p)',
           \A t \in Threads : pc'[t] = "put" =>
               pc[t] = "put" /\ arg'[t] = arg[t] /\ arg[t] \in Paths
    PROVE  FreshInv'
BY FreshRule DEF Exists

\* ... and one that changes the files ps, for which it is accountable.
LEMMA ChangingStep ==
    ASSUME FsCore, FreshInv, NEW ps \in SUBSET Paths, Changed(ps),
           \A p \in Paths \ ps : file'[p] = file[p],
           \A p \in ps : Exists(p)' => Accounted(p)',
           \A p \in Paths \ ps : Accounted(p) => Accounted(p)',
           \A t \in Threads : pc'[t] = "put" => pc[t] = "put" /\ arg'[t] = arg[t]
    PROVE  FreshInv'
<1>1. /\ \A p \in Paths \ ps : cached'[p] = cached[p]
      /\ buf' # buf => \E t \in Threads : op[t] = "read" /\ arg[t] \in ps
  BY ChangedCopies DEF FsCore, FsTypes
<1>2. \A t \in Threads : pc[t] = "put" => op[t] = "read" /\ arg[t] \in Paths
  BY DEF FsCore, Local, Belongs
<1>3. ASSUME NEW t \in Threads, pc[t] = "put", buf' # buf PROVE arg[t] \in ps
  BY <1>1, <1>2, <1>3 DEF FsCore, OneReader
<1>4. \A p \in Paths \ ps : Exists(p)' = Exists(p)
  BY DEF Exists
<1>5. \A p \in Paths : cached'[p] = "stale" /\ Exists(p)' =>
          (cached[p] = "stale" /\ Exists(p)) \/ Accounted(p)'
  BY <1>1, <1>4
<1>6. ASSUME NEW t \in Threads, pc'[t] = "put", buf' = "stale", Exists(arg[t])'
      PROVE  (buf = "stale" /\ Exists(arg[t])) \/ Accounted(arg[t])'
  <2>1. CASE arg[t] \in ps
    BY <1>6, <2>1
  <2>2. CASE arg[t] \notin ps
    BY <1>2, <1>3, <1>4, <1>6, <2>2
  <2> QED BY <2>1, <2>2
<1>7. \A t \in Threads : pc'[t] = "put" /\ buf' = "stale" /\ file'[arg'[t]] # "absent" =>
          \/ pc[t] = "put" /\ arg'[t] = arg[t] /\ buf = "stale" /\ Exists(arg[t])
          \/ \E p \in Paths : p = arg'[t] /\ Accounted(p)'
  BY <1>2, <1>6 DEF Exists
<1>8. \A p \in Paths : Accounted(p) /\ Exists(p)' => Accounted(p)'
  OBVIOUS
<1> QED BY <1>2, <1>5, <1>7, <1>8, FreshRule

\* Nothing that a thread has changed is dropped by the beginning of a handler,
LEMMA BeginKeeps ==
    ASSUME FsCore, NEW t \in Threads, NEW o, NEW p, NEW next, Begin(t, o, p, next)
    PROVE  /\ \A u \in Threads, x \in Paths : Changing(u, x) => Changing(u, x)'
           /\ pc'[t] = next /\ arg'[t] = p
           /\ \A u \in Threads \ {t} : pc'[u] = pc[u] /\ arg'[u] = arg[u]
<1>1. \A x \in Paths : ~Changing(t, x)
  BY DEF Begin, Changing
<1> QED BY <1>1, BeginFrame, OthersKeep DEF Others

\* nor on the way from one of its steps to another,
LEMMA GotoKeeps ==
    ASSUME FsCore, NEW t \in Threads, NEW next, Goto(t, next)
    PROVE  /\ pc'[t] = next /\ \A u \in Threads \ {t} : pc'[u] = pc[u]
           /\ arg' = arg
           /\ \A u \in Threads \ {t}, x \in Paths : Changing(u, x)' = Changing(u, x)
           /\ next \in {"stamp", "meta", "remove", "invalidate", "forget", "commit"} =>
                 \A x \in Paths : Changing(t, x) => Changing(t, x)'
<1>1. Others(t) /\ pc'[t] = next /\ UNCHANGED <<arg, dest, done>>
  BY GotoFrame
<1>2. next \in {"stamp", "meta", "remove", "invalidate", "forget", "commit"} =>
          \A x \in Paths : Changing(t, x) => Changing(t, x)'
  BY <1>1 DEF Changing
<1> QED BY <1>1, <1>2, OthersKeep DEF Others

\* nor by the reply of another thread's handler.
LEMMA ReplyKeeps ==
    ASSUME FsCore, NEW t \in Threads, Reply(t)
    PROVE  /\ pc'[t] = "idle" /\ arg'[t] = None
           /\ \A u \in Threads \ {t} : pc'[u] = pc[u] /\ arg'[u] = arg[u]
           /\ \A u \in Threads \ {t}, x \in Paths : Changing(u, x)' = Changing(u, x)
BY ReplyFrame, OthersKeep DEF Others

\* A handler that changed a file is done with it only after it dropped the copy
\* under the read_cache lock (Forget), or with the error returned.
LEMMA FreshStep == FsCore /\ FreshInv /\ FsNext => FreshInv'
<1> SUFFICES ASSUME FsCore, FreshInv, FsNext PROVE FreshInv'
    OBVIOUS
<1>0. /\ \A t \in Threads : pc[t] = "put" => op[t] = "read" /\ arg[t] \in Paths
      /\ \A t \in Threads : pc[t] \notin {"idle", "commit"} => arg[t] \in Paths
      /\ file \in [Paths -> FileStates] /\ cached \in [Paths -> {"none", "fresh", "old", "stale"}]
    BY DEF FsCore, FsTypes, DiskTypes, LocalTypes, Local, Belongs
<1>1. ASSUME NEW t \in Threads, NEW p \in Paths, NEW o \in {"lookup", "exists"}, Probe(t, o, p)
      PROVE FreshInv'
    <2>1. Begin(t, o, p, "stat") /\ UNCHANGED <<file, cached, buf, unsure>>
        BY <1>1 DEF Probe, disk
    <2>. QED BY <1>0, <2>1, BeginKeeps, QuietStep DEF Accounted, Exists, Steps
<1>2. ASSUME NEW t \in Threads, NEW p \in Paths, NEW o \in Ops,
             NEW next \in {"stamp", "meta", "forget"}, Begin(t, o, p, next), Changed({p}),
             \A x \in Paths \ {p} : file'[x] = file[x],
             unsure' = unsure \/ (unsure' = unsure \ {p} /\ file'[p] = "absent")
      PROVE FreshInv'
    <2>1. /\ \A u \in Threads, x \in Paths : Changing(u, x) => Changing(u, x)'
          /\ pc'[t] = next /\ arg'[t] = p
          /\ \A u \in Threads \ {t} : pc'[u] = pc[u] /\ arg'[u] = arg[u]
        BY <1>2, BeginKeeps DEF Steps
    <2>2. Changing(t, p)'
        BY <2>1 DEF Changing
    <2>3. \A x \in {p} : Exists(x)' => Accounted(x)'
        BY <2>2 DEF Accounted
    <2>4. \A x \in Paths \ {p} : Accounted(x) => Accounted(x)'
        BY <1>2, <2>1 DEF Accounted
    <2>5. \A u \in Threads : pc'[u] = "put" => pc[u] = "put" /\ arg'[u] = arg[u]
        BY <2>1
    <2>. QED BY <1>2, <2>3, <2>4, <2>5, ChangingStep
<1>3. ASSUME NEW t \in Threads, NEW p \in Paths, NEW o \in {"create", "createRel"}, Create(t, o, p)
      PROVE FreshInv'
    BY <1>0, <1>2, <1>3 DEF Create, Ops
<1>4. ASSUME NEW t \in Threads, NEW p \in Paths, Write(t, p) PROVE FreshInv'
    BY <1>0, <1>2, <1>4 DEF Write, Ops
<1>5. ASSUME NEW t \in Threads, NEW p \in Paths, SetAttr(t, p) PROVE FreshInv'
    BY <1>2, <1>5 DEF SetAttr, Ops
<1>6. ASSUME NEW t \in Threads, NEW p \in Paths, Unlink(t, p) PROVE FreshInv'
    BY <1>0, <1>2, <1>6 DEF Unlink, Removed, Ops
<1>7. ASSUME NEW t \in Threads, NEW p \in Paths, NEW a \in Agents, Commit(t, a, p)
      PROVE FreshInv'
    BY <1>0, <1>2, <1>7 DEF Commit, CommitPending, Ops
<1>8. ASSUME NEW t \in Threads, NEW p \in Paths, Read(t, p) PROVE FreshInv'
    <2>1. /\ Begin(t, "read", p, "load") /\ UNCHANGED <<file, unsure>>
          /\ cached' = [cached EXCEPT ![p] = "none"] /\ buf' = "fresh"
        BY <1>8 DEF Read
    <2>2. \A x \in Paths : Accounted(x) => Accounted(x)'
        BY <2>1, BeginKeeps DEF Accounted, Steps
    <2>3. \A u \in Threads : pc'[u] = "put" => arg'[u] \in Paths
        BY <1>0, <2>1, BeginKeeps DEF Steps
    <2>4. \A x \in Paths : cached'[x] = "stale" => cached[x] = "stale"
        BY <1>0, <2>1
    <2>. QED BY <2>1, <2>2, <2>3, <2>4, FreshRule DEF Exists
<1>9. ASSUME NEW t \in Threads, NEW p \in Paths, NEW q \in Paths, Rename(t, p, q)
      PROVE FreshInv'
    <2>1. /\ pc[t] = "idle" /\ pc'[t] = "forget" /\ dest'[t] = q /\ done' = done
          /\ \A u \in Threads \ {t} : pc'[u] = pc[u] /\ arg'[u] = arg[u] /\ dest'[u] = dest[u]
        BY <1>9 DEF Rename, FsCore, FsTypes, LocalTypes
    <2>2. /\ Changing(t, q)'
          /\ \A u \in Threads, x \in Paths : Changing(u, x) => Changing(u, x)'
        BY <2>1 DEF Changing
    <2>3. /\ \A x \in Paths \ {p, q} : file'[x] = file[x]
          /\ file'[p] = "absent" /\ unsure' = unsure \ {p} /\ Changed({p, q})
        BY <1>0, <1>9 DEF Rename, Removed
    <2>4. \A x \in {p, q} : Exists(x)' => Accounted(x)'
        BY <2>2, <2>3 DEF Exists, Accounted
    <2>5. \A x \in Paths \ {p, q} : Accounted(x) => Accounted(x)'
        BY <2>2, <2>3 DEF Accounted
    <2>. QED BY <2>1, <2>3, <2>4, <2>5, ChangingStep
<1>10. ASSUME NEW t \in Threads, NEW p \in Paths, CommitNext(t, p) PROVE FreshInv'
    <2>1. /\ pc[t] = "commit" /\ pc'[t] \in {"commit", "stamp"} /\ dest' = dest
          /\ arg[t] = None /\ done'[t] = done[t] \cup {p}
          /\ \A u \in Threads \ {t} : pc'[u] = pc[u] /\ arg'[u] = arg[u] /\ done'[u] = done[u]
        BY <1>10 DEF CommitNext, FsCore, FsTypes, LocalTypes, Local, Belongs
    <2>2. /\ Changing(t, p)'
          /\ \A u \in Threads \ {t}, x \in Paths : Changing(u, x) => Changing(u, x)'
          /\ \A x \in Paths : Changing(t, x) => Changing(t, x)'
        BY <2>1, FsAssumption DEF Changing
    <2>3. /\ \A x \in Paths \ {p} : file'[x] = file[x]
          /\ unsure' = unsure /\ Changed({p})
        BY <1>0, <1>10 DEF CommitNext, CommitPending
    <2>4. \A x \in {p} : Exists(x)' => Accounted(x)'
        BY <2>2 DEF Accounted
    <2>5. \A x \in Paths \ {p} : Accounted(x) => Accounted(x)'
        BY <2>2, <2>3 DEF Accounted
    <2>. QED BY <2>1, <2>3, <2>4, <2>5, ChangingStep
<1>11. ASSUME NEW t \in Threads, pc[t] \in {"stamp", "commit"}, ReportUnstamped(t),
              Reply(t) \/ Goto(t, "remove"), UNCHANGED <<cached, buf>>
       PROVE FreshInv'
    <2>1. /\ \A x \in Paths : Exists(x)' = Exists(x)
          /\ unsure' = unsure \cup {x \in Owing(t) : Exists(x)}
        BY <1>0, <1>11 DEF ReportUnstamped, Exists
    <2>2. \A x \in Paths : Changing(t, x) => x \in Owing(t)
        BY <1>11, FsAssumption DEF Changing, Owing, FsCore, FsTypes, LocalTypes, Local, Belongs
    <2>3. \A u \in Threads \ {t}, x \in Paths : Changing(u, x)' = Changing(u, x)
        BY <1>11, ReplyKeeps, GotoKeeps DEF Steps
    <2>4. \A x \in Paths : Accounted(x) /\ Exists(x) => Accounted(x)'
        BY <2>1, <2>2, <2>3 DEF Accounted
    <2>5. \A u \in Threads : pc'[u] = "put" => pc[u] = "put" /\ arg'[u] = arg[u]
        BY <1>11, ReplyKeeps, GotoKeeps DEF Steps
    <2>. QED BY <1>0, <1>11, <2>1, <2>4, <2>5, QuietStep
<1>12. ASSUME NEW t \in Threads, NEW p \in Paths, CommitGone(t, p) PROVE FreshInv'
    BY <1>11, <1>12 DEF CommitGone
<1>13. ASSUME NEW t \in Threads, StampErr(t) PROVE FreshInv'
    BY <1>11, <1>13 DEF StampErr
<1>14. ASSUME NEW t \in Threads, NEW a \in Agents, CommitAll(t, a) PROVE FreshInv'
    <2>1. /\ pc[t] = "idle" /\ pc'[t] = "commit" /\ \A u \in Threads \ {t} : pc'[u] = pc[u]
          /\ UNCHANGED <<file, cached, buf, arg, dest, done, unsure>>
        BY <1>14 DEF CommitAll, disk, FsCore, FsTypes, LocalTypes
    <2>2. \A x \in Paths : Accounted(x) => Accounted(x)'
        BY <2>1 DEF Accounted, Changing
    <2>. QED BY <1>0, <2>1, <2>2, QuietStep DEF Exists
<1>15. ASSUME NEW t \in Threads, NEW next \in Steps \ {"put"}, Goto(t, next),
              next \in {"stamp", "meta", "remove", "invalidate", "forget", "commit"}
                  \/ pc[t] \in {"stat", "found", "miss"},
              UNCHANGED <<cached, buf, unsure>>, \A x \in Paths : Exists(x)' = Exists(x)
       PROVE FreshInv'
    <2>1. \A x \in Paths : Changing(t, x) => Changing(t, x)'
        BY <1>15, GotoKeeps DEF Changing
    <2>2. \A x \in Paths : Accounted(x) => Accounted(x)'
        BY <1>15, <2>1, GotoKeeps DEF Accounted
    <2>3. \A u \in Threads : pc'[u] = "put" => pc[u] = "put" /\ arg'[u] = arg[u]
        BY <1>15, GotoKeeps
    <2>. QED BY <1>0, <1>15, <2>2, <2>3, QuietStep
<1>16. ASSUME NEW t \in Threads, Stat(t) PROVE FreshInv'
    BY <1>15, <1>16 DEF Stat, disk, Exists, Steps
<1>17. ASSUME NEW t \in Threads, Stamp(t) PROVE FreshInv'
    <2>1. \A x \in Paths : Exists(x)' = Exists(x)
        BY <1>0, <1>17 DEF Stamp, Exists
    <2>. QED BY <1>15, <1>17, <2>1 DEF Stamp, Steps
<1>18. ASSUME NEW t \in Threads, InvalidateNeg(t) PROVE FreshInv'
    BY <1>15, <1>18 DEF InvalidateNeg, disk, Exists, Steps
<1>19. ASSUME NEW t \in Threads, Reply(t), UNCHANGED <<file, cached, buf>>, unsure \subseteq unsure',
              \A x \in Paths : Changing(t, x) /\ Exists(x) => x \in unsure'
       PROVE FreshInv'
    <2>1. \A x \in Paths : Accounted(x) /\ Exists(x) => Accounted(x)'
        BY <1>19, ReplyKeeps DEF Accounted
    <2>2. \A u \in Threads : pc'[u] = "put" => pc[u] = "put" /\ arg'[u] = arg[u]
        BY <1>19, ReplyKeeps
    <2>3. \A x \in Paths : Exists(x)' = Exists(x)
        BY <1>19 DEF Exists
    <2>. QED BY <1>0, <1>19, <2>1, <2>2, <2>3, QuietStep
<1>20. ASSUME NEW t \in Threads, Found(t) \/ RememberMiss(t) \/ Remember(t) PROVE FreshInv'
    <2>1. /\ pc[t] \in {"found", "miss", "remember"} /\ Reply(t)
          /\ UNCHANGED <<file, cached, buf, unsure>>
        BY <1>20 DEF Found, RememberMiss, Remember, disk
    <2>. QED BY <1>19, <2>1 DEF Changing
<1>21. ASSUME NEW t \in Threads, SetAttrMeta(t) PROVE FreshInv'
    <2>1. pc[t] = "meta" /\ UNCHANGED <<file, cached, buf>>
        BY <1>21 DEF SetAttrMeta, disk
    <2>2. CASE Goto(t, "forget") /\ UNCHANGED unsure
        BY <1>15, <2>1, <2>2 DEF Exists, Steps
    <2>3. CASE Reply(t) /\ unsure' = unsure \cup {p \in {arg[t]} : Exists(p)}
        <3>1. \A x \in Paths : Changing(t, x) => x = arg[t]
            BY <2>1, FsAssumption DEF Changing, FsCore, FsTypes, LocalTypes, Local, Belongs
        <3>. QED BY <1>19, <2>1, <2>3, <3>1
    <2>. QED BY <1>21, <2>2, <2>3 DEF SetAttrMeta
<1>22. ASSUME NEW t \in Threads, RemoveCreated(t) PROVE FreshInv'
    <2>1. /\ pc[t] = "remove" /\ Reply(t) /\ Changed({arg[t]}) /\ arg[t] \in Paths
          /\ unsure' = unsure \ {arg[t]}
          /\ file'[arg[t]] = "absent" /\ \A x \in Paths \ {arg[t]} : file'[x] = file[x]
        BY <1>0, <1>22 DEF RemoveCreated, Removed
    <2>2. \A x \in Paths : Changing(t, x) => x = arg[t]
        <3>1. done[t] = {} /\ dest[t] = None
            BY <2>1, Zenon DEF FsCore, Local, Belongs
        <3>. QED BY <3>1, FsAssumption DEF Changing
    <2>3. \A x \in Paths \ {arg[t]} : Accounted(x) => Accounted(x)'
        <3>1. \A u \in Threads \ {t}, x \in Paths : Changing(u, x)' = Changing(u, x)
            BY <2>1, ReplyKeeps, Zenon
        <3>. QED BY <2>1, <2>2, <3>1, Zenon DEF Accounted
    <2>4. \A u \in Threads : pc'[u] = "put" => pc[u] = "put" /\ arg'[u] = arg[u]
        BY <2>1, ReplyKeeps, Zenon
    <2>5. \A x \in {arg[t]} : Exists(x)' => Accounted(x)'
        BY <2>1 DEF Exists
    <2>. QED BY <2>1, <2>3, <2>4, <2>5, ChangingStep, Zenon
<1>23. ASSUME NEW t \in Threads, Forget(t) PROVE FreshInv'
    <2>1. /\ pc[t] = "forget" /\ UNCHANGED <<file, buf>>
          /\ cached' = [p \in Paths |-> IF p \in {arg[t], dest[t]} THEN "none" ELSE cached[p]]
          /\ unsure' = unsure \ {arg[t], dest[t]}
        BY <1>23 DEF Forget
    <2>2. \A u \in Threads : op[u] # "read" /\ pc[u] # "put"
        BY <1>0, <1>23 DEF Forget, ReadCacheFree, HoldsReadCache
    <2>3. ASSUME NEW p \in done[t] \ {arg[t]},
                 /\ pc' = [pc EXCEPT ![t] = "stamp"]
                 /\ done' = [done EXCEPT ![t] = @ \ {arg[t]}]
                 /\ arg' = [arg EXCEPT ![t] = p]
                 /\ UNCHANGED <<op, dest, agent, todo>>
          PROVE  /\ \A u \in Threads \ {t} : pc'[u] = pc[u]
                 /\ \A u \in Threads \ {t}, x \in Paths : Changing(u, x) => Changing(u, x)'
                 /\ pc'[t] = "stamp" /\ done'[t] = done[t] \ {arg[t]}
        BY <2>3 DEF Changing, FsCore, FsTypes, LocalTypes
    <2>4. /\ \A u \in Threads \ {t}, x \in Paths : Changing(u, x) => Changing(u, x)'
          /\ \A u \in Threads : pc'[u] # "put"
        BY <1>23, <2>2, <2>3, GotoKeeps, ReplyKeeps DEF Forget, Steps
    <2>5. ASSUME NEW x \in Paths \ {arg[t], dest[t]}, Changing(t, x) PROVE Changing(t, x)'
        <3>1. x \in done[t] \ {arg[t]} /\ op[t] \notin {"unlink", "rename"}
            BY <2>5 DEF Changing, FsCore, FsTypes, LocalTypes, Local, Belongs
        <3>2. PICK p \in done[t] \ {arg[t]} :
                 /\ pc' = [pc EXCEPT ![t] = "stamp"]
                 /\ done' = [done EXCEPT ![t] = @ \ {arg[t]}]
                 /\ arg' = [arg EXCEPT ![t] = p]
                 /\ UNCHANGED <<op, dest, agent, todo>>
            BY <1>23, <3>1 DEF Forget
        <3>. QED BY <2>3, <3>1, <3>2, Zenon DEF Changing
    <2>6. \A x \in Paths \ {arg[t], dest[t]} : Accounted(x) => Accounted(x)'
        BY <2>1, <2>4, <2>5 DEF Accounted
    <2>7. CacheFresh'
        BY <2>1, <2>6 DEF FreshInv, CacheFresh, Accounted, Exists
    <2>8. PutFresh'
        BY <2>4 DEF PutFresh
    <2>. QED BY <2>7, <2>8 DEF FreshInv
<1>24. ASSUME NEW t \in Threads, Load(t) PROVE FreshInv'
    <2>1. /\ pc[t] = "load" /\ Goto(t, "put") /\ buf' # "stale" /\ UNCHANGED <<file, cached, unsure>>
        BY <1>24 DEF Load
    <2>2. \A x \in Paths : Accounted(x) => Accounted(x)'
        BY <2>1, GotoKeeps DEF Accounted, Changing, Steps
    <2>3. \A u \in Threads : pc'[u] = "put" => arg'[u] \in Paths
        BY <1>0, <2>1, GotoKeeps DEF Steps
    <2>. QED BY <2>1, <2>2, <2>3, FreshRule DEF Exists
<1>25. ASSUME NEW t \in Threads, LoadErr(t) \/ PutMiss(t) PROVE FreshInv'
    <2>1. /\ pc[t] \in {"load", "put"} /\ Reply(t) /\ buf' = "none" /\ UNCHANGED <<file, unsure>>
          /\ cached' = cached \/ (pc[t] = "put" /\ cached' = [cached EXCEPT ![arg[t]] = buf])
        BY <1>25 DEF LoadErr, PutMiss
    <2>2. \A x \in Paths : Accounted(x) => Accounted(x)'
        BY <2>1, ReplyKeeps DEF Accounted, Changing
    <2>3. \A u \in Threads : pc'[u] = "put" => arg'[u] \in Paths
        BY <1>0, <2>1, ReplyKeeps
    <2>4. \A x \in Paths : cached'[x] = "stale" =>
             cached[x] = "stale" \/ (pc[t] = "put" /\ buf = "stale" /\ x = arg[t])
        BY <1>0, <2>1
    <2>5. \A x \in Paths : cached'[x] = "stale" /\ Exists(x) => cached[x] = "stale" \/ Accounted(x)
        BY <2>4 DEF FreshInv, PutFresh, Accounted
    <2>. QED BY <2>1, <2>2, <2>3, <2>5, FreshRule DEF Exists
<1>26. ASSUME NEW p \in Paths,
              Expire(p) \/ \E a \in Agents : StageBytes(a, p) \/ DiscardPending(a, p)
       PROVE FreshInv'
    <2>1. UNCHANGED <<file, cached, buf, unsure, pc, arg, dest, done>>
        BY <1>26 DEF Expire, StageBytes, DiscardPending, disk, locals
    <2>. QED BY <1>0, <2>1, QuietStep DEF Accounted, Changing, Exists
<1>. QED
    BY <1>1, <1>3, <1>4, <1>5, <1>6, <1>7, <1>8, <1>9, <1>10, <1>12, <1>13, <1>14, <1>16,
       <1>17, <1>18, <1>20, <1>21, <1>22, <1>23, <1>24, <1>25, <1>26
    DEF FsNext

\* A step of one thread keeps the core if that thread's handler is where it may
\* be and does not become a second reader,
LEMMA CoreRule ==
    ASSUME FsCore, NEW t \in Threads, DiskTypes', LocalTypes', Local(t)', Others(t),
           op'[t] = "read" => op[t] = "read" \/ ReadCacheFree
    PROVE  FsCore'
<1>1. \A u \in Threads : Local(u)'
    BY DEF FsCore, Local, Others
<1>2. OneReader'
    BY DEF FsCore, OneReader, ReadCacheFree, HoldsReadCache, Others
<1>. QED BY <1>1, <1>2 DEF FsCore, FsTypes

\* as one that begins does,
LEMMA BeginCore ==
    ASSUME FsCore, DiskTypes', NEW t \in Threads, NEW p \in Paths, NEW o \in Ops,
           NEW next \in Steps \ {"idle", "commit"}, Begin(t, o, p, next), Belongs(next, o),
           o = "read" => ReadCacheFree
    PROVE  FsCore'
<1>1. Others(t) /\ pc'[t] = next /\ op'[t] = o /\ arg'[t] = p /\ dest'[t] = None /\ done'[t] = {}
    <2>1. /\ Others(t) /\ pc[t] = "idle" /\ UNCHANGED <<dest, done>>
          /\ pc'[t] = next /\ op'[t] = o /\ arg'[t] = p
        BY BeginFrame
    <2>. QED BY <2>1, Idle, Zenon
<1>2. LocalTypes'
    BY DEF Begin, FsCore, FsTypes, LocalTypes
<1>3. Local(t)'
    BY <1>1, Zenon DEF Local
<1>. QED BY <1>1, <1>2, <1>3, CoreRule, Zenon

\* one that goes on,
LEMMA GotoCore ==
    ASSUME FsCore, DiskTypes', NEW t \in Threads, NEW next \in Steps \ {"idle", "commit"},
           Goto(t, next), pc[t] \notin {"idle", "commit"}, Belongs(next, op[t])
    PROVE  FsCore'
<1>1. Others(t) /\ pc'[t] = next /\ UNCHANGED <<op, arg, dest, agent, done>>
    BY GotoFrame, Zenon
<1>2. LocalTypes'
    BY DEF Goto, FsCore, FsTypes, LocalTypes
<1>3. Local(t)'
    BY <1>1 DEF FsCore, Local
<1>. QED BY <1>1, <1>2, <1>3, CoreRule, Zenon

\* and one that replies.
LEMMA ReplyCore ==
    ASSUME FsCore, DiskTypes', NEW t \in Threads, Reply(t)
    PROVE  FsCore'
<1>1. /\ Others(t) /\ pc'[t] = "idle" /\ op'[t] = "none"
      /\ arg'[t] = None /\ dest'[t] = None /\ done'[t] = {}
    BY ReplyFrame
<1>2. LocalTypes'
    BY DEF Reply, FsCore, FsTypes, LocalTypes, Steps, Ops
<1>3. Local(t)'
    BY <1>1, Zenon DEF Local, Belongs
<1>. QED BY <1>1, <1>2, <1>3, CoreRule

\* Every step keeps the core, one step per handler step.
LEMMA CoreStep == FsCore /\ FsNext => FsCore'
<1> SUFFICES ASSUME FsCore, FsNext PROVE FsCore'
    OBVIOUS
<1>0. /\ DiskTypes /\ \A t \in Threads : Belongs(pc[t], op[t])
      /\ \A t \in Threads : pc[t] \notin {"idle", "commit"} => arg[t] \in Paths
      /\ \A t \in Threads : dest[t] \in Paths \cup {None}
    BY DEF FsCore, FsTypes, LocalTypes, Local
<1>1. ASSUME NEW t \in Threads, NEW p \in Paths, NEW o \in {"lookup", "exists"}, Probe(t, o, p)
      PROVE FsCore'
    <2>1. DiskTypes' BY <1>0, <1>1, Zenon DEF Probe, disk, DiskTypes
    <2>. QED BY <1>1, <2>1, BeginCore DEF Probe, Steps, Ops, Belongs
<1>2. ASSUME NEW t \in Threads, NEW p \in Paths, NEW o \in {"create", "createRel"}, Create(t, o, p)
      PROVE FsCore'
    <2>1. DiskTypes' BY <1>0, <1>2, ChangedCopies, Zenon DEF Create, DiskTypes, FileStates
    <2>. QED BY <1>2, <2>1, BeginCore DEF Create, Steps, Ops, Belongs
<1>3. ASSUME NEW t \in Threads, NEW p \in Paths, Write(t, p) PROVE FsCore'
    <2>1. DiskTypes' BY <1>0, <1>3, ChangedCopies, Zenon DEF Write, DiskTypes, FileStates
    <2>. QED BY <1>3, <2>1, BeginCore DEF Write, Steps, Ops, Belongs
<1>4. ASSUME NEW t \in Threads, NEW p \in Paths, SetAttr(t, p) PROVE FsCore'
    <2>1. DiskTypes' BY <1>0, <1>4, ChangedCopies, Zenon DEF SetAttr, DiskTypes
    <2>. QED BY <1>4, <2>1, BeginCore DEF SetAttr, Steps, Ops, Belongs
<1>5. ASSUME NEW t \in Threads, NEW p \in Paths, Unlink(t, p) PROVE FsCore'
    <2>1. DiskTypes' BY <1>0, <1>5, ChangedCopies, Zenon DEF Unlink, DiskTypes, FileStates
    <2>. QED BY <1>5, <2>1, BeginCore DEF Unlink, Steps, Ops, Belongs
<1>6. ASSUME NEW t \in Threads, NEW p \in Paths, Read(t, p) PROVE FsCore'
    <2>1. DiskTypes' BY <1>0, <1>6, Zenon DEF Read, DiskTypes
    <2>. QED BY <1>6, <2>1, BeginCore DEF Read, Steps, Ops, Belongs
<1>7. ASSUME NEW t \in Threads, NEW p \in Paths, NEW q \in Paths, Rename(t, p, q) PROVE FsCore'
    <2>1. DiskTypes' BY <1>0, <1>7, ChangedCopies DEF Rename, DiskTypes, FileStates
    <2>2. /\ pc[t] = "idle" /\ pc'[t] = "forget" /\ op'[t] = "rename" /\ arg'[t] = p
          /\ UNCHANGED done /\ Others(t)
        BY <1>7 DEF Rename, FsCore, FsTypes, LocalTypes, Others
    <2>3. LocalTypes' BY <1>7 DEF Rename, FsCore, FsTypes, LocalTypes, Steps, Ops
    <2>4. done[t] = {} BY <2>2, Zenon DEF FsCore, Local, Belongs
    <2>5. Local(t)' BY <2>2, <2>4, Zenon DEF Local, Belongs
    <2>. QED BY <2>1, <2>2, <2>3, <2>5, CoreRule
<1>8. ASSUME NEW t \in Threads, NEW p \in Paths, NEW a \in Agents, Commit(t, a, p) PROVE FsCore'
    <2>1. DiskTypes' BY <1>0, <1>8, ChangedCopies, Zenon DEF Commit, CommitPending, DiskTypes, FileStates
    <2>. QED BY <1>8, <2>1, BeginCore DEF Commit, Steps, Ops, Belongs
<1>9. ASSUME NEW t \in Threads, NEW p \in Paths, CommitNext(t, p) PROVE FsCore'
    <2>0. pc[t] = "commit" /\ op[t] = "commitAll" /\ agent[t] \in Agents /\ dest[t] = None
        BY <1>9 DEF CommitNext, FsCore, Local, Belongs
    <2>1. DiskTypes'
        BY <1>0, <1>9, <2>0, ChangedCopies, Zenon DEF CommitNext, CommitPending, DiskTypes, FileStates
    <2>2. /\ UNCHANGED <<op, dest, agent>> /\ Others(t)
          /\ \/ pc'[t] = "stamp" /\ arg'[t] \in Paths
             \/ pc'[t] = pc[t] /\ arg'[t] = arg[t]
        BY <1>9 DEF CommitNext, FsCore, FsTypes, LocalTypes, Others
    <2>3. LocalTypes'
        BY <1>9, <2>0 DEF CommitNext, FsCore, FsTypes, LocalTypes, Steps
    <2>4. Local(t)'
        BY <2>0, <2>2, Zenon DEF FsCore, Local, Belongs
    <2>. QED BY <2>1, <2>2, <2>3, <2>4, CoreRule, Zenon
<1>10. ASSUME NEW t \in Threads, NEW p \in Paths, CommitGone(t, p) PROVE FsCore'
    <2>1. DiskTypes' BY <1>0, <1>10, Zenon DEF CommitGone, ReportUnstamped, DiskTypes, FileStates
    <2>. QED BY <1>10, <2>1, ReplyCore, Zenon DEF CommitGone
<1>11. ASSUME NEW t \in Threads, NEW a \in Agents, CommitAll(t, a) PROVE FsCore'
    <2>1. DiskTypes' BY <1>0, <1>11 DEF CommitAll, disk, DiskTypes
    <2>2. /\ pc[t] = "idle" /\ pc'[t] = "commit" /\ op'[t] = "commitAll" /\ agent'[t] = a
          /\ UNCHANGED <<arg, dest, done>> /\ Others(t)
        BY <1>11 DEF CommitAll, FsCore, FsTypes, LocalTypes, Others
    <2>3. LocalTypes'
        BY <1>0, <1>11 DEF CommitAll, FsCore, FsTypes, LocalTypes, DiskTypes, Steps, Ops
    <2>4. arg[t] = None /\ dest[t] = None /\ done[t] = {} BY <2>2 DEF FsCore, Local, Belongs
    <2>5. Local(t)' BY <2>2, <2>4 DEF Local, Belongs
    <2>. QED BY <2>1, <2>2, <2>3, <2>5, CoreRule
<1>12. ASSUME NEW t \in Threads, Stat(t) PROVE FsCore'
    <2>1. DiskTypes' BY <1>0, <1>12, Zenon DEF Stat, disk, DiskTypes
    <2>. QED BY <1>0, <1>12, <2>1, GotoCore DEF Stat, Steps, Belongs
<1>13. ASSUME NEW t \in Threads, Found(t) \/ RememberMiss(t) \/ Remember(t) PROVE FsCore'
    <2>1. DiskTypes' BY <1>0, <1>13, Zenon DEF Found, RememberMiss, Remember, disk, DiskTypes
    <2>. QED BY <1>13, <2>1, ReplyCore DEF Found, RememberMiss, Remember
<1>14. ASSUME NEW t \in Threads, SetAttrMeta(t) PROVE FsCore'
    <2>1. DiskTypes' BY <1>0, <1>14, Zenon DEF SetAttrMeta, disk, DiskTypes
    <2>. QED BY <1>0, <1>14, <2>1, GotoCore, ReplyCore DEF SetAttrMeta, Steps, Belongs
<1>15. ASSUME NEW t \in Threads, Stamp(t) PROVE FsCore'
    <2>1. DiskTypes' BY <1>0, <1>15, Zenon DEF Stamp, DiskTypes, FileStates
    <2>. QED BY <1>0, <1>15, <2>1, GotoCore, Zenon DEF Stamp, Steps, Belongs
<1>16. ASSUME NEW t \in Threads, StampErr(t) PROVE FsCore'
    <2>1. DiskTypes' BY <1>0, <1>16, Zenon DEF StampErr, ReportUnstamped, DiskTypes, FileStates
    <2>. QED BY <1>0, <1>16, <2>1, GotoCore, ReplyCore, Zenon DEF StampErr, Steps, Belongs
<1>17. ASSUME NEW t \in Threads, RemoveCreated(t) PROVE FsCore'
    <2>1. DiskTypes' BY <1>0, <1>17, ChangedCopies, Zenon DEF RemoveCreated, DiskTypes, FileStates
    <2>. QED BY <1>17, <2>1, ReplyCore, Zenon DEF RemoveCreated
<1>18. ASSUME NEW t \in Threads, InvalidateNeg(t) PROVE FsCore'
    <2>1. DiskTypes' BY <1>0, <1>18, Zenon DEF InvalidateNeg, disk, DiskTypes
    <2>. QED BY <1>0, <1>18, <2>1, GotoCore, Zenon DEF InvalidateNeg, Steps, Belongs
<1>19. ASSUME NEW t \in Threads, Forget(t) PROVE FsCore'
    <2>1. DiskTypes' /\ pc[t] = "forget" BY <1>0, <1>19, Zenon DEF Forget, DiskTypes
    <2>2. CASE Goto(t, "remember") /\ op[t] \in {"unlink", "rename"}
        BY <2>1, <2>2, GotoCore DEF Steps, Belongs
    <2>3. CASE Reply(t)
        BY <2>1, <2>3, ReplyCore
    <2>4. ASSUME NEW p \in done[t] \ {arg[t]},
                 /\ pc' = [pc EXCEPT ![t] = "stamp"]
                 /\ done' = [done EXCEPT ![t] = @ \ {arg[t]}]
                 /\ arg' = [arg EXCEPT ![t] = p]
                 /\ UNCHANGED <<op, dest, agent, todo>>
          PROVE FsCore'
        <3>1. /\ pc'[t] = "stamp" /\ arg'[t] = p /\ p \in Paths /\ op[t] = "commitAll"
              /\ Others(t)
            BY <2>4 DEF FsCore, FsTypes, LocalTypes, Local, Others
        <3>2. LocalTypes' BY <2>4 DEF FsCore, FsTypes, LocalTypes, Steps
        <3>3. Local(t)' BY <2>4, <3>1, Zenon DEF FsCore, Local, Belongs
        <3>. QED BY <2>1, <2>4, <3>1, <3>2, <3>3, CoreRule
    <2>. QED BY <1>19, <2>2, <2>3, <2>4, Zenon DEF Forget
<1>20. ASSUME NEW t \in Threads, Load(t) PROVE FsCore'
    <2>1. DiskTypes' BY <1>0, <1>20, Zenon DEF Load, DiskTypes
    <2>. QED BY <1>0, <1>20, <2>1, GotoCore DEF Load, Steps, Belongs
<1>21. ASSUME NEW t \in Threads, LoadErr(t) \/ PutMiss(t) PROVE FsCore'
    <2>1. DiskTypes' BY <1>0, <1>21 DEF LoadErr, PutMiss, DiskTypes
    <2>. QED BY <1>21, <2>1, ReplyCore, Zenon DEF LoadErr, PutMiss
<1>22. ASSUME NEW p \in Paths,
              Expire(p) \/ \E a \in Agents : StageBytes(a, p) \/ DiscardPending(a, p)
       PROVE FsCore'
    <2>1. UNCHANGED <<pc, op, arg, dest, agent, todo, done>>
        BY <1>22 DEF Expire, StageBytes, DiscardPending, locals
    <2>2. DiskTypes' BY <1>0, <1>22 DEF Expire, StageBytes, DiscardPending, disk, DiskTypes
    <2>. QED BY <2>1, <2>2 DEF FsCore, FsTypes, LocalTypes, Local, OneReader
<1>. QED
    BY <1>1, <1>2, <1>3, <1>4, <1>5, <1>6, <1>7, <1>8, <1>9, <1>10, <1>11, <1>12, <1>13,
       <1>14, <1>15, <1>16, <1>17, <1>18, <1>19, <1>20, <1>21, <1>22 DEF FsNext

\* A handler gives up a file it owes an annotation only with the annotation made
\* (Stamp) or the error returned (StampErr, CommitGone).
LEMMA LoudStep == FsCore /\ ProvenanceLoud /\ FsNext => ProvenanceLoud'
<1> SUFFICES ASSUME FsCore, ProvenanceLoud, FsNext PROVE ProvenanceLoud'
    OBVIOUS
<1>0. file \in [Paths -> FileStates] /\ None \notin Paths
    BY FsAssumption DEF FsCore, FsTypes, DiskTypes
<1>1. ASSUME NEW t \in Threads, Others(t),
             \A x \in Paths : file'[x] = "owed" =>
                x \in Owing(t)' \/ (file[x] = "owed" /\ x \notin Owing(t))
      PROVE ProvenanceLoud'
    BY <1>1, OthersKeep, Zenon DEF ProvenanceLoud
<1>2. ASSUME NEW t \in Threads, NEW o, NEW p \in Paths, NEW next, Begin(t, o, p, next),
             \A x \in Paths : file'[x] = "owed" => file[x] = "owed" \/ (x = p /\ next = "stamp")
      PROVE ProvenanceLoud'
    <2>1. Others(t) /\ pc[t] = "idle" /\ pc'[t] = next /\ arg'[t] = p
        BY <1>2, BeginFrame
    <2>2. Owing(t) = {}
        BY <2>1, Idle DEF Owing
    <2>3. next = "stamp" => p \in Owing(t)'
        BY <2>1 DEF Owing
    <2>. QED BY <1>1, <1>2, <2>1, <2>2, <2>3
<1>3. ASSUME NEW t \in Threads, NEW p \in Paths,
             \/ \E o \in {"create", "createRel"} : Create(t, o, p)
             \/ Write(t, p) \/ \E a \in Agents : Commit(t, a, p)
      PROVE ProvenanceLoud'
    <2>1. file' = [file EXCEPT ![p] = "owed"] /\ \E o \in Ops : Begin(t, o, p, "stamp")
        BY <1>3 DEF Create, Write, Commit, CommitPending, Ops
    <2>. QED BY <1>0, <1>2, <2>1
<1>4. ASSUME NEW t \in Threads, NEW p \in Paths,
             \/ \E o \in {"lookup", "exists"} : Probe(t, o, p)
             \/ SetAttr(t, p) \/ Unlink(t, p) \/ Read(t, p)
      PROVE ProvenanceLoud'
    <2>1. /\ file' = file \/ file' = [file EXCEPT ![p] = "absent"]
          /\ \E o \in Ops, next \in Steps : Begin(t, o, p, next)
        BY <1>4 DEF Probe, SetAttr, Unlink, Read, disk, Ops, Steps
    <2>. QED BY <1>0, <1>2, <2>1
<1>5. ASSUME NEW t \in Threads, NEW p \in Paths, NEW q \in Paths, Rename(t, p, q)
      PROVE ProvenanceLoud'
    <2>1. pc[t] = "idle" /\ pc'[t] = "forget" /\ Others(t)
        BY <1>5 DEF Rename, FsCore, FsTypes, LocalTypes, Others
    <2>2. Owing(t) = {}
        BY <2>1, Zenon DEF Owing, FsCore, Local, Belongs
    <2>3. \A x \in Paths : file'[x] = "owed" => file[x] = "owed"
        BY <1>0, <1>5 DEF Rename
    <2>. QED BY <1>1, <2>1, <2>2, <2>3, Zenon
<1>6. ASSUME NEW t \in Threads, NEW p \in Paths, CommitNext(t, p) PROVE ProvenanceLoud'
    <2>1. /\ pc[t] = "commit" /\ Others(t) /\ done'[t] = done[t] \cup {p}
          /\ pc'[t] = "stamp" \/ (pc'[t] = "commit" /\ arg' = arg)
          /\ arg[t] = None /\ done[t] \subseteq Paths
        BY <1>6 DEF CommitNext, FsCore, FsTypes, LocalTypes, Local, Others
    <2>2. p \in Owing(t)' /\ \A x \in Paths : x \in Owing(t) => x \in Owing(t)'
        BY <1>0, <2>1, Zenon DEF Owing
    <2>3. file' = [file EXCEPT ![p] = "owed"]
        BY <1>6, Zenon DEF CommitNext, CommitPending
    <2>. QED BY <1>0, <1>1, <2>1, <2>2, <2>3
<1>7. ASSUME NEW t \in Threads, Reply(t) \/ Goto(t, "remove"), ReportUnstamped(t)
      PROVE ProvenanceLoud'
    <2>1. \A x \in Paths : file'[x] = "owed" => file[x] = "owed" /\ x \notin Owing(t)
        BY <1>0, <1>7 DEF ReportUnstamped
    <2>. QED BY <1>1, <1>7, <2>1, ReplyFrame, GotoFrame, Zenon
<1>8. ASSUME NEW t \in Threads, StampErr(t) \/ \E p \in Paths : CommitGone(t, p)
      PROVE ProvenanceLoud'
    BY <1>7, <1>8, Zenon DEF StampErr, CommitGone
<1>9. ASSUME NEW t \in Threads, NEW a \in Agents, CommitAll(t, a) PROVE ProvenanceLoud'
    <2>1. pc[t] = "idle" /\ Others(t) /\ file' = file
        BY <1>9, Zenon DEF CommitAll, FsCore, FsTypes, LocalTypes, Others, disk
    <2>2. Owing(t) = {}
        BY <2>1 DEF Owing, FsCore, Local, Belongs
    <2>. QED BY <1>1, <2>1, <2>2
<1>10. ASSUME NEW t \in Threads, pc[t] \notin {"stamp", "commit"}, pc[t] = "forget" => done[t] = {},
              Reply(t) \/ \E next \in Steps : Goto(t, next),
              \A x \in Paths : file'[x] = "owed" => file[x] = "owed"
       PROVE ProvenanceLoud'
    <2>1. Others(t) BY <1>10, ReplyFrame, GotoFrame, Zenon
    <2>2. pc \in [Threads -> Steps] BY DEF FsCore, FsTypes, LocalTypes
    <2>3. done[t] = {} BY <1>10, <2>2, Zenon DEF FsCore, Local, Belongs, Steps
    <2>4. Owing(t) = {} BY <1>10, <2>3 DEF Owing
    <2>. QED BY <1>1, <1>10, <2>1, <2>4, Zenon
<1>11. ASSUME NEW t \in Threads, Stat(t) \/ Found(t) \/ RememberMiss(t) \/ Remember(t)
       PROVE ProvenanceLoud'
    BY <1>10, <1>11, Zenon DEF Stat, Found, RememberMiss, Remember, disk, Steps
<1>12. ASSUME NEW t \in Threads, SetAttrMeta(t) \/ InvalidateNeg(t) PROVE ProvenanceLoud'
    BY <1>10, <1>12, Zenon DEF SetAttrMeta, InvalidateNeg, disk, Steps
<1>13. ASSUME NEW t \in Threads, Load(t) \/ LoadErr(t) \/ PutMiss(t) PROVE ProvenanceLoud'
    BY <1>10, <1>13 DEF Load, LoadErr, PutMiss, Steps
<1>14. ASSUME NEW t \in Threads, RemoveCreated(t) PROVE ProvenanceLoud'
    <2>1. \A x \in Paths : file'[x] = "owed" => file[x] = "owed"
        BY <1>0, <1>14 DEF RemoveCreated
    <2>. QED BY <1>10, <1>14, <2>1, Zenon DEF RemoveCreated
<1>15. ASSUME NEW t \in Threads, Stamp(t) PROVE ProvenanceLoud'
    <2>1. /\ pc[t] = "stamp" /\ file' = [file EXCEPT ![arg[t]] = "settled"]
          /\ Goto(t, "invalidate") \/ Goto(t, "forget")
        BY <1>15 DEF Stamp
    <2>2. Others(t) /\ pc'[t] # "stamp" /\ UNCHANGED <<arg, done>>
        BY <2>1, GotoFrame
    <2>3. \A x \in Paths : x \in Owing(t) => x = arg[t] \/ x \in Owing(t)'
        BY <2>1, <2>2 DEF Owing
    <2>4. \A x \in Paths : file'[x] = "owed" => file[x] = "owed" /\ x # arg[t]
        BY <1>0, <2>1
    <2>. QED BY <1>1, <2>2, <2>3, <2>4
<1>16. ASSUME NEW t \in Threads, Forget(t) PROVE ProvenanceLoud'
    <2>1. pc[t] = "forget" /\ file' = file
        BY <1>16, Zenon DEF Forget
    <2>2. CASE Goto(t, "remember") /\ op[t] \in {"unlink", "rename"}
        <3>1. done[t] = {} BY <2>2, Zenon DEF FsCore, Local
        <3>. QED BY <1>10, <2>1, <2>2, <3>1 DEF Steps
    <2>3. CASE Reply(t) /\ done[t] \subseteq {arg[t]}
        <3>1. Owing(t) = {} BY <2>1, <2>3 DEF Owing
        <3>. QED BY <1>1, <2>1, <2>3, <3>1, ReplyFrame, Zenon
    <2>4. ASSUME NEW p \in done[t] \ {arg[t]},
                 /\ pc' = [pc EXCEPT ![t] = "stamp"]
                 /\ done' = [done EXCEPT ![t] = @ \ {arg[t]}]
                 /\ arg' = [arg EXCEPT ![t] = p]
                 /\ UNCHANGED <<op, dest, agent, todo>>
          PROVE ProvenanceLoud'
        <3>1. pc'[t] = "stamp" /\ done'[t] = done[t] \ {arg[t]} /\ Others(t)
            BY <2>4 DEF FsCore, FsTypes, LocalTypes, Others
        <3>2. \A x \in Paths : x \in Owing(t) => x \in Owing(t)'
            BY <2>1, <3>1, Zenon DEF Owing
        <3>. QED BY <1>1, <2>1, <3>1, <3>2
    <2>. QED BY <1>16, <2>2, <2>3, <2>4, Zenon DEF Forget
<1>17. ASSUME NEW p \in Paths,
              Expire(p) \/ \E a \in Agents : StageBytes(a, p) \/ DiscardPending(a, p)
       PROVE ProvenanceLoud'
    BY <1>17 DEF Expire, StageBytes, DiscardPending, disk, locals, ProvenanceLoud, Owing
<1>. QED
    BY <1>3, <1>4, <1>5, <1>6, <1>8, <1>9, <1>11, <1>12, <1>13, <1>14, <1>15, <1>16, <1>17
    DEF FsNext

\* A path comes to exist only by a handler that still has its negative entry to drop.
LEMMA NegStep == FsCore /\ NegDue /\ FsNext => NegDue'
<1> SUFFICES ASSUME FsCore, NegDue, FsNext PROVE NegDue'
    OBVIOUS
<1>0. /\ file \in [Paths -> FileStates] /\ neg \subseteq Paths /\ None \notin Paths
      /\ \A t \in Threads : pc[t] \notin {"idle", "commit"} => arg[t] \in Paths
    BY FsAssumption DEF FsCore, FsTypes, DiskTypes, Local
<1>1. ASSUME NEW t \in Threads, Others(t), neg' \subseteq Paths,
             \A x \in neg' : Exists(x)' =>
                 \/ x \in hidden' \/ Dropping(t, x)'
                 \/ x \in neg /\ Exists(x) /\ x \notin hidden /\ ~Dropping(t, x)
      PROVE NegDue'
    BY <1>1, OthersKeep DEF NegDue
<1>2. ASSUME NEW t \in Threads, NEW o, NEW p \in Paths, NEW next, Begin(t, o, p, next), neg' = neg,
             \A x \in neg : Exists(x)' => \/ x \in hidden' \/ (Exists(x) /\ x \notin hidden)
                                          \/ (x = p /\ next = "stamp" /\ o \in {"create", "createRel"})
      PROVE NegDue'
    <2>1. Others(t) /\ pc[t] = "idle" /\ pc'[t] = next /\ op'[t] = o /\ arg'[t] = p
        BY <1>2, BeginFrame
    <2>2. \A x \in Paths : ~Dropping(t, x)
        BY <1>0, <2>1, Idle DEF Dropping
    <2>3. next = "stamp" /\ o \in {"create", "createRel"} => Dropping(t, p)'
        BY <2>1 DEF Dropping
    <2>. QED BY <1>0, <1>1, <1>2, <2>1, <2>2, <2>3, Zenon
<1>3. ASSUME NEW t \in Threads, NEW p \in Paths, NEW o \in {"create", "createRel"}, Create(t, o, p)
      PROVE NegDue'
    <2>1. \A x \in Paths \ {p} : Exists(x)' = Exists(x)
        BY <1>0, <1>3 DEF Create, Exists
    <2>. QED BY <1>0, <1>2, <1>3, <2>1, Zenon DEF Create
<1>4. ASSUME NEW t \in Threads, NEW p \in Paths,
             \/ \E o \in {"lookup", "exists"} : Probe(t, o, p)
             \/ Write(t, p) \/ SetAttr(t, p) \/ Read(t, p)
      PROVE NegDue'
    <2>1. \A x \in Paths : Exists(x)' = Exists(x)
        BY <1>0, <1>4, Zenon DEF Probe, Write, SetAttr, Read, disk, Exists
    <2>2. /\ \E o \in Ops, next \in Steps : Begin(t, o, p, next)
          /\ UNCHANGED <<neg, hidden>>
        BY <1>4 DEF Probe, Write, SetAttr, Read, Ops, Steps
    <2>. QED BY <1>0, <1>2, <2>1, <2>2, Zenon
<1>5. ASSUME NEW t \in Threads, NEW p \in Paths, Unlink(t, p) PROVE NegDue'
    <2>1. \A x \in Paths : Exists(x)' => x # p /\ Exists(x)
        BY <1>0, <1>5 DEF Unlink, Exists
    <2>. QED BY <1>0, <1>2, <1>5, <2>1, Zenon DEF Unlink, Removed
<1>6. ASSUME NEW p \in Paths, NEW a \in Agents, CommitPending(a, p)
      PROVE  /\ neg' = neg
             /\ \A x \in neg : Exists(x)' => x \in hidden' \/ (Exists(x) /\ x \notin hidden)
    <2>1. \A x \in Paths \ {p} : Exists(x)' = Exists(x)
        BY <1>0, <1>6 DEF CommitPending, Exists
    <2>2. neg' = neg /\ hidden' = hidden \cup {x \in neg : x = p /\ ~Exists(p)}
        BY <1>6 DEF CommitPending
    <2>. QED BY <1>0, <2>1, <2>2
<1>7. ASSUME NEW t \in Threads, NEW p \in Paths, NEW a \in Agents, Commit(t, a, p)
      PROVE NegDue'
    BY <1>2, <1>6, <1>7 DEF Commit
<1>8. ASSUME NEW t \in Threads, NEW p \in Paths, CommitNext(t, p) PROVE NegDue'
    <2>1. /\ Others(t) /\ op[t] = "commitAll" /\ agent[t] \in Agents /\ dest[t] = None
        BY <1>8, Zenon DEF CommitNext, FsCore, FsTypes, LocalTypes, Local, Belongs, Others
    <2>2. \A x \in Paths : ~Dropping(t, x)
        BY <1>0, <2>1 DEF Dropping
    <2>3. CommitPending(agent[t], p)
        BY <1>8, Zenon DEF CommitNext
    <2>. QED BY <1>0, <1>1, <1>6, <2>1, <2>2, <2>3, Zenon
<1>9. ASSUME NEW t \in Threads, NEW a \in Agents, CommitAll(t, a) PROVE NegDue'
    <2>1. pc[t] = "idle" /\ Others(t) /\ UNCHANGED <<file, neg, hidden>>
        BY <1>9, Zenon DEF CommitAll, FsCore, FsTypes, LocalTypes, Others, disk
    <2>2. \A x \in Paths : ~Dropping(t, x)
        BY <1>0, <2>1, Zenon DEF Dropping, FsCore, Local, Belongs
    <2>. QED BY <1>0, <1>1, <2>1, <2>2, Zenon DEF Exists
<1>10. ASSUME NEW t \in Threads, NEW p \in Paths, NEW q \in Paths, Rename(t, p, q) PROVE NegDue'
    <2>1. pc[t] = "idle" /\ Others(t) /\ dest'[t] = q
        BY <1>10 DEF Rename, FsCore, FsTypes, LocalTypes, Others
    <2>2. (\A x \in Paths : ~Dropping(t, x)) /\ Dropping(t, q)'
        BY <1>0, <2>1, Zenon DEF Dropping, FsCore, Local, Belongs
    <2>3. \A x \in Paths \ {q} : Exists(x)' => x # p /\ Exists(x)
        BY <1>0, <1>10 DEF Rename, Exists
    <2>4. neg' = neg /\ hidden' = hidden \ {p}
        BY <1>10 DEF Rename, Removed
    <2>. QED BY <1>0, <1>1, <2>1, <2>2, <2>3, <2>4, Zenon
<1>11. ASSUME NEW t \in Threads, Reply(t) \/ \E next \in Steps : Goto(t, next),
              \A x \in Paths : x \in neg' /\ Dropping(t, x) /\ Exists(x) => x \in hidden' \/ Dropping(t, x)',
              \A x \in Paths : Exists(x)' = Exists(x), neg' \subseteq Paths,
              \A x \in neg' : x \in hidden' \/ (x \in neg /\ x \notin hidden) \/ ~Exists(x)
       PROVE NegDue'
    <2>1. Others(t) BY <1>11, ReplyFrame, GotoFrame
    <2>. QED BY <1>1, <1>11, <2>1
<1>12. ASSUME NEW t \in Threads, op[t] \notin {"create", "createRel", "rename"},
              Reply(t) \/ \E next \in Steps : Goto(t, next),
              \A x \in Paths : Exists(x)' = Exists(x), neg' \subseteq Paths,
              \A x \in neg' : x \in hidden' \/ (x \in neg /\ x \notin hidden) \/ ~Exists(x)
       PROVE NegDue'
    <2>1. dest[t] = None BY <1>12, Zenon DEF FsCore, Local
    <2>2. \A x \in Paths : ~Dropping(t, x) BY <1>0, <1>12, <2>1, Zenon DEF Dropping
    <2>. QED BY <1>11, <1>12, <2>2
<1>13. ASSUME NEW t \in Threads, Stat(t) \/ Found(t) \/ RememberMiss(t) PROVE NegDue'
    <2>1. op[t] \in {"lookup", "exists"} /\ arg[t] \in Paths
        BY <1>0, <1>13, Zenon DEF Stat, Found, RememberMiss, FsCore, Local, Belongs
    <2>2. \A x \in Paths : Exists(x)' = Exists(x)
        BY <1>13, Zenon DEF Stat, Found, RememberMiss, disk, Exists
    <2>3. /\ Reply(t) \/ \E next \in Steps : Goto(t, next)
          /\ neg' \subseteq Paths
          /\ \A x \in neg' : x \in hidden' \/ (x \in neg /\ x \notin hidden) \/ ~Exists(x)
        BY <1>0, <1>13, <2>1, Zenon DEF Stat, Found, RememberMiss, Steps
    <2>. QED BY <1>12, <2>1, <2>2, <2>3, Zenon
<1>14. ASSUME NEW t \in Threads, Load(t) \/ LoadErr(t) \/ PutMiss(t) \/ SetAttrMeta(t)
       PROVE NegDue'
    <2>1. op[t] \in {"read", "setattr"}
        BY <1>14, Zenon DEF Load, LoadErr, PutMiss, SetAttrMeta, FsCore, Local, Belongs
    <2>2. UNCHANGED <<file, neg, hidden>>
        BY <1>14, Zenon DEF Load, LoadErr, PutMiss, SetAttrMeta, disk
    <2>3. Reply(t) \/ \E next \in Steps : Goto(t, next)
        BY <1>14 DEF Load, LoadErr, PutMiss, SetAttrMeta, Steps
    <2>. QED BY <1>0, <1>12, <2>1, <2>2, <2>3, Zenon DEF Exists
<1>15. ASSUME NEW t \in Threads, NEW p \in Paths, CommitGone(t, p) PROVE NegDue'
    <2>1. op[t] = "commitAll" /\ Reply(t) /\ UNCHANGED <<neg, hidden>>
        BY <1>15, Zenon DEF CommitGone, FsCore, Local, Belongs
    <2>2. \A x \in Paths : Exists(x)' = Exists(x)
        BY <1>0, <1>15, Zenon DEF CommitGone, ReportUnstamped, Exists
    <2>. QED BY <1>0, <1>12, <2>1, <2>2, Zenon
<1>16. ASSUME NEW t \in Threads, Remember(t) PROVE NegDue'
    <2>1. /\ pc[t] = "remember" /\ Reply(t) /\ file' = file /\ arg[t] \in Paths
          /\ neg' = (neg \cup {arg[t]}) \ {dest[t]}
          /\ hidden' = (hidden \cup {p \in {arg[t]} : Exists(p)}) \ {dest[t]}
        BY <1>0, <1>16, Zenon DEF Remember, disk
    <2>2. \A x \in Paths : Dropping(t, x) => x = dest[t]
        BY <2>1 DEF Dropping
    <2>. QED BY <1>0, <1>11, <2>1, <2>2, Zenon DEF Exists
<1>17. ASSUME NEW t \in Threads, InvalidateNeg(t) PROVE NegDue'
    <2>1. /\ pc[t] = "invalidate" /\ Goto(t, "forget") /\ file' = file
          /\ neg' = neg \ {arg[t]} /\ hidden' = hidden \ {arg[t]}
        BY <1>17 DEF InvalidateNeg, disk
    <2>2. \A x \in Paths : Dropping(t, x) => x = arg[t] \/ Dropping(t, x)'
        BY <2>1, GotoFrame, Zenon DEF Dropping
    <2>. QED BY <1>0, <1>11, <2>1, <2>2, Zenon DEF Exists, Steps
<1>18. ASSUME NEW t \in Threads, Stamp(t) PROVE NegDue'
    <2>1. /\ pc[t] = "stamp" /\ UNCHANGED <<neg, hidden>>
          /\ \E next \in {"invalidate", "forget"} :
                Goto(t, next) /\ (op[t] \in {"create", "createRel"} => next = "invalidate")
        BY <1>18, Zenon DEF Stamp
    <2>2. \A x \in Paths : Dropping(t, x) => Dropping(t, x)'
        BY <2>1, GotoFrame DEF Dropping
    <2>3. \A x \in Paths : Exists(x)' = Exists(x)
        BY <1>0, <1>18, Zenon DEF Stamp, Exists
    <2>. QED BY <1>0, <1>11, <2>1, <2>2, <2>3, Zenon DEF Steps
<1>19. ASSUME NEW t \in Threads, StampErr(t) PROVE NegDue'
    <2>1. /\ pc[t] = "stamp" /\ neg' = neg
          /\ \/ op[t] = "create" /\ Goto(t, "remove")
             \/ op[t] # "create" /\ Reply(t)
          /\ hidden' = hidden \cup {x \in neg : x = arg[t] /\ op[t] = "createRel" /\ Exists(x)}
        BY <1>19, Zenon DEF StampErr
    <2>2. \A x \in Paths : Dropping(t, x) => x = arg[t] /\ op[t] \in {"create", "createRel"}
        BY <1>0, <2>1, Zenon DEF Dropping, FsCore, Local, Belongs
    <2>3. \A x \in Paths : op[t] = "create" /\ Dropping(t, x) => Dropping(t, x)'
        BY <2>1, <2>2, GotoFrame, Zenon DEF Dropping
    <2>4. \A x \in Paths : Exists(x)' = Exists(x)
        BY <1>0, <1>19, Zenon DEF StampErr, ReportUnstamped, Exists
    <2>. QED BY <1>0, <1>11, <2>1, <2>2, <2>3, <2>4, Zenon DEF Steps
<1>20. ASSUME NEW t \in Threads, RemoveCreated(t) PROVE NegDue'
    <2>1. /\ pc[t] = "remove" /\ Reply(t) /\ arg[t] \in Paths
          /\ neg' = neg /\ hidden' = hidden \ {arg[t]}
        BY <1>0, <1>20, Zenon DEF RemoveCreated, Removed
    <2>2. \A x \in Paths : Exists(x)' => x # arg[t] /\ Exists(x)
        BY <1>0, <1>20, Zenon DEF RemoveCreated, Exists
    <2>3. \A x \in Paths : Dropping(t, x) => x = arg[t]
        BY <1>0, <2>1, Zenon DEF Dropping, FsCore, Local, Belongs
    <2>. QED BY <1>0, <1>1, <2>1, <2>2, <2>3, ReplyFrame, Zenon
<1>21. ASSUME NEW t \in Threads, Forget(t) PROVE NegDue'
    <2>1. pc[t] = "forget" /\ UNCHANGED <<file, neg, hidden>>
        BY <1>21, Zenon DEF Forget
    <2>2. Others(t) /\ (dest'[t] = dest[t] \/ op[t] # "rename")
        BY <1>21 DEF Forget, Goto, Reply, FsCore, FsTypes, LocalTypes, Others
    <2>3. dest'[t] = dest[t] \/ dest[t] = None
        BY <2>2, Zenon DEF FsCore, Local
    <2>4. \A x \in Paths : Dropping(t, x) => Dropping(t, x)'
        BY <1>0, <2>1, <2>3, Zenon DEF Dropping
    <2>. QED BY <1>0, <1>1, <2>1, <2>2, <2>4, Zenon DEF Exists
<1>22. ASSUME NEW p \in Paths,
              Expire(p) \/ \E a \in Agents : StageBytes(a, p) \/ DiscardPending(a, p)
       PROVE NegDue'
    <2>1. /\ UNCHANGED <<file, op, arg, dest, pc>> /\ neg' \subseteq neg
          /\ \A x \in neg' : x \in hidden => x \in hidden'
        BY <1>22 DEF Expire, StageBytes, DiscardPending, disk, locals
    <2>. QED BY <1>0, <2>1, Zenon DEF NegDue, Dropping, Exists
<1>. QED
    BY <1>3, <1>4, <1>5, <1>7, <1>8, <1>9, <1>10, <1>13, <1>14, <1>15, <1>16, <1>17, <1>18,
       <1>19, <1>20, <1>21, <1>22
    DEF FsNext

\* The inductive invariant of the file system holds in every reachable state.
THEOREM FsInvariant == FsSpec => []FsInv
<1>1. FsInit => FsInv
    <2> SUFFICES ASSUME FsInit PROVE FsInv
        OBVIOUS
    <2>1. DiskTypes BY DEF FsInit, DiskTypes, FileStates
    <2>2. LocalTypes BY DEF FsInit, LocalTypes, Steps, Ops
    <2>3. /\ \A t \in Threads : /\ pc[t] = "idle" /\ op[t] = "none" /\ arg[t] = None
                               /\ dest[t] = None /\ done[t] = {}
          /\ neg = {} /\ buf = "none"
          /\ \A p \in Paths : cached[p] = "none" /\ file[p] # "owed"
        BY DEF FsInit
    <2>4. FsCore BY <2>1, <2>2, <2>3 DEF FsCore, FsTypes, Local, Belongs, OneReader
    <2>5. FreshInv BY <2>3 DEF FreshInv, CacheFresh, PutFresh
    <2>6. NegDue /\ ProvenanceLoud BY <2>3 DEF NegDue, ProvenanceLoud
    <2>. QED BY <2>4, <2>5, <2>6 DEF FsInv
<1>2. FsInv /\ [FsNext]_fsVars => FsInv'
    <2>1. ASSUME FsInv, UNCHANGED fsVars PROVE FsInv'
        <3>1. UNCHANGED <<file, neg, cached, buf, pending, hidden, unsure>>
            BY <2>1 DEF fsVars, disk
        <3>2. UNCHANGED <<pc, op, arg, dest, agent, todo, done>>
            BY <2>1 DEF fsVars, locals
        <3>3. FsCore'
            BY <2>1, <3>1, <3>2 DEF FsInv, FsCore, FsTypes, DiskTypes, LocalTypes, Local, Belongs, OneReader
        <3>4. FreshInv'
            BY <2>1, <3>1, <3>2, Zenon DEF FsInv, FreshInv, CacheFresh, PutFresh, Changing, Exists
        <3>5. NegDue' /\ ProvenanceLoud'
            BY <2>1, <3>1, <3>2, Zenon DEF FsInv, NegDue, Dropping, ProvenanceLoud, Owing, Exists
        <3>. QED BY <3>3, <3>4, <3>5 DEF FsInv
    <2>. QED BY <2>1, CoreStep, LoudStep, NegStep, FreshStep DEF FsInv
<1>. QED BY <1>1, <1>2, PTL DEF FsSpec

\* However many threads read, write, rename and commit, the read cache answers
\* with outdated data only while the change is under way or after an error
\* (ReadContentCache, after_write, after_commit).
THEOREM ReadsAreFresh == FsSpec => []CacheFresh
<1>1. FsInv => CacheFresh BY DEF FsInv, FreshInv
<1>. QED BY <1>1, FsInvariant, PTL

\* A created or renamed file is not hidden by a negative entry once the handler
\* has replied (after_create_at, rename), but for entries that another handler
\* recorded late and for files that came by a commit.
THEOREM FilesAreVisible == FsSpec => []ExistenceVisible
<1>1. FsInv => ExistenceVisible BY DEF FsInv, NegDue, Dropping, ExistenceVisible
<1>. QED BY <1>1, FsInvariant, PTL

\* No written file is left without its annotation and without an error
\* (annotate_write and its callers).
THEOREM ProvenanceIsLoud == FsSpec => []ProvenanceLoud
<1>1. FsInv => ProvenanceLoud BY DEF FsInv
<1>. QED BY <1>1, FsInvariant, PTL
=============================================================================
