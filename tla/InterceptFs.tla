---------------------------- MODULE InterceptFs ----------------------------
(***************************************************************************)
(* The intercepting file system of crates/sharecli-fuse: the handlers of   *)
(* InterceptFs on a flat set of regular files, its read cache, its         *)
(* negative dentry cache, its write provenance and its per-agent           *)
(* copy-on-write staging.                                                  *)
(*                                                                         *)
(* FUSE session threads and the session registry's threads share one       *)
(* InterceptFs.  A handler is split where another thread can act: between  *)
(* two system calls and between two lock scopes.  Three mutexes matter:    *)
(* inodes (held by lookup, unlink and rename from start to end),           *)
(* read_cache (held by a read from its stat to its put) and agents (held   *)
(* by a serialized write and by each copy-on-write operation).             *)
(*                                                                         *)
(* File contents are compared, never represented: a cached copy is         *)
(* "fresh" (the disk's mtime and data), "old" (another mtime, so that get  *)
(* drops it) or "stale" (the disk's mtime and other data, as mtimes have a *)
(* granularity and a commit brings the staging file's mtime along).  Inode *)
(* numbers are left out: a handler is given the path its inode resolves to.*)
(***************************************************************************)
EXTENDS Naturals, FiniteSets

CONSTANTS
    Paths,      \* relative paths under the backing root
    Agents,     \* agents with a copy-on-write store
    Threads,    \* threads calling into the file system
    Serialize,  \* InterceptFsOptions::serialize
    None        \* no path or agent

ASSUME FsAssumption == None \notin Paths

VARIABLES
    file,       \* per path: "absent", or the provenance of what is on disk
    neg,        \* negative dentry cache
    cached,     \* read cache: per path "none" or how the copy compares to the disk
    buf,        \* the copy in the hands of the thread that holds read_cache
    pending,    \* AgentCowStore: per agent, the paths with staged bytes
    pc,         \* per thread, the next step of its handler
    op,         \* per thread, its handler
    arg,        \* per thread, its path
    dest,       \* per thread, the destination of its rename
    agent,      \* per thread, the agent of its commit_all
    todo,       \* per thread, pending paths its commit_all has still to commit
    done,       \* per thread, paths its commit_all has committed and not finished
    hidden,     \* history: negative entries that were wrong when recorded, or
                \* whose path a commit or a failed create_rel has brought to existence
    unsure      \* history: paths changed by a handler that then reported an error

disk == <<file, cached, buf>>
locals == <<pc, op, arg, dest, agent, todo, done>>
fsVars == <<disk, neg, pending, locals, hidden, unsure>>

\* What is on disk: nothing; a file whose last write still has to be annotated;
\* or one that is settled: not written through the file system, annotated, left
\* without by a handler that reported the error, or renamed before its annotation.
FileStates == {"absent", "owed", "settled"}

Ops == {"none", "lookup", "exists", "create", "createRel", "write", "setattr",
        "unlink", "rename", "commit", "commitAll", "read"}

Exists(p) == file[p] # "absent"

HoldsInodes(t) == op[t] \in {"lookup", "unlink", "rename"}
HoldsReadCache(t) == op[t] = "read"
HoldsAgents(t) == Serialize /\ op[t] = "write" /\ pc[t] = "stamp"

\* std::sync::Mutex::lock returns.
InodesFree == \A t \in Threads : ~HoldsInodes(t)
ReadCacheFree == \A t \in Threads : ~HoldsReadCache(t)
AgentsFree == \A t \in Threads : ~HoldsAgents(t)

FsInit ==
    /\ file \in [Paths -> {"absent", "settled"}]
    /\ neg = {}
    /\ cached = [p \in Paths |-> "none"]
    /\ buf = "none"
    /\ pending = [a \in Agents |-> {}]
    /\ pc = [t \in Threads |-> "idle"]
    /\ op = [t \in Threads |-> "none"]
    /\ arg = [t \in Threads |-> None]
    /\ dest = [t \in Threads |-> None]
    /\ agent = [t \in Threads |-> None]
    /\ todo = [t \in Threads |-> {}]
    /\ done = [t \in Threads |-> {}]
    /\ hidden = {}
    /\ unsure = {}

-----------------------------------------------------------------------------
Begin(t, o, p, next) ==
    /\ pc[t] = "idle"
    /\ pc' = [pc EXCEPT ![t] = next]
    /\ op' = [op EXCEPT ![t] = o]
    /\ arg' = [arg EXCEPT ![t] = p]
    /\ UNCHANGED <<dest, agent, todo, done>>

Goto(t, next) ==
    /\ pc' = [pc EXCEPT ![t] = next]
    /\ UNCHANGED <<op, arg, dest, agent, todo, done>>

\* The handler replies and drops its locks.
Reply(t) ==
    /\ pc' = [pc EXCEPT ![t] = "idle"]
    /\ op' = [op EXCEPT ![t] = "none"]
    /\ arg' = [arg EXCEPT ![t] = None]
    /\ dest' = [dest EXCEPT ![t] = None]
    /\ agent' = [agent EXCEPT ![t] = None]
    /\ todo' = [todo EXCEPT ![t] = {}]
    /\ done' = [done EXCEPT ![t] = {}]

\* The contents under the names ps change on disk: no copy is fresh any more,
\* and its mtime may or may not differ from the new one.
Changed(ps) ==
    /\ \E f \in [ps -> {"old", "stale"}] :
          cached' = [p \in Paths |->
                        IF p \in ps /\ cached[p] # "none" THEN f[p] ELSE cached[p]]
    /\ IF \E t \in Threads : HoldsReadCache(t) /\ arg[t] \in ps
       THEN buf' \in {"old", "stale"}
       ELSE UNCHANGED buf

\* The name p is gone from the disk, and with it what the histories say of it.
Removed(p) ==
    /\ hidden' = hidden \ {p}
    /\ unsure' = unsure \ {p}

-----------------------------------------------------------------------------
(* lookup and exists_rel: the negative cache, then the disk.               *)

\* A negative entry answers by itself; otherwise the handler goes on to stat.
Probe(t, o, p) ==
    /\ o = "lookup" => InodesFree
    /\ p \notin neg
    /\ Begin(t, o, p, "stat")
    /\ UNCHANGED <<disk, neg, pending, hidden, unsure>>

Stat(t) ==
    /\ pc[t] = "stat"
    /\ Goto(t, IF Exists(arg[t]) THEN "found" ELSE "miss")
    /\ UNCHANGED <<disk, neg, pending, hidden, unsure>>

Found(t) ==
    /\ pc[t] = "found"
    /\ neg' = neg \ {arg[t]}
    /\ hidden' = hidden \ {arg[t]}
    /\ Reply(t)
    /\ UNCHANGED <<disk, pending, unsure>>

RememberMiss(t) ==
    /\ pc[t] = "miss"
    /\ neg' = neg \cup {arg[t]}
    /\ hidden' = hidden \cup {p \in {arg[t]} : Exists(p)}
    /\ Reply(t)
    /\ UNCHANGED <<disk, pending, unsure>>

\* is_negative drops an entry whose TTL is over.
Expire(p) ==
    /\ p \in neg
    /\ neg' = neg \ {p}
    /\ hidden' = hidden \ {p}
    /\ UNCHANGED <<disk, pending, locals, unsure>>

-----------------------------------------------------------------------------
(* create, mknod, create_rel, write and setattr: the disk, the annotation, *)
(* the caches.                                                             *)

Create(t, o, p) ==
    /\ ~Exists(p)
    /\ Begin(t, o, p, "stamp")
    /\ file' = [file EXCEPT ![p] = "owed"]
    /\ Changed({p})
    /\ UNCHANGED <<neg, pending, hidden, unsure>>

Write(t, p) ==
    /\ Serialize => AgentsFree
    /\ Exists(p)
    /\ Begin(t, "write", p, "stamp")
    /\ file' = [file EXCEPT ![p] = "owed"]
    /\ Changed({p})
    /\ UNCHANGED <<neg, pending, hidden, unsure>>

\* set_len; it is no write as far as provenance goes.
SetAttr(t, p) ==
    /\ Exists(p)
    /\ Begin(t, "setattr", p, "meta")
    /\ Changed({p})
    /\ UNCHANGED <<file, neg, pending, hidden, unsure>>

\* set_permissions and metadata, by name; on an error the cache keeps its copy.
SetAttrMeta(t) ==
    /\ pc[t] = "meta"
    /\ \/ /\ Exists(arg[t])
          /\ Goto(t, "forget")
          /\ UNCHANGED unsure
       \/ /\ Reply(t)
          /\ unsure' = unsure \cup {p \in {arg[t]} : Exists(p)}
    /\ UNCHANGED <<disk, neg, pending, hidden>>

\* Mutant: after_create_at leaves the negative entry.
Stamp_NegKept(t) ==
    /\ pc[t] = "stamp"
    /\ Exists(arg[t])
    /\ file' = [file EXCEPT ![arg[t]] = "settled"]
    /\ Goto(t, "forget")
    /\ UNCHANGED <<cached, buf, neg, pending, hidden, unsure>>

\* annotate_write sets the attributes of whatever file bears the name by now.
Stamp(t) ==
    /\ pc[t] = "stamp"
    /\ Exists(arg[t])
    /\ file' = [file EXCEPT ![arg[t]] = "settled"]
    /\ Goto(t, IF op[t] \in {"create", "createRel"} THEN "invalidate" ELSE "forget")
    /\ UNCHANGED <<cached, buf, neg, pending, hidden, unsure>>

\* Files whose annotation the handler of t still has to make.
Owing(t) == IF pc[t] = "stamp" THEN done[t] \cup {arg[t]} ELSE done[t] \ {arg[t]}

\* The error is returned: whatever was written stays without annotation.
ReportUnstamped(t) ==
    /\ file' = [p \in Paths |->
                   IF p \in Owing(t) /\ file[p] = "owed" THEN "settled" ELSE file[p]]
    /\ unsure' = unsure \cup {p \in Owing(t) : Exists(p)}

\* annotate_write fails; create and mknod remove the file again.
StampErr(t) ==
    /\ pc[t] = "stamp"
    /\ ReportUnstamped(t)
    /\ IF op[t] = "create" THEN Goto(t, "remove") ELSE Reply(t)
    /\ hidden' = hidden \cup {x \in neg : x = arg[t] /\ op[t] = "createRel" /\ Exists(x)}
    /\ UNCHANGED <<cached, buf, neg, pending>>

RemoveCreated(t) ==
    /\ pc[t] = "remove"
    /\ Removed(arg[t])
    /\ file' = [file EXCEPT ![arg[t]] = "absent"]
    /\ Changed({arg[t]})
    /\ Reply(t)
    /\ UNCHANGED <<neg, pending>>

\* after_create_at drops the negative entry.
InvalidateNeg(t) ==
    /\ pc[t] = "invalidate"
    /\ neg' = neg \ {arg[t]}
    /\ hidden' = hidden \ {arg[t]}
    /\ Goto(t, "forget")
    /\ UNCHANGED <<disk, pending, unsure>>

\* Mutant: the invalidation does not wait for a read that is under way.
Forget_Unlocked(t) ==
    /\ pc[t] = "forget"
    /\ cached' = [p \in Paths |-> IF p \in {arg[t], dest[t]} THEN "none" ELSE cached[p]]
    /\ unsure' = unsure \ {arg[t], dest[t]}
    /\ \/ /\ op[t] \in {"unlink", "rename"}
          /\ Goto(t, "remember")
       \/ /\ op[t] \notin {"unlink", "rename"}
          /\ done[t] \subseteq {arg[t]}
          /\ Reply(t)
       \/ \E p \in done[t] \ {arg[t]} :
             /\ pc' = [pc EXCEPT ![t] = "stamp"]
             /\ done' = [done EXCEPT ![t] = @ \ {arg[t]}]
             /\ arg' = [arg EXCEPT ![t] = p]
             /\ UNCHANGED <<op, dest, agent, todo>>
    /\ UNCHANGED <<file, buf, neg, pending, hidden>>

\* ReadContentCache::invalidate, the last step but for unlink and rename, which
\* go on to the negative cache, and commit_all, which has the next path to stamp.
Forget(t) ==
    /\ pc[t] = "forget"
    /\ ReadCacheFree
    /\ cached' = [p \in Paths |-> IF p \in {arg[t], dest[t]} THEN "none" ELSE cached[p]]
    /\ unsure' = unsure \ {arg[t], dest[t]}
    /\ \/ /\ op[t] \in {"unlink", "rename"}
          /\ Goto(t, "remember")
       \/ /\ op[t] \notin {"unlink", "rename"}
          /\ done[t] \subseteq {arg[t]}
          /\ Reply(t)
       \/ \E p \in done[t] \ {arg[t]} :
             /\ pc' = [pc EXCEPT ![t] = "stamp"]
             /\ done' = [done EXCEPT ![t] = @ \ {arg[t]}]
             /\ arg' = [arg EXCEPT ![t] = p]
             /\ UNCHANGED <<op, dest, agent, todo>>
    /\ UNCHANGED <<file, buf, neg, pending, hidden>>

-----------------------------------------------------------------------------
(* unlink and rename, under the inodes lock.                               *)
Unlink(t, p) ==
    /\ InodesFree
    /\ Exists(p)
    /\ Begin(t, "unlink", p, "forget")
    /\ Removed(p)
    /\ file' = [file EXCEPT ![p] = "absent"]
    /\ Changed({p})
    /\ UNCHANGED <<neg, pending>>

Rename(t, p, q) ==
    /\ InodesFree
    /\ Exists(p) /\ p # q
    /\ pc[t] = "idle"
    /\ pc' = [pc EXCEPT ![t] = "forget"]
    /\ op' = [op EXCEPT ![t] = "rename"]
    /\ arg' = [arg EXCEPT ![t] = p]
    /\ dest' = [dest EXCEPT ![t] = q]
    /\ Removed(p)
    /\ file' = [file EXCEPT ![p] = "absent",
                            ![q] = "settled"]
    /\ Changed({p, q})
    /\ UNCHANGED <<neg, pending, agent, todo, done>>

Remember(t) ==
    /\ pc[t] = "remember"
    /\ neg' = (neg \cup {arg[t]}) \ {dest[t]}
    /\ hidden' = (hidden \cup {p \in {arg[t]} : Exists(p)}) \ {dest[t]}
    /\ Reply(t)
    /\ UNCHANGED <<disk, pending, unsure>>

-----------------------------------------------------------------------------
(* Copy-on-write, each operation under the agents lock.                    *)

StageBytes(a, p) ==
    /\ AgentsFree
    /\ pending' = [pending EXCEPT ![a] = @ \cup {p}]
    /\ UNCHANGED <<disk, neg, locals, hidden, unsure>>

\* discard_all_for_agent is a sequence of these.
DiscardPending(a, p) ==
    /\ AgentsFree
    /\ p \in pending[a]
    /\ pending' = [pending EXCEPT ![a] = @ \ {p}]
    /\ UNCHANGED <<disk, neg, locals, hidden, unsure>>

\* commit_pending renames the staging file to its place.
CommitPending(a, p) ==
    /\ AgentsFree
    /\ p \in pending[a]
    /\ pending' = [pending EXCEPT ![a] = @ \ {p}]
    /\ file' = [file EXCEPT ![p] = "owed"]
    /\ Changed({p})
    /\ hidden' = hidden \cup {x \in neg : x = p /\ ~Exists(p)}
    /\ UNCHANGED <<neg, unsure>>

Commit(t, a, p) ==
    /\ CommitPending(a, p)
    /\ Begin(t, "commit", p, "stamp")

\* commit_all_for_agent lists the pending paths and lets go of the lock.
CommitAll(t, a) ==
    /\ AgentsFree
    /\ pending[a] # {}
    /\ pc[t] = "idle"
    /\ pc' = [pc EXCEPT ![t] = "commit"]
    /\ op' = [op EXCEPT ![t] = "commitAll"]
    /\ agent' = [agent EXCEPT ![t] = a]
    /\ todo' = [todo EXCEPT ![t] = pending[a]]
    /\ UNCHANGED <<disk, neg, pending, arg, dest, done, hidden, unsure>>

\* The paths are committed one by one, then stamped one by one.
CommitNext(t, p) ==
    /\ pc[t] = "commit"
    /\ p \in todo[t]
    /\ CommitPending(agent[t], p)
    /\ todo' = [todo EXCEPT ![t] = @ \ {p}]
    /\ done' = [done EXCEPT ![t] = @ \cup {p}]
    /\ IF todo[t] = {p}
       THEN /\ pc' = [pc EXCEPT ![t] = "stamp"]
            /\ \E first \in done[t] \cup {p} : arg' = [arg EXCEPT ![t] = first]
       ELSE UNCHANGED <<pc, arg>>
    /\ UNCHANGED <<op, dest, agent>>

\* Mutant: commit_all takes NoPending for success and stops.
CommitGone_Swallowed(t, p) ==
    /\ pc[t] = "commit"
    /\ AgentsFree
    /\ p \in todo[t] \ pending[agent[t]]
    /\ Reply(t)
    /\ UNCHANGED <<disk, neg, pending, hidden, unsure>>

\* Somebody else committed or discarded p: NoPending ends commit_all.
CommitGone(t, p) ==
    /\ pc[t] = "commit"
    /\ AgentsFree
    /\ p \in todo[t] \ pending[agent[t]]
    /\ ReportUnstamped(t)
    /\ Reply(t)
    /\ UNCHANGED <<cached, buf, neg, pending, hidden>>

-----------------------------------------------------------------------------
(* read: ReadContentCache::read_coalesced under the read_cache lock.       *)

\* A copy of the right mtime is returned; otherwise the file is loaded.
Read(t, p) ==
    /\ ReadCacheFree
    /\ Exists(p)
    /\ cached[p] \in {"none", "old"}
    /\ Begin(t, "read", p, "load")
    /\ cached' = [cached EXCEPT ![p] = "none"]
    /\ buf' = "fresh"
    /\ UNCHANGED <<file, neg, pending, hidden, unsure>>

\* The mtime is that of the stat, the data that of now.
Load(t) ==
    /\ pc[t] = "load"
    /\ Exists(arg[t])
    /\ buf' = IF buf = "stale" THEN "fresh" ELSE buf
    /\ Goto(t, "put")
    /\ UNCHANGED <<file, cached, neg, pending, hidden, unsure>>

LoadErr(t) ==
    /\ pc[t] = "load"
    /\ ~Exists(arg[t])
    /\ buf' = "none"
    /\ Reply(t)
    /\ UNCHANGED <<file, cached, neg, pending, hidden, unsure>>

PutMiss(t) ==
    /\ pc[t] = "put"
    /\ cached' = [cached EXCEPT ![arg[t]] = buf]
    /\ buf' = "none"
    /\ Reply(t)
    /\ UNCHANGED <<file, neg, pending, hidden, unsure>>

-----------------------------------------------------------------------------
FsNext ==
    \/ \E t \in Threads :
          \/ \E p \in Paths :
                \/ \E o \in {"lookup", "exists"} : Probe(t, o, p)
                \/ \E o \in {"create", "createRel"} : Create(t, o, p)
                \/ Write(t, p) \/ SetAttr(t, p) \/ Unlink(t, p) \/ Read(t, p)
                \/ \E q \in Paths : Rename(t, p, q)
                \/ \E a \in Agents : Commit(t, a, p)
                \/ CommitNext(t, p) \/ CommitGone(t, p)
          \/ \E a \in Agents : CommitAll(t, a)
          \/ Stat(t) \/ Found(t) \/ RememberMiss(t) \/ SetAttrMeta(t)
          \/ Stamp(t) \/ StampErr(t) \/ RemoveCreated(t) \/ InvalidateNeg(t)
          \/ Forget(t) \/ Remember(t) \/ Load(t) \/ LoadErr(t) \/ PutMiss(t)
    \/ \E p \in Paths : Expire(p) \/ \E a \in Agents : StageBytes(a, p) \/ DiscardPending(a, p)

FsSpec == FsInit /\ [][FsNext]_fsVars

-----------------------------------------------------------------------------
\* Every variable keeps its type, and the locks exclude: there is one lookup,
\* unlink or rename at a time, and one loading read.
FsTypeOK ==
    /\ file \in [Paths -> FileStates]
    /\ neg \cup hidden \cup unsure \subseteq Paths
    /\ cached \in [Paths -> {"none", "fresh", "old", "stale"}]
    /\ buf = "none" <=> ReadCacheFree
    /\ pending \in [Agents -> SUBSET Paths]
    /\ \A t \in Threads :
          /\ op[t] \in Ops
          /\ pc[t] = "idle" <=> op[t] = "none"
          /\ arg[t] \in Paths \cup {None} /\ dest[t] \in Paths \cup {None}
          /\ agent[t] \in Agents \cup {None}
          /\ todo[t] \subseteq Paths /\ done[t] \subseteq Paths \ todo[t]
    /\ \A t, u \in Threads :
          \/ HoldsInodes(t) /\ HoldsInodes(u)
          \/ HoldsReadCache(t) /\ HoldsReadCache(u)
          => t = u

\* The handler of t has changed p on disk and not yet dropped its cached copy.
Changing(t, p) ==
    /\ pc[t] \in {"stamp", "meta", "remove", "invalidate", "forget", "commit"}
    /\ p \in done[t] \cup {arg[t], dest[t]}

\* Between handlers the read cache never answers with data the disk no longer
\* has, whatever reads, writes, renames and commits overlapped and although
\* mtimes may be equal ("any write-side invalidation or mtime change forces a
\* miss and reload", read_cache.rs:65-66); only a handler that reported an error
\* after it had changed the file may leave such a copy.
CacheFresh ==
    \A p \in Paths :
        Exists(p) /\ cached[p] = "stale" => p \in unsure \/ \E t \in Threads : Changing(t, p)

\* A file that exists is not hidden by a negative entry once its create or
\* rename has replied ("so positive existence is visible immediately",
\* neg_dentry.rs:7), unless the entry was recorded by a handler that had
\* found the path missing before, or the file came by a copy-on-write commit.
ExistenceVisible ==
    \A p \in neg :
        Exists(p) =>
            \/ p \in hidden
            \/ \E t \in Threads :
                  \/ op[t] \in {"create", "createRel"} /\ arg[t] = p
                  \/ dest[t] = p

\* No handler that wrote a file replies without its annotation being made or an
\* error being reported ("Failures are loud: never silently skip provenance
\* when a write succeeds", provenance.rs:5-6).
ProvenanceLoud ==
    \A p \in Paths : file[p] = "owed" => \E t \in Threads : p \in Owing(t)
=============================================================================
