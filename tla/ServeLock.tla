------------------------------ MODULE ServeLock ------------------------------
(***************************************************************************)
(* The single-instance guard of `sharecli serve`: src/serve_lock.rs with   *)
(* its caller commands/serve/run.rs, and the variant of the IPC crate,     *)
(* which also looks at the owner recorded in the pidfile (checksOwner).    *)
(*                                                                         *)
(* Several processes start a server: probe, decide, try_acquire, serve,    *)
(* drop.  The pidfile is a name that leads to an inode; the advisory lock  *)
(* is on the inode, and unlinking the name leaves open inodes alone.       *)
(***************************************************************************)
EXTENDS Naturals, FiniteSets

CONSTANTS
    Procs,      \* processes, by pid
    Inodes      \* a set of positive numbers

ASSUME ServeAssumption ==
    /\ Inodes \subseteq Nat \ {0}
    /\ Procs \cap {"empty", "garbled", "nobody"} = {}

NoInode == 0

VARIABLES
    checksOwner, \* which variant is deployed: that of crates/sharecli-ipc?
    path,       \* the inode the pidfile's name leads to, or NoInode
    text,       \* [Inodes -> "empty" | "garbled" | a pid]
    excl,       \* [Inodes -> holder of the exclusive lock | "nobody"]
    shared,     \* [Inodes -> processes with a shared lock]
    pc,
    policy,     \* [Procs -> "Attach" | "Replace" | "Abort"]
    fd,         \* the inode a process has open
    held,       \* what probe saw: was the inode locked exclusively
    cut         \* history: processes whose open pidfile another one has removed

serveVars == <<checksOwner, path, text, excl, shared, pc, policy, fd, held, cut>>

Ended == {"attached", "aborted", "error", "refused", "stopped", "dead"}
Alive(p) == pc[p] \notin {"dead", "stopped", "start"}
Serving(p) == pc[p] = "serving"
InUse(i) == path = i \/ \E p \in Procs : fd[p] = i

\* The types; a process that serves or is about to has its inode open and locked.
ServeTypeOK ==
    /\ checksOwner \in BOOLEAN
    /\ path \in Inodes \cup {NoInode}
    /\ text \in [Inodes -> Procs \cup {"empty", "garbled"}]
    /\ excl \in [Inodes -> Procs \cup {"nobody"}]
    /\ shared \in [Inodes -> SUBSET Procs]
    /\ pc \in [Procs -> {"start", "probe", "decide", "open", "lock", "owner", "truncate",
                         "write", "writeBehind", "serving", "unlink"} \cup Ended]
    /\ policy \in [Procs -> {"Attach", "Replace", "Abort"}]
    /\ fd \in [Procs -> Inodes \cup {NoInode}] /\ held \in [Procs -> BOOLEAN]
    /\ cut \subseteq Procs
    /\ \A p \in Procs : pc[p] \in {"owner", "truncate", "write", "writeBehind", "serving"} =>
          fd[p] # NoInode /\ excl[fd[p]] = p

ServeInit ==
    /\ checksOwner \in BOOLEAN
    /\ path = NoInode
    /\ text = [i \in Inodes |-> "empty"]
    /\ excl = [i \in Inodes |-> "nobody"]
    /\ shared = [i \in Inodes |-> {}]
    /\ pc = [p \in Procs |-> "start"]
    /\ policy \in [Procs -> {"Attach", "Replace", "Abort"}]
    /\ fd = [p \in Procs |-> NoInode] /\ held = [p \in Procs |-> FALSE]
    /\ cut = {}
-----------------------------------------------------------------------------
Goto(p, l) == pc' = [pc EXCEPT ![p] = l]

\* Closing the file (which also ends its locks) on the way to l.
CloseTo(p, l) ==
    /\ Goto(p, l)
    /\ fd'     = [fd EXCEPT ![p] = NoInode]
    /\ excl'   = [i \in Inodes |-> IF excl[i] = p THEN "nobody" ELSE excl[i]]
    /\ shared' = [i \in Inodes |-> shared[i] \ {p}]

\* ... when nobody's pidfile is removed.
Close(p, l) == CloseTo(p, l) /\ cut' = cut \ {p}

\* probe opens the pidfile; without one the state is Free.
ProbeOpen(p) ==
    /\ pc[p] = "start"
    /\ IF path = NoInode
       THEN Goto(p, "open") /\ UNCHANGED fd
       ELSE Goto(p, "probe") /\ fd' = [fd EXCEPT ![p] = path]
    /\ UNCHANGED <<checksOwner, path, text, excl, shared, policy, held, cut>>

\* try_lock_shared tells whether a server holds the file exclusively ...
ProbeLock(p) ==
    /\ pc[p] = "probe"
    /\ held' = [held EXCEPT ![p] = excl[fd[p]] # "nobody"]
    /\ shared' = [shared EXCEPT ![fd[p]] = IF held'[p] THEN @ ELSE @ \cup {p}]
    /\ Goto(p, "decide")
    /\ UNCHANGED <<checksOwner, path, text, excl, policy, fd, cut>>

\* ... it is unlocked, the file read, and the policy applied to the state.
Decide(p) ==
    LET t == text[fd[p]]
        live == held[p] \/ (t \in Procs /\ Alive(t))
    IN
    /\ pc[p] = "decide"
    /\ Close(p, CASE t \notin Procs /\ held[p]      -> "error"
                    [] t \notin Procs /\ ~held[p]     -> "open"
                    [] t \in Procs /\ ~live           -> "open"
                    [] t \in Procs /\ live -> CASE policy[p] = "Attach"  -> "attached"
                                                [] policy[p] = "Abort"   -> "aborted"
                                                [] policy[p] = "Replace" -> "open")
    /\ UNCHANGED <<checksOwner, path, text, policy, held>>

\* try_acquire opens the pidfile, creating it if it is not there.
Open(p) ==
    LET i == IF path # NoInode THEN path ELSE CHOOSE j \in Inodes : ~InUse(j) IN
    /\ pc[p] = "open"
    /\ path # NoInode \/ \E j \in Inodes : ~InUse(j)
    /\ path' = i
    /\ text' = IF path # NoInode THEN text ELSE [text EXCEPT ![i] = "empty"]
    /\ fd' = [fd EXCEPT ![p] = i]
    /\ Goto(p, "lock")
    /\ UNCHANGED <<checksOwner, excl, shared, policy, held, cut>>

\* try_lock_exclusive; refused if anybody else has a lock on the inode.
Lock(p) ==
    /\ pc[p] = "lock"
    /\ \/ /\ excl[fd[p]] = "nobody" /\ shared[fd[p]] \subseteq {p}
          /\ excl' = [excl EXCEPT ![fd[p]] = p]
          /\ Goto(p, IF checksOwner THEN "owner" ELSE "truncate")
          /\ UNCHANGED <<shared, fd, cut>>
       \/ /\ excl[fd[p]] # "nobody" \/ ~(shared[fd[p]] \subseteq {p})
          /\ Close(p, "refused")
    /\ UNCHANGED <<checksOwner, path, text, policy, held>>

\* IPC variant: refused if the pidfile names a live process.
CheckOwner(p) ==
    /\ pc[p] = "owner"
    /\ IF text[fd[p]] \in Procs /\ Alive(text[fd[p]])
       THEN Close(p, "refused")
       ELSE Goto(p, "truncate") /\ UNCHANGED <<excl, shared, fd, cut>>
    /\ UNCHANGED <<checksOwner, path, text, policy, held>>

Truncate_Skipped(p) ==
    /\ pc[p] = "truncate"
    /\ Goto(p, "write")
    /\ UNCHANGED <<checksOwner, path, text, excl, shared, policy, fd, held, cut>>

\* set_len(0).  In the IPC variant the file was read before: the offset stays
\* behind what was there.
Truncate(p) ==
    /\ pc[p] = "truncate"
    /\ text' = [text EXCEPT ![fd[p]] = "empty"]
    /\ Goto(p, IF checksOwner /\ text[fd[p]] # "empty" THEN "writeBehind" ELSE "write")
    /\ UNCHANGED <<checksOwner, path, excl, shared, policy, fd, held, cut>>

\* write_all of the server's own identity; behind the start, it leaves zero
\* bytes before it, which do not parse.
Write(p) ==
    /\ pc[p] \in {"write", "writeBehind"}
    /\ text' = [text EXCEPT ![fd[p]] =
                   IF pc[p] = "write" /\ @ = "empty" THEN p ELSE "garbled"]
    /\ Goto(p, "serving")
    /\ UNCHANGED <<checksOwner, path, excl, shared, policy, fd, held, cut>>

\* Drop unlocks ...
DropUnlock(p) ==
    /\ pc[p] = "serving"
    /\ excl' = [excl EXCEPT ![fd[p]] = "nobody"]
    /\ Goto(p, "unlink")
    /\ UNCHANGED <<checksOwner, path, text, shared, policy, fd, held, cut>>

DropUnlink_Skipped(p) ==
    /\ pc[p] = "unlink"
    /\ Close(p, "stopped")
    /\ UNCHANGED <<checksOwner, path, text, policy, held>>

\* ... and removes the pidfile, by name.
DropUnlink(p) ==
    /\ pc[p] = "unlink"
    /\ path' = NoInode
    /\ cut' = (cut \ {p}) \cup {q \in Procs \ {p} : path # NoInode /\ fd[q] = path}
    /\ CloseTo(p, "stopped")
    /\ UNCHANGED <<checksOwner, text, policy, held>>

\* A process dies; the system closes its files.
Crash(p) ==
    /\ pc[p] \notin Ended \cup {"start"}
    /\ Close(p, "dead")
    /\ UNCHANGED <<checksOwner, path, text, policy, held>>

ServeNext ==
    \E p \in Procs :
        \/ ProbeOpen(p) \/ ProbeLock(p) \/ Decide(p) \/ Open(p) \/ Lock(p)
        \/ CheckOwner(p) \/ Truncate(p) \/ Write(p) \/ DropUnlock(p) \/ DropUnlink(p)
        \/ Crash(p)

ServeSpec == ServeInit /\ [][ServeNext]_serveVars
-----------------------------------------------------------------------------
\* Two processes never serve at once (serve_lock.rs:9 "they must **not**
\* silently double-serve").  It does not hold: a stopping server removes a name
\* that may be a later one's; Advertised says how far the promise goes.
SingleServer == \A p, q \in Procs : Serving(p) /\ Serving(q) => p = q

\* While a process serves, the pidfile's name leads to the file it has locked,
\* and the file names it (or, in the IPC variant, may not parse), so that every
\* other actor's probe and try_acquire meet it; but for a process whose pidfile
\* a stopping server has removed.  In particular no two others serve at once.
Advertised ==
    \A p \in Procs :
        Serving(p) /\ p \notin cut =>
            /\ path = fd[p]
            /\ text[path] = p \/ (checksOwner /\ text[path] = "garbled")

\* A server that stopped by dropping its lock is not advertised any more
\* (serve_lock.rs:311 "so the next actor sees `Free` rather than a stale entry").
StoppedNotAdvertised == \A p \in Procs : path # NoInode /\ pc[p] = "stopped" => text[path] # p
=============================================================================
