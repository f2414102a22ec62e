---------------------------- MODULE MaildirQueue ----------------------------
(***************************************************************************)
(* The Maildir task queue of crates/sharecli-mesh/src/task_queue.rs.       *)
(*                                                                         *)
(* A task is a JSON file in new/ (ready) or cur/ (claimed).  Workers are   *)
(* processes: a claim lists new/, renames a file to cur/ and then rewrites *)
(* it in place with fs::write, which opens (or creates) and truncates the  *)
(* file before it writes.  An operator moves a dead owner's tasks back.    *)
(*                                                                         *)
(* Files are inodes, because a rename between the open and the write of a  *)
(* claim takes the half-written file along.  A worker that died does not   *)
(* come back under the same owner name.                                    *)
(***************************************************************************)
EXTENDS Naturals, FiniteSets

CONSTANTS
    Tasks, Workers,
    Files,          \* inodes, a set of positive numbers
    MaxClaims       \* [Tasks -> Nat], bound: claims of a task

ASSUME MaildirAssumption ==
    /\ Files \subseteq Nat \ {0}
    /\ MaxClaims \in [Tasks -> Nat]
    /\ "nobody" \notin Workers

None == 0

VARIABLES
    new, cur,       \* [Tasks -> Files \cup {None}]: the two directories
    torn,           \* [Files -> BOOLEAN]: truncated, does not parse
    owner,          \* [Files -> Workers \cup {"nobody"}]: owner in the envelope
    wpc,            \* where each worker is
    listed,         \* [Workers -> SUBSET Tasks]: what is left of claim's listing
    task,           \* the task a worker claims or works on
    fd,             \* the inode a claim is rewriting
    victim,         \* the owner being reclaimed
    todo,           \* entries of cur/ reclaim_owner has still to look at
    matched,        \* the entry found to be victim's, about to be renamed
    enqueued,       \* history: tasks that were enqueued
    acked,          \* history: tasks that were acknowledged
    takenBack,      \* history: tasks reclaimed from under a live worker
    claims          \* history: number of claims

dirVars == <<new, cur, torn, owner>>
workerVars == <<wpc, listed, task, fd>>
opVars == <<victim, todo, matched>>
histVars == <<enqueued, acked, takenBack, claims>>
vars == <<dirVars, workerVars, opVars, histVars>>

MailTypeOK ==
    /\ new \in [Tasks -> Files \cup {None}] /\ cur \in [Tasks -> Files \cup {None}]
    /\ torn \in [Files -> BOOLEAN]
    /\ owner \in [Files -> Workers \cup {"nobody"}]
    /\ wpc \in [Workers -> {"idle", "rename", "open", "write", "work", "dead",
                            "deadClaiming"}]
    /\ listed \in [Workers -> SUBSET Tasks]
    /\ task \in [Workers -> Tasks]
    /\ fd \in [Workers -> Files \cup {None}]
    /\ victim \in Workers \cup {"nobody"}
    /\ todo \subseteq Tasks /\ matched \subseteq Tasks
    /\ victim = "nobody" => todo = {} /\ matched = {}
    /\ enqueued \subseteq Tasks /\ acked \subseteq enqueued
    /\ takenBack \subseteq enqueued
    /\ claims \in [Tasks -> Nat] /\ \A t \in Tasks : claims[t] <= MaxClaims[t]

MailInit ==
    /\ new = [t \in Tasks |-> None] /\ cur = [t \in Tasks |-> None]
    /\ torn = [f \in Files |-> FALSE]
    /\ owner = [f \in Files |-> "nobody"]
    /\ wpc = [w \in Workers |-> "idle"]
    /\ listed = [w \in Workers |-> {}]
    /\ task \in [Workers -> Tasks]
    /\ fd = [w \in Workers |-> None]
    /\ victim = "nobody" /\ todo = {} /\ matched = {}
    /\ enqueued = {} /\ acked = {} /\ takenBack = {}
    /\ claims = [t \in Tasks |-> 0]
-----------------------------------------------------------------------------
Goto(w, l) == wpc' = [wpc EXCEPT ![w] = l]

Free(f) == /\ \A t \in Tasks : new[t] # f /\ cur[t] # f
           /\ \A w \in Workers : fd[w] # f

\* A file made by open(O_CREAT): any inode not in use.
NewFile == CHOOSE f \in Files : Free(f)

\* enqueue: the file is written under tmp/, which nobody else looks at, and
\* renamed to new/.
Enqueue(t) ==
    /\ t \notin enqueued
    /\ enqueued' = enqueued \cup {t}
    /\ \E f \in Files : Free(f)
    /\ new'      = [new EXCEPT ![t] = NewFile]
    /\ torn'     = [torn EXCEPT ![NewFile] = FALSE]
    /\ owner'    = [owner EXCEPT ![NewFile] = "nobody"]
    /\ UNCHANGED <<cur, workerVars, opVars, acked, takenBack,
                   claims>>

\* claim: list_envelopes(new) keeps what parses.  The listing is sorted by
\* priority; which of the listed tasks comes first is left open here.
ClaimList(w) ==
    LET ready == {t \in Tasks : new[t] # None /\ ~torn[new[t]]} IN
    /\ wpc[w] = "idle"
    /\ ready # {}
    /\ listed' = [listed EXCEPT ![w] = ready]
    /\ Goto(w, "rename")
    /\ UNCHANGED <<dirVars, task, fd, opVars, histVars>>

ClaimRename_KeepsReady(w, t) ==
    /\ wpc[w] = "rename"
    /\ t \in listed[w]
    /\ claims[t] < MaxClaims[t]
    /\ new[t] # None
    /\ cur'  = [cur EXCEPT ![t] = new[t]]
    /\ task' = [task EXCEPT ![w] = t]
    /\ claims' = [claims EXCEPT ![t] = @ + 1]
    /\ listed' = [listed EXCEPT ![w] = {}]
    /\ Goto(w, "open")
    /\ UNCHANGED <<new, torn, owner, fd, opVars, enqueued, acked, takenBack>>

\* The rename new/ -> cur/ of one candidate succeeds ...
ClaimRename(w, t) ==
    /\ wpc[w] = "rename"
    /\ t \in listed[w]
    /\ claims[t] < MaxClaims[t]
    /\ new[t] # None
    /\ new'  = [new EXCEPT ![t] = None]
    /\ cur'  = [cur EXCEPT ![t] = new[t]]
    /\ task' = [task EXCEPT ![w] = t]
    /\ claims' = [claims EXCEPT ![t] = @ + 1]
    /\ listed' = [listed EXCEPT ![w] = {}]
    /\ Goto(w, "open")
    /\ UNCHANGED <<torn, owner, fd, opVars, enqueued, acked, takenBack>>

\* ... or finds that somebody else was faster; with the last candidate gone
\* claim returns None.
ClaimLost(w, t) ==
    /\ wpc[w] = "rename"
    /\ t \in listed[w]
    /\ new[t] = None
    /\ listed' = [listed EXCEPT ![w] = @ \ {t}]
    /\ Goto(w, IF listed[w] = {t} THEN "idle" ELSE "rename")
    /\ UNCHANGED <<dirVars, task, fd, opVars, histVars>>

\* fs::write(cur/<id>) opens the file, creating it if it is gone, and
\* truncates it ...
ClaimOpen(w) ==
    LET f == IF cur[task[w]] # None THEN cur[task[w]] ELSE NewFile IN
    /\ wpc[w] = "open"
    /\ cur[task[w]] # None \/ \E g \in Files : Free(g)
    /\ cur'  = [cur EXCEPT ![task[w]] = f]
    /\ torn' = [torn EXCEPT ![f] = TRUE]
    /\ fd'   = [fd EXCEPT ![w] = f]
    /\ Goto(w, "write")
    /\ UNCHANGED <<new, owner, listed, task, opVars, histVars>>

ClaimWrite_NoOwner(w) ==
    /\ wpc[w] = "write"
    /\ torn'     = [torn EXCEPT ![fd[w]] = FALSE]
    /\ fd'       = [fd EXCEPT ![w] = None]
    /\ Goto(w, "work")
    /\ UNCHANGED <<new, cur, owner, listed, task, opVars, histVars>>

ClaimWrite_Truncated(w) ==
    /\ wpc[w] = "write"
    /\ owner' = [owner EXCEPT ![fd[w]] = w]
    /\ fd'    = [fd EXCEPT ![w] = None]
    /\ Goto(w, "work")
    /\ UNCHANGED <<new, cur, torn, listed, task, opVars, histVars>>

\* ... and writes the envelope with the new owner, wherever the inode is by
\* now.
ClaimWrite(w) ==
    /\ wpc[w] = "write"
    /\ torn'     = [torn EXCEPT ![fd[w]] = FALSE]
    /\ owner'    = [owner EXCEPT ![fd[w]] = w]
    /\ fd'       = [fd EXCEPT ![w] = None]
    /\ Goto(w, "work")
    /\ UNCHANGED <<new, cur, listed, task, opVars, histVars>>

\* ack: remove cur/<id>, if it is there.
Ack(w) ==
    /\ wpc[w] = "work"
    /\ cur'   = [cur EXCEPT ![task[w]] = None]
    /\ acked' = acked \cup {task[w]}
    /\ Goto(w, "idle")
    /\ UNCHANGED <<new, torn, owner, listed, task, fd, opVars,
                   enqueued, takenBack, claims>>

\* rename(2) cur/<id> -> new/<id>, for nack and reclaim_owner.
MoveBack(t) ==
    /\ new' = [new EXCEPT ![t] = IF cur[t] # None THEN cur[t] ELSE @]
    /\ cur' = [cur EXCEPT ![t] = None]
    /\ UNCHANGED <<torn, owner>>

\* nack: rename it back to new/, if it is there.
Nack(w) ==
    /\ wpc[w] = "work"
    /\ MoveBack(task[w])
    /\ Goto(w, "idle")
    /\ UNCHANGED <<listed, task, fd, opVars, histVars>>

\* A worker process dies, between claim and ack or inside claim.
Crash(w) ==
    /\ wpc[w] \in {"rename", "open", "write", "work"}
    /\ Goto(w, IF wpc[w] \in {"open", "write"} THEN "deadClaiming" ELSE "dead")
    /\ fd'     = [fd EXCEPT ![w] = None]
    /\ listed' = [listed EXCEPT ![w] = {}]
    /\ UNCHANGED <<dirVars, task, opVars, histVars>>
-----------------------------------------------------------------------------
\* reclaim_owner(o) by an operator, for a worker that died.
ReclaimStart(o) ==
    /\ victim = "nobody"
    /\ wpc[o] \in {"dead", "deadClaiming"}
    /\ victim' = o
    /\ todo'   = {t \in Tasks : cur[t] # None}
    /\ UNCHANGED <<dirVars, workerVars, matched, histVars>>

\* One entry is read; it is the victim's if it parses and names the victim.
ReclaimRead(t) ==
    /\ victim # "nobody" /\ matched = {} /\ t \in todo
    /\ todo'    = todo \ {t}
    /\ matched' = IF cur[t] # None /\ ~torn[cur[t]] /\ owner[cur[t]] = victim
                  THEN {t} ELSE {}
    /\ UNCHANGED <<dirVars, workerVars, victim, histVars>>

\* w has claimed task[w] and neither acknowledged nor given it back.
Holding(w) == wpc[w] \in {"open", "write", "work"}

\* The matched entry is renamed back to new/, by name.
ReclaimRename(t) ==
    /\ t \in matched
    /\ matched' = {}
    /\ MoveBack(t)
    /\ takenBack' = IF \E w \in Workers : Holding(w) /\ task[w] = t
                    THEN takenBack \cup {t} ELSE takenBack
    /\ UNCHANGED <<workerVars, victim, todo, enqueued, acked, claims>>

ReclaimDone ==
    /\ victim # "nobody" /\ todo = {} /\ matched = {}
    /\ victim' = "nobody"
    /\ UNCHANGED <<dirVars, workerVars, todo, matched, histVars>>

MailNext ==
    \/ \E t \in Tasks : Enqueue(t) \/ ReclaimRead(t) \/ ReclaimRename(t)
    \/ \E w \in Workers :
        \/ ClaimList(w) \/ ClaimOpen(w) \/ ClaimWrite(w)
        \/ Ack(w) \/ Nack(w) \/ Crash(w) \/ ReclaimStart(w)
        \/ \E t \in Tasks : ClaimRename(w, t) \/ ClaimLost(w, t)
    \/ ReclaimDone

MailSpec == MailInit /\ [][MailNext]_vars
-----------------------------------------------------------------------------
\* A task that was enqueued and not acknowledged has a file in new/ or cur/,
\* whoever claims, gives back, dies or reclaims.
TaskKept == \A t \in enqueued \ acked : new[t] # None \/ cur[t] # None

\* Some worker is between claim's rename and the end of its rewrite of t, or
\* died there.
Rewriting(t) ==
    \E w \in Workers : wpc[w] \in {"open", "write", "deadClaiming"} /\ task[w] = t

\* Such a task is in what list_pending returns (task_queue.rs:5 "Tasks stranded
\* in cur/ after a crash remain visible via list_pending"), but for the one
\* whose file a claim is just rewriting, or died rewriting.
PendingVisible ==
    \A t \in enqueued \ acked :
        (\E f \in {new[t], cur[t]} \ {None} : ~torn[f]) \/ Rewriting(t)

\* No two live workers work on the same task, unless reclaim_owner has moved it
\* back from under a live worker.
ExclusiveClaim ==
    \A v, w \in Workers :
        v # w /\ Holding(v) /\ Holding(w) /\ task[v] = task[w]
            => task[v] \in takenBack

\* reclaim_owner of a dead worker finds the file of t in cur/.
Reclaimable(t) ==
    /\ ~torn[cur[t]] /\ owner[cur[t]] # "nobody"
    /\ wpc[owner[cur[t]]] \in {"dead", "deadClaiming"}

\* What is in cur/ is in the hands of a live worker or can be reclaimed
\* (task_queue.rs:4 "The queue is crash-recoverable"); the only stranded task is
\* that of a claim that died between its rename and the end of its rewrite.
Recoverable ==
    \A t \in Tasks :
        cur[t] # None =>
            \/ Reclaimable(t) \/ Rewriting(t)
            \/ \E w \in Workers : task[w] = t /\ Holding(w)
-----------------------------------------------------------------------------
Ledger == INSTANCE TaskLedger WITH
    stored  <- {t \in Tasks : new[t] # None \/ cur[t] # None},
    holders <- [t \in Tasks |-> {w \in Workers : Holding(w) /\ task[w] = t}],
    revoked <- takenBack

\* The file operations of all workers and operators, deaths included, amount
\* to at-least-once delivery: every one of them is a step of TaskLedger or
\* changes nothing there.
DeliversAtLeastOnce == Ledger!LedgerSpec
=============================================================================
