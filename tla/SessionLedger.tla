--------------------------- MODULE SessionLedger ----------------------------
(***************************************************************************)
(* The session ledger of crates/sharecli-session (lib.rs, discovery.rs,    *)
(* recovery.rs) as the IPC server and the `session watch` processes share  *)
(* it: observations of terminal surfaces are appended by scans and by      *)
(* session.observe, compacted by session.compact, and read by              *)
(* recovery.plan and recovery.execute.                                     *)
(*                                                                         *)
(* The store is one SQLite database: a transaction is a step.  A scan      *)
(* looks a surface up and appends to it in two transactions.  A plan reads *)
(* the clock, then the table; every observation that it passes over as     *)
(* malformed or future-dated is a line in the server's log.                *)
(*                                                                         *)
(* history is every observation ever appended, history[seq] the one with   *)
(* that sequence number; `stored` are the numbers the table still has.     *)
(***************************************************************************)
EXTENDS LogBuffer, Integers, FiniteSets

CONSTANTS
    Surfaces,   \* a set of numbers: the order of surface ids
    Ids,        \* a set of numbers: the order of session ids
    Evidence,   \* what a scan resolves: [id, resumable, state] or NoSession
    Reports,    \* what session.observe is sent: [surface, at, kind, session]
    Discoveries,    \* what the terminal adapter may find: sets of surfaces
    Scanners, Requests,
    Ages,       \* max_age_seconds of requests
    Parallel,   \* max_parallel of requests
    FirstNow, MaxNow, MaxSeq    \* bounds: clock, observations ever made

NoSession == [id |-> 0, resumable |-> FALSE, state |-> "none"]
Malformed == -1     \* an observed_at that does not parse
Sessions == [id : Ids, resumable : BOOLEAN, state : {"Pending", "Active", "Exited", "Unknown"}]
Kinds == {"Discovered", "Updated", "Exited", "Recovered"}

ASSUME LedgerAssumption ==
    /\ Surfaces \subseteq Nat \ {0} /\ Ids \subseteq Nat \ {0}
    /\ IsFiniteSet(Ids)
    /\ Evidence \subseteq Sessions \cup {NoSession}
    /\ Discoveries \subseteq SUBSET Surfaces
    /\ Reports \subseteq [surface : Surfaces, at : Nat \cup {Malformed},
                          kind : Kinds, session : Sessions \cup {NoSession}]
    /\ Ages \subseteq Nat \ {0} /\ Parallel \subseteq Nat
    /\ FirstNow \in Nat /\ MaxNow \in Nat /\ MaxSeq \in Nat

VARIABLES
    now, history, stored,
    sessions,   \* [Ids -> session or NoSession]: the materialized rows
    scan,       \* [Scanners -> [pc, at, todo, surface, kind, checked]]
    request     \* [Requests -> [pc, now, age, execute, parallel, warnings, todo, batch]]

storeVars == <<history, stored, sessions>>
ledgerVars == <<now, storeVars, scan, request>>
allVars == <<ledgerVars, logVars>>

IdleScan == [pc |-> "idle", at |-> 0, todo |-> {}, surface |-> 0,
             kind |-> "Updated", checked |-> 0]
NewRequest == [pc |-> "new", now |-> 0, age |-> 0, execute |-> FALSE,
               parallel |-> 0, warnings |-> 0, todo |-> {}, batch |-> {}]

Answered == [NewRequest EXCEPT !.pc = "done"]

LedgerInit ==
    /\ LogInit
    /\ now = FirstNow
    /\ history = << >> /\ stored = {}
    /\ sessions = [i \in Ids |-> NoSession]
    /\ scan = [k \in Scanners |-> IdleScan]
    /\ request = [r \in Requests |-> NewRequest]

Tick ==
    /\ now < MaxNow /\ now' = now + 1
    /\ UNCHANGED <<storeVars, scan, request, logVars>>
-----------------------------------------------------------------------------
\* `by` and `checked` are history: who appended, and how many observations
\* there were when a scan looked the surface up.
append_observation(surface, at, kind, session, by, checked) ==
    /\ Len(history) < MaxSeq
    /\ history' = Append(history, [surface |-> surface, at |-> at, kind |-> kind,
                                   session |-> session, by |-> by, checked |-> checked])
    /\ stored' = stored \cup {Len(history) + 1}
    /\ sessions' = IF session = NoSession THEN sessions
                   ELSE [sessions EXCEPT ![session.id] = session]

\* session.observe: time and kind are the client's
Observe(report) ==
    /\ append_observation(report.surface, report.at, report.kind, report.session,
                          "client", 0)
    /\ UNCHANGED <<now, scan, request, logVars>>

\* Mutant: the oldest observation of a surface is kept.
compact_observations_KeepsFirst ==
    /\ stored' = {k \in stored : \A j \in stored :
                     history[j].surface = history[k].surface => k <= j}
    /\ UNCHANGED <<now, history, sessions, scan, request, logVars>>

\* session.compact: MAX(seq) of every surface is kept.
compact_observations ==
    /\ stored' = {k \in stored : \A j \in stored :
                     history[j].surface = history[k].surface => j <= k}
    /\ UNCHANGED <<now, history, sessions, scan, request, logVars>>
-----------------------------------------------------------------------------
\* On to the next surface of the scan, or its end
Rest(at, found) ==
    IF found = {} THEN IdleScan
    ELSE [IdleScan EXCEPT !.pc = "next", !.at = at, !.todo = found]

\* A scan of `session watch`: observed_at is read before the surfaces.
\* MaxSeq bounds where a scan, and the look at a surface, may begin: once there
\* are MaxSeq observations it could append nothing.
ScanStart(k, found) ==
    /\ scan[k].pc = "idle" /\ Len(history) < MaxSeq
    /\ scan' = [scan EXCEPT ![k] = Rest(now, found)]
    /\ UNCHANGED <<now, storeVars, request, logVars>>

\* An adapter that fails for a surface is reported and the scan goes on.
ScanSkip(k, s) ==
    /\ scan[k].pc = "next" /\ s \in scan[k].todo
    /\ scan' = [scan EXCEPT ![k] = Rest(scan[k].at, scan[k].todo \ {s})]
    /\ UNCHANGED <<now, storeVars, request, logVars>>

\* A state provider that fails ends the scan.
ScanAbort(k) ==
    /\ scan[k].pc = "next"
    /\ scan' = [scan EXCEPT ![k] = IdleScan]
    /\ UNCHANGED <<now, storeVars, request, logVars>>

\* Mutant: only an earlier Discovered makes the surface known.
ScanCheck_NoDiscovered(k, s) ==
    /\ scan[k].pc = "next" /\ s \in scan[k].todo /\ Len(history) < MaxSeq
    /\ scan' = [scan EXCEPT ![k].pc = "append", ![k].surface = s,
                            ![k].todo = @ \ {s}, ![k].checked = Len(history),
                            ![k].kind = IF \E j \in stored : /\ history[j].surface = s
                                                            /\ history[j].kind = "Discovered"
                                        THEN "Updated" ELSE "Discovered"]
    /\ UNCHANGED <<now, storeVars, request, logVars>>

\* The first transaction of a surface: is it in the table?
ScanCheck(k, s) ==
    /\ scan[k].pc = "next" /\ s \in scan[k].todo /\ Len(history) < MaxSeq
    /\ scan' = [scan EXCEPT ![k].pc = "append", ![k].surface = s,
                            ![k].todo = @ \ {s}, ![k].checked = Len(history),
                            ![k].kind = IF \E j \in stored : history[j].surface = s
                                        THEN "Updated" ELSE "Discovered"]
    /\ UNCHANGED <<now, storeVars, request, logVars>>

ScanAppend(k, session) ==
    /\ scan[k].pc = "append"
    /\ append_observation(scan[k].surface, scan[k].at, scan[k].kind, session, "scan",
                          scan[k].checked)
    /\ scan' = [scan EXCEPT ![k] = Rest(scan[k].at, scan[k].todo)]
    /\ UNCHANGED <<now, request, logVars>>
-----------------------------------------------------------------------------
Parsed(k) == history[k].at # Malformed
\* An observation that a plan made at time n for an age does not pass over
Fresh(k, n, age) == Parsed(k) /\ history[k].at <= n /\ n - age <= history[k].at

\* The newest fresh observation of a surface by (observed_at, seq), if any
Latest(seqs, s, n, age) ==
    {k \in seqs : /\ history[k].surface = s /\ Fresh(k, n, age)
                  /\ \A j \in seqs : (history[j].surface = s /\ Fresh(j, n, age)) =>
                        \/ history[j].at < history[k].at
                        \/ history[j].at = history[k].at /\ j <= k}

Resumable(k) == history[k].kind # "Exited" /\ history[k].session.resumable

\* Sessions by id; of two surfaces with the same session the larger one wins.
Plan(n, age) ==
    LET picked == {k \in UNION {Latest(stored, s, n, age) : s \in Surfaces} : Resumable(k)}
    IN  {history[k].session : k \in
            {k \in picked : \A j \in picked :
                history[j].session.id = history[k].session.id =>
                    history[j].surface <= history[k].surface}}

\* recovery.plan and recovery.execute: the clock is read before the table.
PlanStart(r, age, execute, parallel) ==
    /\ request[r].pc = "new"
    /\ request' = [request EXCEPT ![r] = [NewRequest EXCEPT
          !.pc = "read", !.now = now, !.age = age,
          !.execute = execute, !.parallel = parallel]]
    /\ UNCHANGED <<now, storeVars, scan, logVars>>

\* The plan is all that is kept: its time and age are not looked at again.
PlanRead(r) ==
    /\ request[r].pc = "read"
    /\ LET n == request[r].now
           ignored == {k \in stored : ~Parsed(k) \/ history[k].at > n}
       IN  request' = [request EXCEPT ![r].pc = "warn", ![r].now = 0, ![r].age = 0,
                          ![r].warnings = Cardinality(ignored),
                          ![r].todo = Plan(n, request[r].age)]
    /\ UNCHANGED <<now, storeVars, scan, logVars>>

\* One line of the server's log for every observation passed over
PlanWarn(r) ==
    /\ request[r].pc = "warn" /\ request[r].warnings > 0
    /\ Push
    /\ request' = [request EXCEPT ![r].warnings = @ - 1]
    /\ UNCHANGED <<now, storeVars, scan>>

\* A plan, or a dry run of one, is answered; otherwise the batches begin.
PlanDone(r) ==
    /\ request[r].pc = "warn" /\ request[r].warnings = 0
    /\ request' = [request EXCEPT ![r] =
          IF request[r].execute THEN [request[r] EXCEPT !.pc = "execute"] ELSE Answered]
    /\ UNCHANGED <<now, storeVars, scan, logVars>>

\* Mutant: max_parallel is taken as it comes.
BatchSize_Unclamped(parallel) == parallel

BatchSize(parallel) == IF parallel = 0 THEN 1 ELSE parallel

\* The next chunk of the plan, in the order of ids; its threads are joined
\* before the one after it.
NextBatch(r) ==
    /\ request[r].pc = "execute" /\ request[r].batch = {} /\ request[r].todo # {}
    /\ LET todo == request[r].todo
           chunk == {x \in todo : Cardinality({y \in todo : y.id < x.id})
                                    < BatchSize(request[r].parallel)}
       IN  /\ chunk # {}
           /\ request' = [request EXCEPT ![r].batch = chunk, ![r].todo = todo \ chunk]
    /\ UNCHANGED <<now, storeVars, scan, logVars>>

\* launch: a session in state Unknown is refused; whether the command can be
\* started is the host's, and nothing is recorded either way.
Launch(r, x) ==
    /\ x \in request[r].batch
    /\ request' = [request EXCEPT ![r].batch = @ \ {x}]
    /\ UNCHANGED <<now, storeVars, scan, logVars>>

ExecuteDone(r) ==
    /\ request[r].pc = "execute" /\ request[r].batch = {} /\ request[r].todo = {}
    /\ request' = [request EXCEPT ![r] = Answered]
    /\ UNCHANGED <<now, storeVars, scan, logVars>>

Serve(r) ==
    \/ PlanRead(r) \/ PlanWarn(r) \/ PlanDone(r) \/ NextBatch(r) \/ ExecuteDone(r)
    \/ \E x \in request[r].batch : Launch(r, x)

LedgerNext ==
    \/ Tick \/ compact_observations
    \/ \E report \in Reports : Observe(report)
    \/ \E k \in Scanners :
        \/ \E found \in Discoveries : ScanStart(k, found)
        \/ ScanAbort(k)
        \/ \E s \in Surfaces : ScanSkip(k, s) \/ ScanCheck(k, s)
        \/ \E e \in Evidence : ScanAppend(k, e)
    \/ \E r \in Requests :
        \/ \E age \in Ages, execute \in BOOLEAN, parallel \in Parallel :
              PlanStart(r, age, execute, parallel)
        \/ Serve(r)
    \/ Poll /\ UNCHANGED ledgerVars

LedgerSpec ==
    /\ LedgerInit /\ [][LedgerNext]_allVars
    /\ \A r \in Requests : WF_allVars(Serve(r))
-----------------------------------------------------------------------------
LedgerTypeOK ==
    /\ now \in Nat
    /\ history \in Seq([surface : Surfaces, at : Nat \cup {Malformed}, kind : Kinds,
                        session : Sessions \cup {NoSession},
                        by : {"client", "scan"}, checked : Nat])
    /\ stored \subseteq DOMAIN history
    /\ sessions \in [Ids -> Sessions \cup {NoSession}]
    /\ scan \in [Scanners -> [pc : {"idle", "next", "append"}, at : Nat,
                              todo : SUBSET Surfaces, surface : Surfaces \cup {0},
                              kind : {"Discovered", "Updated"}, checked : Nat]]
    /\ request \in [Requests -> [pc : {"new", "read", "warn", "execute", "done"},
                                 now : Nat, age : Nat, execute : BOOLEAN, parallel : Nat,
                                 warnings : Nat, todo : SUBSET Sessions,
                                 batch : SUBSET Sessions]]

\* The observation of a surface that was appended last is also its newest, as
\* of time n: it parses, is not future-dated and no earlier one is newer.
LastIsNewest(s, n) ==
    \E k \in DOMAIN history :
        /\ history[k].surface = s /\ Parsed(k) /\ history[k].at <= n
        /\ \A j \in DOMAIN history : history[j].surface = s =>
              /\ j <= k
              /\ (Parsed(j) /\ history[j].at <= n) => history[j].at <= history[k].at

\* Compaction does not change what recovery does: for a surface whose last
\* observation is its newest, the stored observations give the plan that all
\* observations ever made would give, for any time of the plan and any age.
PlanFollowsHistory ==
    \A s \in Surfaces, n \in 0..now, age \in Ages :
        LastIsNewest(s, n) =>
            Latest(stored, s, n, age) = Latest(DOMAIN history, s, n, age)

\* A surface is discovered once: a scan that recorded it as Discovered had
\* looked it up before any earlier observation of it was appended, whatever
\* was compacted in between.
DiscoveredOnce ==
    \A j, k \in DOMAIN history :
        /\ j < k /\ history[j].surface = history[k].surface
        /\ history[k].by = "scan" /\ history[k].kind = "Discovered"
        => history[k].checked < j

\* Every recovery request is answered, whatever max_parallel it asks for and
\* however the ledger, the clock and the log go on.
RequestAnswered ==
    \A r \in Requests : request[r].pc = "read" ~> request[r].pc = "done"
=============================================================================
