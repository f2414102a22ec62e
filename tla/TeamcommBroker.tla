--------------------------- MODULE TeamcommBroker ---------------------------
(***************************************************************************)
(* The state behind the teamcomm daemon's JSON-RPC handlers                *)
(* (lib/teamcomm/crates/teamcomm-daemon/src/handlers.rs and state.rs).     *)
(*                                                                         *)
(* Every handler runs under one RwLock, so a handler is one step.  What is *)
(* read outside the lock is the time of a claim: handle_reservation_claim  *)
(* reads `now` before it waits for the lock, so a claim may run with any   *)
(* earlier time, and claims may be carried out in another order than their *)
(* times.  The daemon keeps nothing on disk: a restart empties the state,  *)
(* while its clients keep the ids they were given.                         *)
(*                                                                         *)
(* Ids are uuids; here they are numbers in minting order.  Heartbeats and  *)
(* live state are written by handlers and read back only by the queries:   *)
(* no other step depends on them, and they are left out.                   *)
(***************************************************************************)
EXTENDS Naturals, Sequences, FiniteSets

CONSTANTS
    Pids, Paths,
    Ttls,           \* the ttl_sec values of claims
    Limits,         \* the limit values of inbox.list; 0 is "no limit"
    MaxSessions, MaxReservations, MaxMessages,  \* bounds: ids ever minted
    MaxClock        \* bound: the time

ASSUME BrokerAssumption ==
    /\ Ttls \subseteq Nat /\ Limits \subseteq Nat
    /\ MaxSessions \in Nat /\ MaxReservations \in Nat /\ MaxMessages \in Nat
    /\ MaxClock \in Nat

Sids == 1..MaxSessions
Rids == 1..MaxReservations
Mids == 1..MaxMessages
Modes == {"Read", "Write", "Exclusive"}
None == 0

ASSUME PidsAreNotNone == None \notin Pids

VARIABLES
    sessions,       \* [Sids -> Pids \cup {None}]: the pid of a registered session
    sessions_by_pid,\* [Pids -> Sids \cup {None}]
    reservations,   \* a set of reservations
    inbox,          \* [Sids -> Seq(messages)]
    clock,
    lastSid, lastRid, lastMid,  \* ids minted so far
    offered,        \* history: how many unread_only listings returned a message
    picked          \* history: messages fetched one by one with inbox.read

idVars == <<lastSid, lastRid, lastMid>>
brokerVars == <<sessions, sessions_by_pid, reservations, inbox, clock, idVars,
                offered, picked>>

\* `told` is history: the reservations that the claim's answer named.
Reservation == [id : Rids, session_id : Sids, path : Paths, mode : Modes,
                acquired_at : Nat, expires_at : Nat, told : SUBSET Rids]
Message == [id : Mids, read : BOOLEAN]

BrokerTypeOK ==
    /\ sessions \in [Sids -> Pids \cup {None}]
    /\ sessions_by_pid \in [Pids -> Sids \cup {None}]
    /\ reservations \subseteq Reservation
    /\ inbox \in [Sids -> Seq(Message)]
    /\ clock \in 0..MaxClock
    /\ lastSid \in 0..MaxSessions /\ lastRid \in 0..MaxReservations
    /\ lastMid \in 0..MaxMessages
    /\ offered \in [Mids -> Nat] /\ picked \subseteq Mids

Empty ==
    /\ sessions' = [s \in Sids |-> None]
    /\ sessions_by_pid' = [p \in Pids |-> None]
    /\ reservations' = {}
    /\ inbox' = [s \in Sids |-> << >>]

BrokerInit ==
    /\ sessions = [s \in Sids |-> None]
    /\ sessions_by_pid = [p \in Pids |-> None]
    /\ reservations = {}
    /\ inbox = [s \in Sids |-> << >>]
    /\ clock = 0
    /\ lastSid = 0 /\ lastRid = 0 /\ lastMid = 0
    /\ offered = [m \in Mids |-> 0] /\ picked = {}
-----------------------------------------------------------------------------
\* insert_new_session, under a fresh id
InsertNewSession(p) ==
    /\ lastSid < MaxSessions
    /\ lastSid' = lastSid + 1
    /\ sessions' = [sessions EXCEPT ![lastSid'] = p]
    /\ sessions_by_pid' = [sessions_by_pid EXCEPT ![p] = lastSid']

\* session.register: the pid's session, when it has one, is only refreshed.
Known(p) == sessions_by_pid[p] # None /\ sessions[sessions_by_pid[p]] # None

Register(p) ==
    /\ ~Known(p)
    /\ InsertNewSession(p)
    /\ UNCHANGED <<reservations, inbox, clock, lastRid, lastMid, offered, picked>>

\* Mutant: the entry of the pid index stays.
Deregister_KeepsIndex(s) ==
    /\ sessions[s] # None
    /\ sessions' = [sessions EXCEPT ![s] = None]
    /\ UNCHANGED <<sessions_by_pid, reservations, inbox, clock, idVars, offered,
                   picked>>

\* session.deregister: an unknown session is a success, too.
Deregister(s) ==
    /\ sessions[s] # None
    /\ sessions' = [sessions EXCEPT ![s] = None]
    /\ sessions_by_pid' = [sessions_by_pid EXCEPT ![sessions[s]] = None]
    /\ UNCHANGED <<reservations, inbox, clock, idVars, offered, picked>>

\* Mutant: an exclusive claim does not see readers.
mode_conflicts_PastReaders(new, existing) ==
    CASE new = "Read" -> existing = "Exclusive"
      [] OTHER -> existing \in {"Write", "Exclusive"}

mode_conflicts(new, existing) ==
    CASE new = "Read" -> existing = "Exclusive"
      [] new = "Write" -> existing \in {"Write", "Exclusive"}
      [] new = "Exclusive" -> TRUE

Conflicts(s, path, mode, now) ==
    {r \in reservations : /\ r.path = path /\ r.session_id # s
                          /\ r.expires_at > now
                          /\ mode_conflicts(mode, r.mode)}

\* reservation.claim: the conflicts are reported, the claim is entered anyway.
Claim(s, path, mode, ttl, now) ==
    /\ now <= clock
    /\ sessions[s] # None
    /\ lastRid < MaxReservations
    /\ lastRid' = lastRid + 1
    /\ reservations' = reservations \cup
          {[id |-> lastRid', session_id |-> s, path |-> path, mode |-> mode,
            acquired_at |-> now, expires_at |-> now + ttl,
            told |-> {r.id : r \in Conflicts(s, path, mode, now)}]}
    /\ UNCHANGED <<sessions, sessions_by_pid, inbox, clock, lastSid, lastMid,
                   offered, picked>>

\* reservation.release: any client may name any reservation.
Release(r) ==
    /\ reservations' = reservations \ {r}
    /\ UNCHANGED <<sessions, sessions_by_pid, inbox, clock, idVars, offered, picked>>

\* reservation.list: the reservations that have not expired
LiveReservations == {r \in reservations : r.expires_at > clock}

\* inbox.post: the sender must be registered, the recipient need not be.
Post(from, to) ==
    /\ sessions[from] # None
    /\ lastMid < MaxMessages
    /\ lastMid' = lastMid + 1
    /\ inbox' = [inbox EXCEPT ![to] = Append(@, [id |-> lastMid', read |-> FALSE])]
    /\ UNCHANGED <<sessions, sessions_by_pid, reservations, clock, lastSid,
                   lastRid, offered, picked>>

\* The positions inbox.list returns: the first `limit` that pass the filter.
Matching(s, unread_only) ==
    {i \in DOMAIN inbox[s] : ~unread_only \/ ~inbox[s][i].read}

Listed(s, unread_only, limit) ==
    {i \in Matching(s, unread_only) :
        limit = 0 \/ Cardinality({j \in Matching(s, unread_only) : j < i}) < limit}

\* Mutant: of the messages returned, only the first is marked.
Marked_First(msgs, at) ==
    [i \in DOMAIN msgs |-> IF i \in at /\ \A j \in at : i <= j
                           THEN [msgs[i] EXCEPT !.read = TRUE] ELSE msgs[i]]

Marked(msgs, at) ==
    [i \in DOMAIN msgs |-> IF i \in at THEN [msgs[i] EXCEPT !.read = TRUE]
                                       ELSE msgs[i]]

\* inbox.list: what is returned is marked read under the same lock, before
\* the answer is written to a connection that may be gone.
InboxList(s, unread_only, limit) ==
    LET at == Listed(s, unread_only, limit)
        ids == {inbox[s][i].id : i \in at}
    IN  /\ at # {}
        /\ inbox' = [inbox EXCEPT ![s] = Marked(@, at)]
        /\ offered' = [m \in Mids |-> IF unread_only /\ m \in ids
                                      THEN offered[m] + 1 ELSE offered[m]]
        /\ UNCHANGED <<sessions, sessions_by_pid, reservations, clock, idVars,
                       picked>>

\* inbox.read: by message id, whoever the recipient is
InboxRead(s, i) ==
    /\ inbox' = [inbox EXCEPT ![s] = Marked(@, {i})]
    /\ picked' = picked \cup {inbox[s][i].id}
    /\ UNCHANGED <<sessions, sessions_by_pid, reservations, clock, idVars, offered>>

\* The daemon dies and is started again with new_state().
Restart ==
    /\ Empty
    /\ UNCHANGED <<clock, idVars, offered, picked>>

Tick == /\ clock < MaxClock
        /\ clock' = clock + 1
        /\ UNCHANGED <<sessions, sessions_by_pid, reservations, inbox, idVars,
                       offered, picked>>

BrokerNext ==
    \/ \E p \in Pids : Register(p)
    \/ \E s \in Sids : Deregister(s)
    \/ \E s \in Sids, path \in Paths, mode \in Modes, ttl \in Ttls,
          now \in 0..MaxClock : Claim(s, path, mode, ttl, now)
    \/ \E r \in reservations : Release(r)
    \/ \E from, to \in Sids : Post(from, to)
    \/ \E s \in Sids, unread_only \in BOOLEAN, limit \in Limits :
          InboxList(s, unread_only, limit)
    \/ \E s \in Sids : \E i \in DOMAIN inbox[s] : InboxRead(s, i)
    \/ Restart
    \/ Tick

BrokerSpec == BrokerInit /\ [][BrokerNext]_brokerVars
-----------------------------------------------------------------------------
\* sessions and sessions_by_pid are inverse to each other: a process has at
\* most one session, the one its pid leads to, however register, deregister
\* and restarts follow each other.  The "out of sync" branch of register is
\* therefore never taken.
PidIndexExact ==
    /\ \A s \in Sids : sessions[s] # None => sessions_by_pid[sessions[s]] = s
    /\ \A p \in Pids : sessions_by_pid[p] # None => sessions[sessions_by_pid[p]] = p

\* Of two reservations of different sessions whose modes exclude each other
\* on a path, while the earlier is still listed, the later claim's answer
\* named the earlier: no two agents both believe to hold a path alone.  The
\* claim's time was read before the lock was taken, and claims are entered in
\* another order than their times.
ConflictsReported ==
    \A e \in LiveReservations, l \in reservations :
        /\ e.id < l.id /\ e.session_id # l.session_id /\ e.path = l.path
        /\ mode_conflicts(e.mode, l.mode) \/ mode_conflicts(l.mode, e.mode)
        => e.id \in l.told

\* inbox.list never passes over a message: a message read before an older one
\* of the same inbox was fetched by its id.
InboxInOrder ==
    \A s \in Sids : \A i, j \in DOMAIN inbox[s] :
        i < j /\ inbox[s][j].read /\ ~inbox[s][i].read
            => inbox[s][j].id \in picked

\* Of several readers that poll an inbox with unread_only, one gets the
\* message: a message is returned by at most one such listing, and one that
\* is still unread was returned to nobody.
OfferedOnce ==
    /\ \A m \in Mids : offered[m] <= 1
    /\ \A s \in Sids : \A i \in DOMAIN inbox[s] :
          ~inbox[s][i].read => /\ offered[inbox[s][i].id] = 0
                               /\ inbox[s][i].id \notin picked
=============================================================================
