------------------------- MODULE SessionLedgerProofs ------------------------
(***************************************************************************)
(* Compaction and scans of SessionLedger for any surfaces, sessions,       *)
(* scanners, requests, reports and ages, and for histories of any length.  *)
(*                                                                         *)
(* Those rest on one fact: of every surface that was ever observed the     *)
(* last observation is stored. The log follower comes last: it is complete *)
(* for any ring, any answer size and any number of lines, since the ring   *)
(* holds consecutive ids.                                                  *)
(***************************************************************************)
EXTENDS SessionLedger, FiniteSetTheorems, TLAPS

\* A leaf is tried with SMT, then with Zenon, with time to spare on a busy machine.
USE SMTT(30), ZenonT(30)

Observation == [surface : Surfaces, at : Int, kind : Kinds,
                session : Sessions \cup {NoSession},
                by : {"client", "scan"}, checked : Nat]

\* The state that compaction and scans work on
StoreOK ==
    /\ history \in Seq(Observation)
    /\ stored \subseteq DOMAIN history

\* The last observation of every surface is stored.
LastStored ==
    \A i \in DOMAIN history : \E k \in stored :
        /\ history[k].surface = history[i].surface
        /\ \A j \in DOMAIN history : history[j].surface = history[i].surface => j <= k

\* What a scan between its two transactions knows
ScanOK ==
    /\ scan \in [Scanners -> [pc : {"idle", "next", "append"}, at : Nat,
                              todo : SUBSET Surfaces, surface : Surfaces \cup {0},
                              kind : {"Discovered", "Updated"}, checked : Nat]]
    /\ \A k \in Scanners : scan[k].pc = "append" =>
          /\ scan[k].surface \in Surfaces
          /\ scan[k].checked <= Len(history)
          /\ scan[k].kind = "Discovered" =>
                \A j \in DOMAIN history :
                    history[j].surface = scan[k].surface => scan[k].checked < j

LedgerIInv ==
    /\ now \in Nat
    /\ StoreOK /\ LastStored /\ ScanOK /\ DiscoveredOnce

\* What is appended becomes the last observation of its surface.
LEMMA AppendKeeps ==
    ASSUME StoreOK, LastStored, NEW new \in Observation,
           history' = Append(history, new), stored' = stored \cup {Len(history) + 1}
    PROVE  /\ StoreOK' /\ LastStored'
           /\ DOMAIN history' = DOMAIN history \cup {Len(history) + 1}
           /\ Len(history') = Len(history) + 1
           /\ Len(history) \in Nat /\ DOMAIN history = 1..Len(history)
           /\ \A i \in DOMAIN history : history'[i] = history[i]
           /\ history'[Len(history) + 1] = new
<1> DEFINE top == Len(history) + 1
<1>2. history' = Append(history, new) /\ stored' = stored \cup {top}
  OBVIOUS
<1>3. history \in Seq(Observation) /\ stored \subseteq DOMAIN history
  BY DEF StoreOK
<1>4. Len(history) \in Nat /\ DOMAIN history = 1..Len(history)
  BY <1>3
<1>5. /\ history' \in Seq(Observation)
      /\ DOMAIN history' = 1..top /\ Len(history') = top
      /\ \A i \in 1..Len(history) : history'[i] = history[i]
      /\ history'[top] = new
  BY <1>2, <1>3, <1>4
<1>6. DOMAIN history' = DOMAIN history \cup {top}
  BY <1>4, <1>5
<1>7. StoreOK'
  BY <1>2, <1>3, <1>5, <1>6 DEF StoreOK
<1>8. LastStored'
  <2> SUFFICES ASSUME NEW i \in DOMAIN history'
               PROVE  \E k \in stored' :
                        /\ history'[k].surface = history'[i].surface
                        /\ \A j \in DOMAIN history' :
                              history'[j].surface = history'[i].surface => j <= k
    BY Zenon DEF LastStored
  <2>1. CASE history'[i].surface = history'[top].surface
    <3>1. top \in stored'
      BY <1>2
    <3>2. \A j \in DOMAIN history' : j <= top
      BY <1>4, <1>5
    <3> QED
      BY <2>1, <3>1, <3>2
  <2>2. CASE history'[i].surface # history'[top].surface
    <3>1. i \in DOMAIN history /\ history'[i] = history[i]
      BY <2>2, <1>4, <1>5, <1>6
    <3>2. PICK k \in stored :
             /\ history[k].surface = history[i].surface
             /\ \A j \in DOMAIN history : history[j].surface = history[i].surface => j <= k
      BY <3>1 DEF LastStored
    <3>3. k \in stored' /\ history'[k] = history[k]
      BY <1>2, <1>3, <1>4, <1>5
    <3>4. ASSUME NEW j \in DOMAIN history', history'[j].surface = history'[i].surface
          PROVE  j <= k
      <4>1. j \in DOMAIN history /\ history'[j] = history[j]
        BY <3>4, <2>2, <1>4, <1>5, <1>6
      <4> QED
        BY <4>1, <3>1, <3>2, <3>4
    <3> QED
      BY <3>1, <3>2, <3>3, <3>4, Zenon
  <2> QED
    BY <2>1, <2>2, Zenon
<1> QED
  BY <1>4, <1>5, <1>6, <1>7, <1>8

\* A step that leaves the table and the scans alone
LEMMA SameStore ==
    ASSUME LedgerIInv, UNCHANGED <<history, stored, scan>>, now' \in Nat
    PROVE  LedgerIInv'
<1>1. StoreOK' /\ LastStored'
  BY DEF LedgerIInv, StoreOK, LastStored
<1>2. ScanOK'
  BY DEF LedgerIInv, ScanOK
<1>3. DiscoveredOnce'
  BY DEF LedgerIInv, DiscoveredOnce
<1> QED
  BY <1>1, <1>2, <1>3 DEF LedgerIInv

\* A step of one scanner between appends: what it sets is what it knows.
LEMMA ScanMoves ==
    ASSUME LedgerIInv, UNCHANGED <<now, history, stored>>,
           NEW c \in Scanners,
           NEW new \in [pc : {"idle", "next", "append"}, at : Nat,
                        todo : SUBSET Surfaces, surface : Surfaces \cup {0},
                        kind : {"Discovered", "Updated"}, checked : Nat],
           scan' = [scan EXCEPT ![c] = new],
           new.pc = "append" =>
              /\ new.surface \in Surfaces
              /\ new.checked <= Len(history)
              /\ new.kind = "Discovered" =>
                    \A j \in DOMAIN history :
                        history[j].surface = new.surface => new.checked < j
    PROVE  LedgerIInv'
<1>1. StoreOK' /\ LastStored' /\ DiscoveredOnce'
  BY DEF LedgerIInv, StoreOK, LastStored, DiscoveredOnce
<1>2. scan \in [Scanners -> [pc : {"idle", "next", "append"}, at : Nat,
                              todo : SUBSET Surfaces, surface : Surfaces \cup {0},
                              kind : {"Discovered", "Updated"}, checked : Nat]]
  BY DEF LedgerIInv, ScanOK
<1>3. /\ scan' \in [Scanners -> [pc : {"idle", "next", "append"}, at : Nat,
                              todo : SUBSET Surfaces, surface : Surfaces \cup {0},
                              kind : {"Discovered", "Updated"}, checked : Nat]]
      /\ scan'[c] = new
      /\ \A k \in Scanners : k # c => scan'[k] = scan[k]
  BY <1>2
<1>4. ASSUME NEW k \in Scanners, scan'[k].pc = "append"
      PROVE  /\ scan'[k].surface \in Surfaces
             /\ scan'[k].checked <= Len(history)
             /\ scan'[k].kind = "Discovered" =>
                   \A j \in DOMAIN history :
                       history[j].surface = scan'[k].surface => scan'[k].checked < j
  <2>1. CASE k = c
    BY <2>1, <1>3, <1>4
  <2>2. CASE k # c
    BY <2>2, <1>3, <1>4 DEF LedgerIInv, ScanOK
  <2> QED
    BY <2>1, <2>2
<1>5. ScanOK'
  BY <1>3, <1>4 DEF ScanOK
<1> QED
  BY <1>1, <1>5 DEF LedgerIInv

\* An append keeps what scans know; the new entry is Discovered by a scan only
\* if every earlier one of its surface came after the scan's look.
LEMMA AppendStep ==
    ASSUME LedgerIInv, now' = now, NEW new \in Observation,
           history' = Append(history, new), stored' = stored \cup {Len(history) + 1},
           (new.by = "scan" /\ new.kind = "Discovered") =>
              \A j \in DOMAIN history : history[j].surface = new.surface => new.checked < j
    PROVE  /\ now' \in Nat /\ StoreOK' /\ LastStored' /\ DiscoveredOnce'
           /\ \A k \in Scanners : scan[k].pc = "append" =>
                 /\ scan[k].surface \in Surfaces
                 /\ scan[k].checked <= Len(history')
                 /\ scan[k].kind = "Discovered" =>
                       \A j \in DOMAIN history' :
                           history'[j].surface = scan[k].surface => scan[k].checked < j
<1> DEFINE top == Len(history) + 1
<1>1. StoreOK /\ LastStored
  BY DEF LedgerIInv
<1>2. /\ StoreOK' /\ LastStored'
      /\ DOMAIN history' = DOMAIN history \cup {top}
      /\ Len(history') = top
      /\ Len(history) \in Nat /\ DOMAIN history = 1..Len(history)
      /\ \A i \in DOMAIN history : history'[i] = history[i]
      /\ history'[top] = new
  BY <1>1, AppendKeeps
<1>4. \A j \in DOMAIN history : j < top /\ j \in Nat
  BY <1>2
<1>5. DiscoveredOnce'
  <2> SUFFICES ASSUME NEW j \in DOMAIN history', NEW k \in DOMAIN history', j < k,
                      history'[j].surface = history'[k].surface,
                      history'[k].by = "scan", history'[k].kind = "Discovered"
               PROVE  history'[k].checked < j
    BY DEF DiscoveredOnce
  <2>1. j \in DOMAIN history
    BY <1>2, <1>4
  <2>2. CASE k = top
    BY <2>1, <2>2, <1>2
  <2>3. CASE k # top
    <3>1. k \in DOMAIN history /\ history'[k] = history[k] /\ history'[j] = history[j]
      BY <2>1, <2>3, <1>2
    <3> QED
      BY <3>1, <2>1 DEF LedgerIInv, DiscoveredOnce
  <2> QED
    BY <2>2, <2>3
<1>6. ASSUME NEW k \in Scanners, scan[k].pc = "append"
      PROVE  /\ scan[k].surface \in Surfaces
             /\ scan[k].checked <= Len(history')
             /\ scan[k].kind = "Discovered" =>
                   \A j \in DOMAIN history' :
                       history'[j].surface = scan[k].surface => scan[k].checked < j
  <2>1. /\ scan[k].surface \in Surfaces
        /\ scan[k].checked <= Len(history) /\ scan[k].checked \in Nat
        /\ scan[k].kind = "Discovered" =>
              \A j \in DOMAIN history :
                  history[j].surface = scan[k].surface => scan[k].checked < j
    BY <1>6 DEF LedgerIInv, ScanOK
  <2>2. scan[k].checked <= Len(history') /\ scan[k].checked < top
    BY <2>1, <1>2
  <2> QED
    BY <2>1, <2>2, <1>2
<1> QED
  BY <1>2, <1>5, <1>6 DEF LedgerIInv

\* The inductive invariant of the ledger holds initially.
LEMMA LedgerInitially == LedgerInit => LedgerIInv
<1> SUFFICES ASSUME LedgerInit PROVE LedgerIInv
  OBVIOUS
<1>1. history = << >> /\ stored = {} /\ now \in Nat
  BY LedgerAssumption DEF LedgerInit
<1>2. IdleScan \in [pc : {"idle", "next", "append"}, at : Nat,
                    todo : SUBSET Surfaces, surface : Surfaces \cup {0},
                    kind : {"Discovered", "Updated"}, checked : Nat]
      /\ IdleScan.pc = "idle"
  BY DEF IdleScan
<1>3. ScanOK
  BY <1>2 DEF LedgerInit, ScanOK
<1>4. StoreOK /\ LastStored /\ DiscoveredOnce
  BY <1>1 DEF StoreOK, LastStored, DiscoveredOnce
<1> QED
  BY <1>1, <1>3, <1>4 DEF LedgerIInv

\* Compaction takes away no observation that is its surface's last.
LEMMA CompactKeeps ==
    ASSUME LedgerIInv, compact_observations
    PROVE  LedgerIInv'
<1>1. /\ history \in Seq(Observation) /\ stored \subseteq DOMAIN history
      /\ history' = history /\ stored' \subseteq stored
  BY DEF LedgerIInv, StoreOK, compact_observations
<1>2. LastStored'
  <2> SUFFICES ASSUME NEW i \in DOMAIN history
               PROVE  \E k \in stored' :
                        /\ history[k].surface = history[i].surface
                        /\ \A j \in DOMAIN history :
                              history[j].surface = history[i].surface => j <= k
    BY <1>1 DEF LastStored
  <2>1. PICK k \in stored :
           /\ history[k].surface = history[i].surface
           /\ \A j \in DOMAIN history : history[j].surface = history[i].surface => j <= k
    BY DEF LedgerIInv, LastStored
  <2>2. k \in stored'
    BY <2>1, <1>1 DEF compact_observations
  <2> QED
    BY <2>1, <2>2
<1>3. StoreOK' /\ DiscoveredOnce' /\ ScanOK' /\ now' \in Nat
  BY <1>1 DEF LedgerIInv, StoreOK, DiscoveredOnce, ScanOK, compact_observations
<1> QED
  BY <1>2, <1>3 DEF LedgerIInv

\* The steps of a scan keep the inductive invariant of the ledger.
LEMMA ScanStep ==
    ASSUME LedgerIInv, NEW k \in Scanners,
           \/ \E found \in Discoveries : ScanStart(k, found)
           \/ ScanAbort(k)
           \/ \E s \in Surfaces : ScanSkip(k, s) \/ ScanCheck(k, s)
           \/ \E e \in Evidence : ScanAppend(k, e)
    PROVE  LedgerIInv'
<1> DEFINE States == [pc : {"idle", "next", "append"}, at : Nat,
                      todo : SUBSET Surfaces, surface : Surfaces \cup {0},
                      kind : {"Discovered", "Updated"}, checked : Nat]
<1>1. scan \in [Scanners -> States] /\ now \in Nat
  BY DEF LedgerIInv, ScanOK
<1>2. \A at \in Nat, found \in SUBSET Surfaces :
         Rest(at, found) \in States /\ Rest(at, found).pc # "append"
  BY Zenon DEF Rest, IdleScan
<1>3. IdleScan \in States /\ IdleScan.pc # "append"
  BY DEF IdleScan
<1>4. scan[k] \in States /\ scan[k].at \in Nat /\ scan[k].todo \in SUBSET Surfaces
  BY <1>1
<1>5. ASSUME NEW found \in Discoveries, ScanStart(k, found)
      PROVE  LedgerIInv'
  <2>1. found \in SUBSET Surfaces
    BY LedgerAssumption
  <2>2. /\ scan' = [scan EXCEPT ![k] = Rest(now, found)]
        /\ UNCHANGED <<now, history, stored>>
    BY <1>5 DEF ScanStart, storeVars
  <2>3. Rest(now, found) \in States /\ Rest(now, found).pc # "append"
    BY <2>1, <1>1, <1>2
  <2> QED
    BY <2>2, <2>3, ScanMoves, Zenon
<1>6. ASSUME ScanAbort(k)
      PROVE  LedgerIInv'
  <2>1. /\ scan' = [scan EXCEPT ![k] = IdleScan]
        /\ UNCHANGED <<now, history, stored>>
    BY <1>6 DEF ScanAbort, storeVars
  <2> QED
    BY <2>1, <1>3, ScanMoves, Zenon
<1>7. ASSUME NEW s \in Surfaces, ScanSkip(k, s)
      PROVE  LedgerIInv'
  <2> DEFINE new == Rest(scan[k].at, scan[k].todo \ {s})
  <2>1. /\ scan' = [scan EXCEPT ![k] = new]
        /\ UNCHANGED <<now, history, stored>>
    BY <1>7 DEF ScanSkip, storeVars
  <2>2. new \in States /\ new.pc # "append"
    BY <1>2, <1>4
  <2> HIDE DEF new
  <2> QED
    BY <2>1, <2>2, ScanMoves, Zenon
<1>8. ASSUME NEW s \in Surfaces, ScanCheck(k, s)
      PROVE  LedgerIInv'
  <2> DEFINE found == IF \E j \in stored : history[j].surface = s
                      THEN "Updated" ELSE "Discovered"
             new == [scan[k] EXCEPT !.pc = "append", !.surface = s,
                                    !.todo = scan[k].todo \ {s},
                                    !.checked = Len(history), !.kind = found]
  <2>1. scan' = [scan EXCEPT ![k] = new] /\ UNCHANGED <<now, history, stored>>
    BY <1>1, <1>4, <1>8, Zenon DEF ScanCheck, storeVars
  <2>2. Len(history) \in Nat
    BY DEF LedgerIInv, StoreOK
  <2>3. /\ new \in States /\ new.surface = s /\ new.kind = found
        /\ new.checked = Len(history)
    BY <1>4, <2>2, Zenon
  <2>4. found = "Discovered" =>
          \A j \in DOMAIN history : history[j].surface # s
    BY DEF LedgerIInv, LastStored
  <2>5. /\ new.surface \in Surfaces
        /\ new.checked <= Len(history)
        /\ new.kind = "Discovered" =>
              \A j \in DOMAIN history :
                  history[j].surface = new.surface => new.checked < j
    <3> HIDE DEF found, new
    <3>1. new.checked <= Len(history)
      BY <2>2, <2>3
    <3> QED
      BY <3>1, <2>3, <2>4
  <2> HIDE DEF found, new
  <2> QED
    BY <2>1, <2>3, <2>5, ScanMoves, Zenon
<1>9. ASSUME NEW e \in Evidence, ScanAppend(k, e)
      PROVE  LedgerIInv'
  <2> DEFINE new == [surface |-> scan[k].surface, at |-> scan[k].at,
                     kind |-> scan[k].kind, session |-> e,
                     by |-> "scan", checked |-> scan[k].checked]
             rest == Rest(scan[k].at, scan[k].todo)
  <2>1. /\ scan[k].pc = "append" /\ now' = now
        /\ scan' = [scan EXCEPT ![k] = rest]
        /\ history' = Append(history, new) /\ stored' = stored \cup {Len(history) + 1}
    BY <1>9 DEF ScanAppend, append_observation
  <2>2. /\ scan[k].surface \in Surfaces
        /\ scan[k].kind = "Discovered" =>
              \A j \in DOMAIN history :
                  history[j].surface = scan[k].surface => scan[k].checked < j
    BY <2>1 DEF LedgerIInv, ScanOK
  <2>3. scan[k].kind \in Kinds /\ scan[k].at \in Int /\ scan[k].checked \in Nat
    BY <1>4 DEF Kinds
  <2>4. new \in Observation
    BY <2>2, <2>3, LedgerAssumption DEF Observation
  <2>5. /\ new.surface = scan[k].surface /\ new.kind = scan[k].kind
        /\ new.checked = scan[k].checked
    OBVIOUS
  <2>6. rest \in States /\ rest.pc # "append"
    BY <1>2, <1>4
  <2> HIDE DEF new, rest
  <2>7. /\ now' \in Nat /\ StoreOK' /\ LastStored' /\ DiscoveredOnce'
        /\ \A c \in Scanners : scan[c].pc = "append" =>
              /\ scan[c].surface \in Surfaces
              /\ scan[c].checked <= Len(history')
              /\ scan[c].kind = "Discovered" =>
                    \A j \in DOMAIN history' :
                        history'[j].surface = scan[c].surface => scan[c].checked < j
    BY <2>1, <2>2, <2>4, <2>5, AppendStep, Zenon
  <2>8. /\ scan' \in [Scanners -> States] /\ scan'[k] = rest
        /\ \A c \in Scanners : c # k => scan'[c] = scan[c]
    BY <2>1, <2>6, <1>1
  <2>9. ScanOK'
    BY <2>6, <2>7, <2>8 DEF ScanOK
  <2> QED
    BY <2>7, <2>9 DEF LedgerIInv
<1> QED
  BY <1>5, <1>6, <1>7, <1>8, <1>9

\* Every step keeps the inductive invariant of the ledger.
LEMMA LedgerStep == LedgerIInv /\ [LedgerNext]_allVars => LedgerIInv'
<1> SUFFICES ASSUME LedgerIInv, [LedgerNext]_allVars PROVE LedgerIInv'
  OBVIOUS
<1>1. now \in Nat
  BY DEF LedgerIInv
<1>2. CASE Tick
  BY <1>1, <1>2, SameStore DEF Tick, storeVars
<1>3. CASE compact_observations
  BY <1>3, CompactKeeps
<1>4. ASSUME NEW report \in Reports, Observe(report)
      PROVE  LedgerIInv'
  <2> DEFINE new == [surface |-> report.surface, at |-> report.at,
                     kind |-> report.kind, session |-> report.session,
                     by |-> "client", checked |-> 0]
  <2>1. /\ now' = now /\ scan' = scan
        /\ history' = Append(history, new) /\ stored' = stored \cup {Len(history) + 1}
    BY <1>4 DEF Observe, append_observation
  <2>2. /\ report.surface \in Surfaces /\ report.at \in Int /\ report.kind \in Kinds
        /\ report.session \in Sessions \cup {NoSession}
    BY LedgerAssumption DEF Malformed
  <2>3. new \in Observation /\ new.by = "client"
    BY <2>2 DEF Observation
  <2> HIDE DEF new
  <2>4. /\ now' \in Nat /\ StoreOK' /\ LastStored' /\ DiscoveredOnce'
        /\ \A c \in Scanners : scan[c].pc = "append" =>
              /\ scan[c].surface \in Surfaces
              /\ scan[c].checked <= Len(history')
              /\ scan[c].kind = "Discovered" =>
                    \A j \in DOMAIN history' :
                        history'[j].surface = scan[c].surface => scan[c].checked < j
    BY <2>1, <2>3, AppendStep
  <2>5. ScanOK'
    BY <2>1, <2>4 DEF LedgerIInv, ScanOK
  <2> QED
    BY <2>4, <2>5 DEF LedgerIInv
<1>5. ASSUME NEW k \in Scanners,
             \/ \E found \in Discoveries : ScanStart(k, found)
             \/ ScanAbort(k)
             \/ \E s \in Surfaces : ScanSkip(k, s) \/ ScanCheck(k, s)
             \/ \E e \in Evidence : ScanAppend(k, e)
      PROVE  LedgerIInv'
  BY <1>5, ScanStep
<1>6. ASSUME NEW r \in Requests,
             \/ \E age \in Ages, execute \in BOOLEAN, parallel \in Parallel :
                   PlanStart(r, age, execute, parallel)
             \/ Serve(r)
      PROVE  LedgerIInv'
  <2>1. UNCHANGED <<now, history, stored, scan>>
    BY <1>6, Zenon DEF PlanStart, Serve, PlanRead, PlanWarn, PlanDone, NextBatch,
                Launch, ExecuteDone, storeVars
  <2> QED
    BY <2>1, <1>1, SameStore
<1>7. CASE Poll /\ UNCHANGED ledgerVars
  BY <1>1, <1>7, SameStore DEF ledgerVars, storeVars
<1>8. CASE UNCHANGED allVars
  BY <1>1, <1>8, SameStore DEF allVars, ledgerVars, storeVars
<1> QED
  BY <1>2, <1>3, <1>4, <1>5, <1>6, <1>7, <1>8 DEF LedgerNext

\* The inductive invariant holds in every reachable state of the ledger.
LEMMA LedgerInvariant == LedgerSpec => []LedgerIInv
<1> QED
  BY LedgerInitially, LedgerStep, PTL DEF LedgerSpec

\* A surface that is not yet in the table was never observed, so a second
\* Discovered of it comes from a scan that looked before the first append.
THEOREM SurfacesDiscoveredOnce == LedgerSpec => []DiscoveredOnce
<1>1. LedgerIInv => DiscoveredOnce
  BY DEF LedgerIInv
<1> QED
  BY <1>1, LedgerInvariant, PTL

\* The last observation is stored and, being the newest, is the one that both
\* the table and the full history yield, or is itself too old, and then all
\* others are.
LEMMA PlanFromLast == LedgerIInv => PlanFollowsHistory
<1> SUFFICES ASSUME LedgerIInv, NEW s \in Surfaces, NEW n \in 0..now, NEW age \in Ages,
                    LastIsNewest(s, n)
             PROVE  Latest(stored, s, n, age) = Latest(DOMAIN history, s, n, age)
  BY DEF PlanFollowsHistory
<1>1. /\ history \in Seq(Observation) /\ stored \subseteq DOMAIN history
      /\ DOMAIN history \subseteq Nat
      /\ n \in Int /\ age \in Int
      /\ \A j \in DOMAIN history : history[j].at \in Int
  <2>1. history \in Seq(Observation) /\ stored \subseteq DOMAIN history /\ now \in Nat
    BY DEF LedgerIInv, StoreOK
  <2>2. \A o \in Observation : o.at \in Int
    BY DEF Observation
  <2>3. DOMAIN history \subseteq Nat /\ \A j \in DOMAIN history : history[j] \in Observation
    BY <2>1
  <2>4. n \in Int /\ age \in Int
    BY <2>1, LedgerAssumption
  <2> QED
    BY <2>1, <2>2, <2>3, <2>4
<1>2. PICK k \in DOMAIN history :
         /\ history[k].surface = s /\ Parsed(k) /\ history[k].at <= n
         /\ \A j \in DOMAIN history : history[j].surface = s =>
               /\ j <= k
               /\ (Parsed(j) /\ history[j].at <= n) => history[j].at <= history[k].at
  BY DEF LastIsNewest
<1>3. k \in stored
  <2>1. PICK l \in stored :
           /\ history[l].surface = s
           /\ \A j \in DOMAIN history : history[j].surface = s => j <= l
    BY <1>2 DEF LedgerIInv, LastStored
  <2>2. k <= l /\ l <= k /\ k \in Nat /\ l \in Nat
    BY <1>1, <1>2, <2>1
  <2>3. k = l
    BY <2>2
  <2> QED
    BY <2>1, <2>3
<1>4. ASSUME NEW S \in SUBSET DOMAIN history, k \in S
      PROVE  Latest(S, s, n, age) = IF Fresh(k, n, age) THEN {k} ELSE {}
  <2>1. \A j \in S : (history[j].surface = s /\ Fresh(j, n, age)) =>
           j <= k /\ history[j].at <= history[k].at /\ Fresh(k, n, age)
    BY <1>1, <1>2, <1>4 DEF Fresh
  <2>2. \A j \in S : j \in Latest(S, s, n, age) => j = k /\ Fresh(k, n, age)
    BY <1>1, <1>2, <1>4, <2>1 DEF Latest
  <2>3. Fresh(k, n, age) => k \in Latest(S, s, n, age)
    <3> SUFFICES ASSUME Fresh(k, n, age) PROVE k \in Latest(S, s, n, age)
      OBVIOUS
    <3>1. \A j \in S : (history[j].surface = s /\ Fresh(j, n, age)) =>
             \/ history[j].at < history[k].at
             \/ history[j].at = history[k].at /\ j <= k
      BY <1>1, <1>4, <2>1
    <3> QED
      BY <1>2, <1>4, <3>1 DEF Latest
  <2>4. Latest(S, s, n, age) \subseteq S
    BY DEF Latest
  <2> QED
    BY <2>2, <2>3, <2>4
<1> QED
  BY <1>1, <1>3, <1>4, Zenon

\* Recovery plans the same from the compacted table as from all observations,
\* for every surface whose last observation is its newest.
THEOREM CompactionKeepsPlan == LedgerSpec => []PlanFollowsHistory
<1> QED
  BY LedgerInvariant, PlanFromLast, PTL
-----------------------------------------------------------------------------
\* The ring holds the last lines, one for every id up to last_id.
RingInv ==
    /\ last_id \in Nat /\ next_id = last_id + 1
    /\ entries \in Seq(Nat)
    /\ Len(entries) = IF last_id < Capacity THEN last_id ELSE Capacity
    /\ \A k \in DOMAIN entries : entries[k] = last_id - Len(entries) + k

\* The follower has nothing beyond its watermark, and its watermark is its last
\* poll.
FollowerInv ==
    /\ since_id \in 0..last_id /\ since_id \in polls \cup {0}
    /\ polls \subseteq 1..since_id
    /\ received \in Seq(Nat)
    /\ \A i \in DOMAIN received : received[i] <= since_id
    /\ FollowerComplete

\* The lines at the positions from a on, at most TailMax of them, in order.
LEMMA LinesFrom ==
    ASSUME RingInv, NEW a \in 1..(Len(entries) + 1)
    PROVE  LET found == Len(entries) - a + 1
           IN  Lines(a..Len(entries)) =
                 [n \in 1..(IF found > TailMax THEN TailMax ELSE found) |->
                    entries[a + n - 1]]
<1> DEFINE l == Len(entries)
           match == a..l
           found == l - a + 1
           size == IF found > TailMax THEN TailMax ELSE found
           nth(n) == CHOOSE k \in match : Cardinality({j \in match : j <= k}) = n
<1>1. l \in Nat /\ a \in Nat /\ a <= l + 1 /\ TailMax \in Nat
  BY LogAssumption DEF RingInv
<1>2. Cardinality(match) = found
  <2>1. a \in Int /\ l \in Int /\ (a > l => found = 0)
    BY <1>1
  <2> HIDE DEF l
  <2> QED BY <2>1, FS_Interval, Zenon
<1>3. ASSUME NEW k \in match PROVE Cardinality({j \in match : j <= k}) = k - a + 1
  <2>1. {j \in match : j <= k} = a..k
    BY <1>1
  <2>2. k \in Int /\ a \in Int /\ ~(a > k)
    BY <1>1
  <2> QED BY <2>1, <2>2, FS_Interval, Zenon
<1>4. ASSUME NEW n \in 1..size PROVE nth(n) = a + n - 1
  <2>1. n <= found /\ n \in Nat /\ n >= 1
    BY <1>1
  <2>2. a + n - 1 \in match
    BY <1>1, <2>1
  <2>3. \A k \in match : k - a + 1 = n <=> k = a + n - 1
    BY <1>1, <2>1
  <2>4. \A k \in match : Cardinality({j \in match : j <= k}) = n <=> k = a + n - 1
    BY <1>3, <2>3
  <2> HIDE DEF match
  <2> QED BY <2>2, <2>4
<1>5. Lines(match) = [n \in 1..size |-> entries[nth(n)]]
  BY <1>2 DEF Lines
<1> HIDE DEF nth
<1> QED BY <1>4, <1>5, Zenon

\* log.tail answers with consecutive ids: from the one after the watermark, or
\* from the oldest in the ring when that is gone, and to last_id or TailMax.
LEMMA TailIsConsecutive ==
    ASSUME RingInv, NEW since \in 0..last_id
    PROVE  \E from \in 1..(last_id + 1), n \in 0..TailMax :
             /\ tail(since) = [i \in 1..n |-> from + i - 1]
             /\ since < from /\ from + n - 1 <= last_id
             /\ last_id - since <= TailMax => from = since + 1 /\ n = last_id - since
<1> DEFINE l == Len(entries)
           base == last_id - l
           a == IF since < base THEN 1 ELSE since - base + 1
           found == l - a + 1
           n == IF found > TailMax THEN TailMax ELSE found
<1>1. /\ l \in Nat /\ last_id \in Nat /\ since \in Nat /\ since <= last_id
      /\ l = (IF last_id < Capacity THEN last_id ELSE Capacity)
      /\ Capacity \in Nat /\ TailMax \in Nat /\ TailMax <= Capacity
      /\ DOMAIN entries = 1..l
      /\ \A k \in 1..l : entries[k] = base + k
  <2>1. /\ last_id \in Nat /\ entries \in Seq(Nat)
        /\ l = (IF last_id < Capacity THEN last_id ELSE Capacity)
        /\ \A k \in DOMAIN entries : entries[k] = base + k
    BY DEF RingInv
  <2>2. l \in Nat /\ DOMAIN entries = 1..l
    BY <2>1
  <2>3. since \in Nat /\ since <= last_id
    BY <2>1
  <2> QED BY <2>1, <2>2, <2>3, LogAssumption, Zenon
<1> HIDE DEF l
<1>2. base \in Nat /\ a \in 1..(l + 1) /\ n \in 0..TailMax
  BY <1>1
<1>3. {k \in DOMAIN entries : entries[k] > since} = a..l
  BY <1>1, <1>2
<1>4. tail(since) = [i \in 1..n |-> entries[a + i - 1]]
  BY <1>2, <1>3, LinesFrom, Zenon DEF tail, l
<1>5. \A i \in 1..n : entries[a + i - 1] = (base + a) + i - 1
  BY <1>1, <1>2
<1>6. tail(since) = [i \in 1..n |-> (base + a) + i - 1]
  BY <1>4, <1>5
<1>7. /\ base + a \in 1..(last_id + 1) /\ since < base + a
      /\ (base + a) + n - 1 <= last_id
      /\ last_id - since <= TailMax => base + a = since + 1 /\ n = last_id - since
  BY <1>1, <1>2
<1> HIDE DEF base, a, n
<1> QED BY <1>2, <1>6, <1>7

\* A push evicts the oldest line of a full ring and keeps the ids consecutive.
LEMMA PushStep ==
    ASSUME RingInv, FollowerInv, Push
    PROVE  RingInv' /\ FollowerInv'
<1> DEFINE kept == IF Len(entries) = Capacity THEN Tail(entries) ELSE entries
<1>1. /\ last_id \in Nat /\ next_id = last_id + 1 /\ entries \in Seq(Nat)
      /\ Len(entries) = (IF last_id < Capacity THEN last_id ELSE Capacity)
      /\ \A k \in 1..Len(entries) : entries[k] = last_id - Len(entries) + k
      /\ Capacity \in Nat \ {0} /\ Len(entries) \in Nat
  <2>1. /\ last_id \in Nat /\ next_id = last_id + 1 /\ entries \in Seq(Nat)
        /\ Len(entries) = (IF last_id < Capacity THEN last_id ELSE Capacity)
        /\ \A k \in DOMAIN entries : entries[k] = last_id - Len(entries) + k
    BY DEF RingInv
  <2>2. DOMAIN entries = 1..Len(entries) /\ Len(entries) \in Nat
    BY <2>1
  <2> QED BY <2>1, <2>2, LogAssumption, Zenon
<1>2. /\ last_id' = last_id + 1 /\ next_id' = last_id' + 1
      /\ entries' = Append(kept, last_id + 1)
      /\ UNCHANGED <<since_id, received, polls>>
  BY <1>1 DEF Push
<1>3. /\ kept \in Seq(Nat)
      /\ Len(kept) = (IF last_id < Capacity THEN last_id ELSE Capacity - 1)
      /\ \A k \in 1..Len(kept) : kept[k] = last_id - Len(kept) + k
  <2>1. CASE Len(entries) = Capacity
    <3>1. entries # << >>
      BY <1>1, <2>1
    <3>2. kept = Tail(entries) /\ Tail(entries) \in Seq(Nat)
          /\ Len(Tail(entries)) = Capacity - 1
          /\ \A k \in 1..(Capacity - 1) : Tail(entries)[k] = entries[k + 1]
      BY <1>1, <2>1, <3>1
    <3>3. last_id \in Nat /\ Capacity \in Nat /\ ~(last_id < Capacity)
      BY <1>1, <2>1
    <3>4. ASSUME NEW k \in 1..(Capacity - 1)
          PROVE  entries[k + 1] = last_id - Capacity + (k + 1)
      <4>1. k + 1 \in 1..Len(entries)
        BY <2>1, <3>3
      <4> QED BY <1>1, <2>1, <4>1
    <3> HIDE DEF kept
    <3>5. \A k \in 1..(Capacity - 1) : kept[k] = last_id - (Capacity - 1) + k
      BY <3>2, <3>3, <3>4
    <3> QED BY <3>2, <3>3, <3>5
  <2>2. CASE Len(entries) # Capacity
    BY <1>1, <2>2
  <2> QED BY <2>1, <2>2
<1> HIDE DEF kept
<1>4. RingInv'
  <2>1. entries' \in Seq(Nat) /\ Len(entries') = Len(kept) + 1
        /\ DOMAIN entries' = 1..(Len(kept) + 1) /\ Len(kept) \in Nat
    BY <1>1, <1>2, <1>3
  <2>2. Len(entries') = IF last_id' < Capacity THEN last_id' ELSE Capacity
    BY <1>1, <1>2, <1>3, <2>1
  <2>3. ASSUME NEW k \in 1..(Len(kept) + 1)
        PROVE  entries'[k] = last_id' - Len(entries') + k
    <3>1. entries'[k] = IF k = Len(kept) + 1 THEN last_id + 1 ELSE kept[k]
      BY <1>1, <1>2, <1>3, <2>1
    <3>2. last_id' - Len(entries') = last_id - Len(kept)
      BY <1>1, <1>2, <2>1
    <3>3. k # Len(kept) + 1 => k \in 1..Len(kept)
      BY <2>1
    <3>4. k # Len(kept) + 1 => kept[k] = last_id - Len(kept) + k
      BY <1>3, <3>3
    <3> QED BY <1>1, <2>1, <3>1, <3>2, <3>4
  <2>4. last_id' \in Nat
    BY <1>1, <1>2
  <2> QED BY <1>2, <2>1, <2>2, <2>3, <2>4 DEF RingInv
<1>5. FollowerInv'
  BY <1>1, <1>2 DEF FollowerInv, FollowerComplete
<1> QED BY <1>4, <1>5

\* A poll appends consecutive ids beyond all earlier ones, and every id since
\* the last poll when that is at most TailMax lines ago.
LEMMA PollStep ==
    ASSUME RingInv, FollowerInv, Poll
    PROVE  RingInv' /\ FollowerInv'
<1>1. /\ last_id \in Nat /\ since_id \in 0..last_id /\ since_id < last_id
      /\ received \in Seq(Nat) /\ Len(received) \in Nat
      /\ DOMAIN received = 1..Len(received)
      /\ \A i \in 1..Len(received) : received[i] \in Nat /\ received[i] <= since_id
      /\ polls \subseteq 1..since_id /\ TailMax \in Nat
  BY LogAssumption DEF RingInv, FollowerInv, Poll
<1>2. PICK from \in 1..(last_id + 1), n \in 0..TailMax :
         /\ tail(since_id) = [i \in 1..n |-> from + i - 1]
         /\ since_id < from /\ from + n - 1 <= last_id
         /\ last_id - since_id <= TailMax => from = since_id + 1 /\ n = last_id - since_id
  BY <1>1, TailIsConsecutive, Zenon
<1>3. /\ received' = received \o [i \in 1..n |-> from + i - 1]
      /\ since_id' = last_id /\ polls' = polls \cup {last_id}
      /\ UNCHANGED <<entries, next_id, last_id>>
  BY <1>2 DEF Poll
<1> DEFINE len == Len(received)
           new == [i \in 1..n |-> from + i - 1]
<1>4. /\ received' \in Seq(Nat) /\ DOMAIN received' = 1..(len + n)
      /\ \A i \in 1..len : received'[i] = received[i]
      /\ \A i \in 1..n : received'[len + i] = from + i - 1
  <2>1. new \in Seq(Nat) /\ Len(new) = n
    <3>1. \A i \in 1..n : from + i - 1 \in Nat
      BY <1>1
    <3>2. new \in [1..n -> Nat]
      BY <3>1
    <3> QED BY <3>2, <1>1
  <2>2. \A i \in 1..n : new[i] = from + i - 1
    OBVIOUS
  <2>3. received' = received \o new
    BY <1>3
  <2> HIDE DEF new
  <2>4. received' \in Seq(Nat) /\ Len(received') = len + n
    <3>1. received \in Seq(Nat) /\ new \in Seq(Nat)
      BY <1>1, <2>1
    <3>2. received \o new \in Seq(Nat)
      BY <3>1
    <3>3. Len(received \o new) = Len(received) + Len(new)
      BY <3>1
    <3> QED BY <2>1, <2>3, <3>2, <3>3, Zenon
  <2>5. DOMAIN received' = 1..(len + n)
    BY <1>1, <2>4
  <2>6. \A i \in 1..len : received'[i] = received[i]
    BY <1>1, <2>1, <2>3
  <2>7. \A i \in 1..n : received'[len + i] = new[i]
    BY <1>1, <2>1, <2>3
  <2> QED BY <2>2, <2>4, <2>5, <2>6, <2>7, Zenon
<1>5. \A i \in (len + 1)..(len + n) : received'[i] = from + (i - len) - 1
  <2> SUFFICES ASSUME NEW i \in (len + 1)..(len + n)
               PROVE  received'[i] = from + (i - len) - 1
    OBVIOUS
  <2>1. i - len \in 1..n /\ len + (i - len) = i
    BY <1>1
  <2> QED BY <1>4, <2>1, Zenon
<1>6. RingInv'
  BY <1>3 DEF RingInv
<1>7. \A i \in DOMAIN received' : received'[i] <= since_id'
  BY <1>1, <1>2, <1>3, <1>4, <1>5
<1>8. \A i, j \in DOMAIN received' : i < j => received'[i] < received'[j]
  <2> SUFFICES ASSUME NEW i \in 1..(len + n), NEW j \in 1..(len + n), i < j
               PROVE  received'[i] < received'[j]
    BY <1>4
  <2>1. CASE j <= len
    <3>1. i \in 1..len /\ j \in 1..len
      BY <1>1, <2>1
    <3>2. received[i] < received[j]
      BY <1>1, <3>1 DEF FollowerInv, FollowerComplete
    <3> QED BY <1>4, <3>1, <3>2
  <2>2. CASE i <= len /\ j > len
    <3>1. received'[i] <= since_id /\ received'[i] \in Nat
      BY <1>1, <1>4, <2>2
    <3>2. received'[j] = from + (j - len) - 1
      BY <1>1, <1>5, <2>2
    <3> QED BY <1>1, <1>2, <2>2, <3>1, <3>2
  <2>3. CASE i > len
    <3>1. received'[i] = from + (i - len) - 1 /\ received'[j] = from + (j - len) - 1
      BY <1>1, <1>5, <2>3
    <3> QED BY <1>1, <2>3, <3>1
  <2> QED BY <1>1, <2>1, <2>2, <2>3
<1>9. ASSUME NEW p \in polls' \cup {0}, NEW q \in polls', p < q, q - p <= TailMax,
             NEW id \in (p + 1)..q
      PROVE  \E i \in DOMAIN received' : received'[i] = id
  <2>1. /\ \A a \in polls \cup {0}, b \in polls : (a < b /\ b - a <= TailMax) =>
             \A x \in (a + 1)..b : \E i \in DOMAIN received : received[i] = x
        /\ since_id \in polls \cup {0}
    BY Zenon DEF FollowerInv, FollowerComplete
  <2>2. ASSUME NEW i \in DOMAIN received, received[i] = id
        PROVE  \E k \in DOMAIN received' : received'[k] = id
    BY <1>1, <1>4, <2>2
  <2>3. p \in polls \cup {0} /\ p \in 0..since_id
    BY <1>1, <1>3, <1>9
  <2>4. CASE q \in polls
    BY <1>9, <2>1, <2>2, <2>3, <2>4
  <2>5. CASE q = last_id /\ id <= since_id
    <3>1. since_id \in polls /\ p < since_id /\ since_id - p <= TailMax
          /\ id \in (p + 1)..since_id
      BY <1>1, <1>9, <2>1, <2>3, <2>5
    <3> QED BY <2>1, <2>2, <2>3, <3>1
  <2>6. CASE q = last_id /\ id > since_id
    <3>1. from = since_id + 1 /\ n = last_id - since_id
      BY <1>1, <1>2, <1>9, <2>3, <2>6
    <3>2. id - since_id \in 1..n /\ from + (id - since_id) - 1 = id
      BY <1>1, <1>9, <2>3, <2>6, <3>1
    <3>3. received'[len + (id - since_id)] = id
      BY <1>4, <3>2
    <3>4. len + (id - since_id) \in DOMAIN received'
      BY <1>1, <1>4, <3>2
    <3> QED BY <3>3, <3>4
  <2>7. (q \in polls \/ q = last_id) /\ (id <= since_id \/ id > since_id)
    BY <1>1, <1>3, <1>9, <2>3
  <2> QED BY <2>4, <2>5, <2>6, <2>7
<1>10. FollowerComplete'
  BY <1>8, <1>9 DEF FollowerComplete
<1>11. since_id' \in 0..last_id' /\ since_id' \in polls' \cup {0}
       /\ polls' \subseteq 1..since_id'
  BY <1>1, <1>3
<1> QED BY <1>4, <1>6, <1>7, <1>10, <1>11 DEF FollowerInv

\* Ring and follower keep their invariant under everything the server does.
THEOREM FollowerInvariant == LedgerSpec => [](RingInv /\ FollowerInv)
<1>1. LedgerInit => RingInv /\ FollowerInv
  BY LogAssumption DEF LedgerInit, LogInit, RingInv, FollowerInv, FollowerComplete
<1>2. RingInv /\ FollowerInv /\ [LedgerNext]_allVars => (RingInv /\ FollowerInv)'
  <2> SUFFICES ASSUME RingInv, FollowerInv, [LedgerNext]_allVars
               PROVE  RingInv' /\ FollowerInv'
    OBVIOUS
  <2>1. Push \/ Poll \/ UNCHANGED logVars
    <3>1. CASE UNCHANGED allVars
      BY <3>1 DEF allVars
    <3>2. CASE Tick \/ compact_observations \/ \E report \in Reports : Observe(report)
      BY <3>2, Zenon DEF Tick, compact_observations, Observe
    <3>3. ASSUME NEW k \in Scanners,
                 \/ \E found \in Discoveries : ScanStart(k, found)
                 \/ ScanAbort(k)
                 \/ \E s \in Surfaces : ScanSkip(k, s) \/ ScanCheck(k, s)
                 \/ \E e \in Evidence : ScanAppend(k, e)
          PROVE  UNCHANGED logVars
      BY <3>3, Zenon DEF ScanStart, ScanAbort, ScanSkip, ScanCheck, ScanAppend
    <3>4. ASSUME NEW r \in Requests,
                 \/ \E age \in Ages, execute \in BOOLEAN, parallel \in Parallel :
                       PlanStart(r, age, execute, parallel)
                 \/ Serve(r)
          PROVE  Push \/ UNCHANGED logVars
      BY <3>4, Zenon DEF PlanStart, Serve, PlanRead, PlanWarn, PlanDone, NextBatch,
                         Launch, ExecuteDone
    <3> QED
      BY <3>1, <3>2, <3>3, <3>4, Zenon DEF LedgerNext
  <2>2. CASE UNCHANGED logVars
    BY <2>2 DEF logVars, RingInv, FollowerInv, FollowerComplete
  <2> QED BY <2>1, <2>2, PushStep, PollStep
<1> QED BY <1>1, <1>2, PTL DEF LedgerSpec

\* A log follower gets its lines in order and none twice, and misses none
\* between two polls that are at most TailMax lines apart.
THEOREM FollowerMissesNothing == LedgerSpec => []FollowerComplete
<1>1. RingInv /\ FollowerInv => FollowerComplete
  BY DEF FollowerInv
<1> QED BY <1>1, FollowerInvariant, PTL
=============================================================================
