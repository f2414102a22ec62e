------------------------- MODULE MaildirQueueProofs -------------------------
(***************************************************************************)
(* For every set of tasks, workers and files: no queue operation and no    *)
(* death of a worker, wherever it happens, loses a task's file; and no two *)
(* live workers hold the same task until reclaim_owner takes it from one.  *)
(***************************************************************************)
EXTENDS MaildirQueue, TLAPS

\* A leaf is tried with SMT, then with Zenon, with time to spare on a busy machine.
USE SMTT(30), ZenonT(30)

\* The part of the type invariant that the arguments below rest on.
DirsOK ==
    /\ new \in [Tasks -> Files \cup {None}]
    /\ cur \in [Tasks -> Files \cup {None}]
    /\ task \in [Workers -> Tasks]
    /\ wpc \in [Workers -> {"idle", "rename", "open", "write", "work", "dead",
                            "deadClaiming"}]
    /\ matched \subseteq Tasks
    /\ todo \subseteq Tasks

\* TaskKept is inductive together with the types of the directories.
KeptInv == DirsOK /\ TaskKept

\* An inode picked by open(O_CREAT) is an inode.
LEMMA NewFileIsFile ==
    ASSUME \E f \in Files : Free(f)
    PROVE  NewFile \in Files /\ NewFile # None
BY MaildirAssumption DEF NewFile, None

\* Every step keeps the types of the directories.
LEMMA DirsStep == DirsOK /\ [MailNext]_vars => DirsOK'
<1> SUFFICES ASSUME DirsOK, [MailNext]_vars PROVE DirsOK'
  OBVIOUS
<1> USE DEF DirsOK, Goto
<1>1. ASSUME NEW t \in Tasks, Enqueue(t) PROVE DirsOK'
  BY <1>1, NewFileIsFile DEF Enqueue, workerVars, opVars
<1>2. ASSUME NEW t \in Tasks, ReclaimRead(t) PROVE DirsOK'
  BY <1>2 DEF ReclaimRead, dirVars, workerVars
<1>3. ASSUME NEW t \in Tasks, ReclaimRename(t) PROVE DirsOK'
  BY <1>3 DEF ReclaimRename, MoveBack, workerVars
<1>4. ASSUME NEW w \in Workers, ClaimList(w) PROVE DirsOK'
  BY <1>4 DEF ClaimList, dirVars, opVars
<1>5. ASSUME NEW w \in Workers, ClaimOpen(w) PROVE DirsOK'
  BY <1>5, NewFileIsFile DEF ClaimOpen, opVars
<1>6. ASSUME NEW w \in Workers, ClaimWrite(w) PROVE DirsOK'
  BY <1>6 DEF ClaimWrite, opVars
<1>7. ASSUME NEW w \in Workers, Ack(w) PROVE DirsOK'
  BY <1>7 DEF Ack, opVars
<1>8. ASSUME NEW w \in Workers, Nack(w) PROVE DirsOK'
  BY <1>8 DEF Nack, MoveBack, opVars
<1>9. ASSUME NEW w \in Workers, Crash(w) PROVE DirsOK'
  BY <1>9 DEF Crash, dirVars, opVars
<1>10. ASSUME NEW w \in Workers, ReclaimStart(w) PROVE DirsOK'
  BY <1>10 DEF ReclaimStart, dirVars, workerVars
<1>11. ASSUME NEW w \in Workers, NEW t \in Tasks, ClaimRename(w, t) PROVE DirsOK'
  BY <1>11 DEF ClaimRename, opVars
<1>12. ASSUME NEW w \in Workers, NEW t \in Tasks, ClaimLost(w, t) PROVE DirsOK'
  BY <1>12 DEF ClaimLost, dirVars, opVars
<1>13. CASE ReclaimDone
  BY <1>13 DEF ReclaimDone, dirVars, workerVars
<1>14. CASE UNCHANGED vars
  BY <1>14 DEF vars, dirVars, workerVars, opVars
<1> QED
  BY <1>1, <1>2, <1>3, <1>4, <1>5, <1>6, <1>7, <1>8, <1>9, <1>10, <1>11, <1>12,
     <1>13, <1>14 DEF MailNext

\* No step takes the last file of a task that was not acknowledged.
LEMMA KeptStep == KeptInv /\ [MailNext]_vars => TaskKept'
<1> SUFFICES ASSUME KeptInv, [MailNext]_vars PROVE TaskKept'
  OBVIOUS
<1> USE DEF KeptInv, DirsOK, TaskKept
<1>1. ASSUME NEW t \in Tasks, Enqueue(t) PROVE TaskKept'
  BY <1>1, NewFileIsFile DEF Enqueue
<1>2. ASSUME NEW t \in Tasks, ReclaimRename(t) PROVE TaskKept'
  BY <1>2 DEF ReclaimRename, MoveBack, histVars
<1>3. ASSUME NEW w \in Workers, ClaimOpen(w) PROVE TaskKept'
  BY <1>3, NewFileIsFile DEF ClaimOpen, histVars
<1>4. ASSUME NEW w \in Workers, Ack(w) PROVE TaskKept'
  BY <1>4 DEF Ack
<1>5. ASSUME NEW w \in Workers, Nack(w) PROVE TaskKept'
  BY <1>5 DEF Nack, MoveBack, histVars
<1>6. ASSUME NEW w \in Workers, NEW t \in Tasks, ClaimRename(w, t) PROVE TaskKept'
  BY <1>6 DEF ClaimRename
<1>7. ASSUME \/ \E t \in Tasks : ReclaimRead(t)
             \/ \E w \in Workers : \/ ClaimList(w) \/ ClaimWrite(w) \/ Crash(w)
                                   \/ ReclaimStart(w)
                                   \/ \E t \in Tasks : ClaimLost(w, t)
             \/ ReclaimDone
             \/ UNCHANGED vars
      PROVE  TaskKept'
  <2>1. UNCHANGED <<new, cur, enqueued, acked>>
    BY <1>7 DEF vars, ReclaimRead, ClaimList, ClaimWrite, Crash, ReclaimStart,
                ClaimLost, ReclaimDone, dirVars, histVars
  <2> QED
    BY <2>1
<1> QED
  BY <1>1, <1>2, <1>3, <1>4, <1>5, <1>6, <1>7 DEF MailNext

\* A task that was enqueued and not acknowledged always has a file in new/ or
\* cur/, although claim, nack, ack and reclaim_owner interleave at every file
\* operation and workers die at any of them.
THEOREM NoTaskLost == MailSpec => []TaskKept
<1>1. MailInit => KeptInv
  BY MaildirAssumption DEF MailInit, KeptInv, DirsOK, TaskKept
<1>2. KeptInv /\ [MailNext]_vars => KeptInv'
  BY DirsStep, KeptStep DEF KeptInv
<1>3. KeptInv => TaskKept
  BY DEF KeptInv
<1> QED
  BY <1>1, <1>2, <1>3, PTL DEF MailSpec
-----------------------------------------------------------------------------
\* A task in the hands of a live worker was enqueued and is not in new/, so
\* that nobody else can rename it, unless it was taken back.
ExclInv ==
    /\ DirsOK
    /\ \A t \in Tasks : new[t] # None \/ cur[t] # None => t \in enqueued
    /\ \A w \in Workers :
        Holding(w) => /\ task[w] \in enqueued
                      /\ new[task[w]] = None \/ task[w] \in takenBack
    /\ ExclusiveClaim

\* Every step keeps the exclusion invariant.
LEMMA ExclStep == ExclInv /\ [MailNext]_vars => ExclInv'
<1> SUFFICES ASSUME ExclInv, [MailNext]_vars PROVE ExclInv'
  OBVIOUS
<1>0. DirsOK'
  BY DirsStep DEF ExclInv
<1> USE <1>0 DEF ExclInv, ExclusiveClaim, Holding, Goto
<1>1. ASSUME NEW t \in Tasks, Enqueue(t) PROVE ExclInv'
  BY <1>1 DEF Enqueue, workerVars, opVars, DirsOK
<1>2. ASSUME NEW w \in Workers, ClaimList(w) PROVE ExclInv'
  BY <1>2 DEF ClaimList, dirVars, opVars, histVars, DirsOK
<1>3. ASSUME NEW w \in Workers, ClaimOpen(w) PROVE ExclInv'
  BY <1>3 DEF ClaimOpen, opVars, histVars, DirsOK
<1>4. ASSUME NEW w \in Workers, ClaimWrite(w) PROVE ExclInv'
  BY <1>4 DEF ClaimWrite, opVars, histVars, DirsOK
<1>5. ASSUME NEW w \in Workers, Ack(w) PROVE ExclInv'
  BY <1>5 DEF Ack, opVars, DirsOK
<1>6. ASSUME NEW w \in Workers, Nack(w) PROVE ExclInv'
  BY <1>6 DEF Nack, MoveBack, opVars, histVars, DirsOK
<1>7. ASSUME NEW w \in Workers, NEW t \in Tasks, ClaimRename(w, t) PROVE ExclInv'
  BY <1>7 DEF ClaimRename, opVars, DirsOK
<1>8. ASSUME NEW w \in Workers, NEW t \in Tasks, ClaimLost(w, t) PROVE ExclInv'
  BY <1>8 DEF ClaimLost, dirVars, opVars, histVars, DirsOK
<1>9. ASSUME NEW w \in Workers, Crash(w) PROVE ExclInv'
  BY <1>9 DEF Crash, dirVars, opVars, histVars, DirsOK
<1>10. ASSUME NEW t \in Tasks, ReclaimRename(t) PROVE ExclInv'
  BY <1>10 DEF ReclaimRename, MoveBack, workerVars, DirsOK
<1>11. ASSUME \/ \E t \in Tasks : ReclaimRead(t)
              \/ \E w \in Workers : ReclaimStart(w)
              \/ ReclaimDone
              \/ UNCHANGED vars
       PROVE  ExclInv'
  <2>1. UNCHANGED <<new, cur, wpc, task, enqueued, takenBack>>
    BY <1>11 DEF vars, ReclaimRead, ReclaimStart, ReclaimDone, dirVars,
                 workerVars, histVars
  <2> QED
    BY <2>1
<1> QED
  BY <1>1, <1>2, <1>3, <1>4, <1>5, <1>6, <1>7, <1>8, <1>9, <1>10, <1>11, Zenon
     DEF MailNext

\* The rename from new/ to cur/ hands a task to one worker: no two live workers
\* are claiming or working on the same task, wherever others die, until
\* reclaim_owner moves it back from under one of them.
THEOREM ClaimsAreExclusive == MailSpec => []ExclusiveClaim
<1>1. MailInit => ExclInv
  BY MaildirAssumption DEF MailInit, ExclInv, DirsOK, ExclusiveClaim, Holding
<1>2. ExclInv /\ [MailNext]_vars => ExclInv'
  BY ExclStep
<1>3. ExclInv => ExclusiveClaim
  BY DEF ExclInv
<1> QED
  BY <1>1, <1>2, <1>3, PTL DEF MailSpec
-----------------------------------------------------------------------------
\* What the refinement needs beyond the two properties: a task that was
\* acknowledged and never taken back has no file, and the file of a task in
\* a worker's hands is in cur/ unless it was taken back.
LedgerInv ==
    /\ KeptInv /\ ExclInv
    /\ acked \subseteq enqueued /\ enqueued \subseteq Tasks
    /\ \A t \in acked \ takenBack : new[t] = None /\ cur[t] = None
    /\ \A w \in Workers : Holding(w) => task[w] \in takenBack \/ cur[task[w]] # None

\* Every step preserves it.
LEMMA LedgerInvStep == LedgerInv /\ [MailNext]_vars => LedgerInv'
<1> SUFFICES ASSUME LedgerInv, [MailNext]_vars PROVE LedgerInv'
  OBVIOUS
<1>0. KeptInv' /\ ExclInv'
  BY DirsStep, KeptStep, ExclStep DEF LedgerInv, KeptInv
<1> DEFINE Rest == /\ acked \subseteq enqueued /\ enqueued \subseteq Tasks
                   /\ \A t \in acked \ takenBack : new[t] = None /\ cur[t] = None
                   /\ \A w \in Workers : Holding(w) =>
                         task[w] \in takenBack \/ cur[task[w]] # None
<1> SUFFICES Rest'
  BY <1>0 DEF LedgerInv
<1> USE DEF LedgerInv, ExclInv, ExclusiveClaim, Holding, Goto, DirsOK
<1>1. ASSUME NEW t \in Tasks, Enqueue(t) PROVE Rest'
  BY <1>1, NewFileIsFile DEF Enqueue, workerVars
<1>2. ASSUME NEW w \in Workers, ClaimOpen(w) PROVE Rest'
  BY <1>2, NewFileIsFile DEF ClaimOpen, histVars
<1>3. ASSUME NEW w \in Workers, Ack(w) PROVE Rest'
  BY <1>3 DEF Ack
<1>4. ASSUME NEW w \in Workers, Nack(w) PROVE Rest'
  BY <1>4 DEF Nack, MoveBack, histVars
<1>5. ASSUME NEW w \in Workers, NEW t \in Tasks, ClaimRename(w, t) PROVE Rest'
  BY <1>5 DEF ClaimRename
<1>6. ASSUME NEW t \in Tasks, ReclaimRename(t) PROVE Rest'
  BY <1>6 DEF ReclaimRename, MoveBack, workerVars
<1>7. ASSUME NEW w \in Workers,
             \/ ClaimList(w) \/ ClaimWrite(w) \/ Crash(w)
             \/ \E t \in Tasks : ClaimLost(w, t)
      PROVE  Rest'
  BY <1>7 DEF ClaimList, ClaimWrite, Crash, ClaimLost, dirVars, histVars
<1>8. ASSUME \/ \E t \in Tasks : ReclaimRead(t)
             \/ \E w \in Workers : ReclaimStart(w)
             \/ ReclaimDone
             \/ UNCHANGED vars
      PROVE  Rest'
  <2>1. UNCHANGED <<new, cur, wpc, task, enqueued, acked, takenBack>>
    BY <1>8 DEF vars, ReclaimRead, ReclaimStart, ReclaimDone, dirVars,
                workerVars, histVars
  <2> QED
    BY <2>1
<1> QED
  BY <1>1, <1>2, <1>3, <1>4, <1>5, <1>6, <1>7, <1>8, Zenon DEF MailNext

\* The refinement mapping, by name
Stored == {t \in Tasks : new[t] # None \/ cur[t] # None}
Holders == [t \in Tasks |-> {w \in Workers : Holding(w) /\ task[w] = t}]

\* Every step of the queue is a step of the ledger or changes nothing there.
LEMMA LedgerStep ==
    LedgerInv /\ [MailNext]_vars => [Ledger!LedgerNext]_(Ledger!ledgerVars)
<1> SUFFICES ASSUME LedgerInv, [MailNext]_vars
             PROVE  \/ Ledger!LedgerNext
                    \/ UNCHANGED <<Stored, Holders, enqueued, acked, takenBack>>
  BY DEF Ledger!ledgerVars, Stored, Holders
<1> USE DEF Goto
<1>0. /\ DirsOK /\ enqueued \subseteq Tasks /\ acked \subseteq enqueued
      /\ \A t \in enqueued \ acked : t \in Stored
  BY DEF LedgerInv, KeptInv, TaskKept, Stored
<1>1. ASSUME NEW t \in Tasks, Enqueue(t) PROVE Ledger!Add(t)
  <2>1. Stored' = Stored \cup {t}
    BY <1>0, <1>1, NewFileIsFile DEF Enqueue, Stored, DirsOK
  <2>2. Holders' = Holders
    BY <1>1 DEF Enqueue, workerVars, Holders, Holding
  <2> QED BY <1>1, <2>1, <2>2 DEF Enqueue, Ledger!Add, Stored, Holders
<1>2. ASSUME NEW t \in Tasks, ReclaimRename(t)
      PROVE  Ledger!Revoke(t) \/ UNCHANGED <<Stored, Holders, enqueued, acked, takenBack>>
  <2>1. Stored' = Stored
    BY <1>0, <1>2 DEF ReclaimRename, MoveBack, Stored, DirsOK
  <2>2. Holders' = Holders
    BY <1>2 DEF ReclaimRename, workerVars, Holders, Holding
  <2>3. CASE \E w \in Workers : Holding(w) /\ task[w] = t
    <3>1. Holders[t] # {}
      BY <2>3 DEF Holders
    <3> QED BY <1>2, <2>1, <2>2, <2>3, <3>1
            DEF ReclaimRename, Ledger!Revoke, Stored, Holders
  <2>4. CASE ~\E w \in Workers : Holding(w) /\ task[w] = t
    BY <1>2, <2>1, <2>2, <2>4 DEF ReclaimRename
  <2> QED BY <2>3, <2>4
<1>3. ASSUME NEW w \in Workers, ClaimOpen(w)
      PROVE  Ledger!Return(task[w])
             \/ UNCHANGED <<Stored, Holders, enqueued, acked, takenBack>>
  <2>1. task[w] \in Tasks /\ Holding(w) /\ w \in Holders[task[w]]
    BY <1>0, <1>3 DEF ClaimOpen, Holding, Holders, DirsOK
  <2>2. Holders' = Holders
    BY <1>0, <1>3 DEF ClaimOpen, Holders, Holding, DirsOK
  <2>3. Stored' = Stored \cup {task[w]}
    BY <1>0, <1>3, <2>1, NewFileIsFile DEF ClaimOpen, Stored, DirsOK
  <2>4. CASE task[w] \in Stored
    BY <1>3, <2>2, <2>3, <2>4 DEF ClaimOpen, histVars
  <2>5. CASE task[w] \notin Stored
    <3>1. task[w] \in enqueued /\ cur[task[w]] = None
      BY <2>1, <2>5 DEF LedgerInv, ExclInv, Stored
    <3>2. task[w] \in acked /\ task[w] \in takenBack
      BY <1>0, <2>1, <2>5, <3>1 DEF LedgerInv
    <3>3. Ledger!Return(task[w])
      BY <1>3, <2>1, <2>2, <2>3, <3>2
         DEF ClaimOpen, histVars, Ledger!Return, Stored, Holders
    <3> QED BY <3>3
  <2> QED BY <2>4, <2>5
<1>4. ASSUME NEW w \in Workers, Ack(w) PROVE Ledger!Complete(w, task[w])
  <2>1. task[w] \in Tasks /\ Holding(w) /\ w \in Holders[task[w]]
    BY <1>0, <1>4 DEF Ack, Holding, Holders, DirsOK
  <2>2. Holders' = [Holders EXCEPT ![task[w]] = @ \ {w}]
    BY <1>0, <1>4, <2>1, Zenon DEF Ack, Holders, Holding, DirsOK
  <2>3. Stored' = Stored \ {task[w]} \/ (task[w] \in takenBack /\ Stored' = Stored)
    <3>1. new[task[w]] = None \/ task[w] \in takenBack
      BY <2>1 DEF LedgerInv, ExclInv
    <3>2. CASE new[task[w]] = None
      BY <1>0, <1>4, <2>1, <3>2 DEF Ack, Stored, DirsOK
    <3>3. CASE new[task[w]] # None
      BY <1>0, <1>4, <2>1, <3>1, <3>3 DEF Ack, Stored, DirsOK
    <3> QED BY <3>2, <3>3
  <2> QED BY <1>4, <2>1, <2>2, <2>3 DEF Ack, Ledger!Complete, Stored, Holders
<1>5. ASSUME NEW w \in Workers, Nack(w) PROVE Ledger!Drop(w, task[w])
  <2>1. task[w] \in Tasks /\ w \in Holders[task[w]]
    BY <1>0, <1>5 DEF Nack, Holding, Holders, DirsOK
  <2>2. Holders' = [Holders EXCEPT ![task[w]] = @ \ {w}]
    BY <1>0, <1>5, <2>1 DEF Nack, Holders, Holding, DirsOK
  <2>3. Stored' = Stored
    BY <1>0, <1>5 DEF Nack, MoveBack, Stored, DirsOK
  <2> QED BY <1>5, <2>1, <2>2, <2>3 DEF Nack, histVars, Ledger!Drop, Stored, Holders
<1>6. ASSUME NEW w \in Workers, Crash(w)
      PROVE  Ledger!Drop(w, task[w])
             \/ UNCHANGED <<Stored, Holders, enqueued, acked, takenBack>>
  <2>1. Stored' = Stored
    BY <1>6 DEF Crash, dirVars, Stored
  <2>2. CASE wpc[w] = "rename"
    <3>1. Holders' = Holders
      BY <1>0, <1>6, <2>2 DEF Crash, Holders, Holding, DirsOK
    <3> QED BY <1>6, <2>1, <3>1 DEF Crash, histVars
  <2>3. CASE wpc[w] # "rename"
    <3>1. task[w] \in Tasks /\ w \in Holders[task[w]]
      BY <1>0, <1>6, <2>3 DEF Crash, Holding, Holders, DirsOK
    <3>2. Holders' = [Holders EXCEPT ![task[w]] = @ \ {w}]
      BY <1>0, <1>6, <3>1 DEF Crash, Holders, Holding, DirsOK
    <3> QED BY <1>6, <2>1, <3>1, <3>2 DEF Crash, histVars, Ledger!Drop, Stored, Holders
  <2> QED BY <2>2, <2>3
<1>7. ASSUME NEW w \in Workers, NEW t \in Tasks, ClaimRename(w, t)
      PROVE  Ledger!Take(w, t)
  <2>1. Holders' = [Holders EXCEPT ![t] = @ \cup {w}]
    <3>1. \A v \in Workers, u \in Tasks :
             Holding(v)' /\ task'[v] = u
               <=> (Holding(v) /\ task[v] = u) \/ (v = w /\ u = t)
      BY <1>0, <1>7 DEF ClaimRename, Holding, DirsOK
    <3>2. \A u \in Tasks : Holders'[u] =
             IF u = t THEN Holders[u] \cup {w} ELSE Holders[u]
      BY <3>1 DEF Holders
    <3> QED BY <3>2, Zenon DEF Holders
  <2>2. Stored' = Stored /\ t \in Stored
    BY <1>0, <1>7, MaildirAssumption DEF ClaimRename, Stored, DirsOK, None
  <2>3. Holders[t] = {} \/ t \in takenBack
    BY <1>7 DEF ClaimRename, Holders, LedgerInv, ExclInv
  <2> QED BY <1>7, <2>1, <2>2, <2>3 DEF ClaimRename, Ledger!Take, Stored, Holders
<1>8. ASSUME NEW w \in Workers,
             ClaimList(w) \/ ClaimWrite(w) \/ \E t \in Tasks : ClaimLost(w, t)
      PROVE  UNCHANGED <<Stored, Holders, enqueued, acked, takenBack>>
  <2>1. UNCHANGED <<new, cur, enqueued, acked, takenBack, task>>
    BY <1>8 DEF ClaimList, ClaimWrite, ClaimLost, dirVars, histVars
  <2>2. \A v \in Workers : Holding(v)' <=> Holding(v)
    BY <1>0, <1>8 DEF ClaimList, ClaimWrite, ClaimLost, Holding, DirsOK
  <2> QED BY <2>1, <2>2 DEF Stored, Holders
<1>9. ASSUME \/ \E t \in Tasks : ReclaimRead(t)
             \/ \E w \in Workers : ReclaimStart(w)
             \/ ReclaimDone
             \/ UNCHANGED vars
      PROVE  UNCHANGED <<Stored, Holders, enqueued, acked, takenBack>>
  <2>1. UNCHANGED <<new, cur, wpc, task, enqueued, acked, takenBack>>
    BY <1>9 DEF vars, ReclaimRead, ReclaimStart, ReclaimDone, dirVars,
                workerVars, histVars
  <2> QED BY <2>1 DEF Stored, Holders, Holding
<1>10. \A w \in Workers : task[w] \in Tasks
  BY <1>0 DEF DirsOK
<1>11. ASSUME NEW t \in Tasks,
              \/ Ledger!Add(t) \/ Ledger!Revoke(t) \/ Ledger!Return(t)
              \/ \E w \in Workers :
                    Ledger!Take(w, t) \/ Ledger!Complete(w, t) \/ Ledger!Drop(w, t)
       PROVE  Ledger!LedgerNext
  BY <1>11 DEF Ledger!LedgerNext
<1> HIDE DEF Goto
<1>12. CASE \E t \in Tasks : Enqueue(t) \/ ReclaimRead(t) \/ ReclaimRename(t)
  BY <1>1, <1>2, <1>9, <1>11, <1>12
<1>13. CASE \E w \in Workers : ClaimOpen(w) \/ Ack(w) \/ Nack(w) \/ Crash(w)
  <2>1. PICK w \in Workers : ClaimOpen(w) \/ Ack(w) \/ Nack(w) \/ Crash(w)
    BY <1>13
  <2>2. \/ Ledger!Return(task[w]) \/ Ledger!Complete(w, task[w])
        \/ Ledger!Drop(w, task[w])
        \/ UNCHANGED <<Stored, Holders, enqueued, acked, takenBack>>
    BY <2>1, <1>3, <1>4, <1>5, <1>6
  <2>3. PICK t \in Tasks : t = task[w]
    BY <1>10
  <2>4. \/ Ledger!Return(t) \/ Ledger!Complete(w, t) \/ Ledger!Drop(w, t)
        \/ UNCHANGED <<Stored, Holders, enqueued, acked, takenBack>>
    BY <2>2, <2>3, Zenon DEF Ledger!Return, Ledger!Complete, Ledger!Drop
  <2> QED BY <2>4, <1>11
<1>14. CASE \E w \in Workers : \E t \in Tasks : ClaimRename(w, t)
  BY <1>7, <1>11, <1>14
<1> QED
  BY <1>8, <1>9, <1>12, <1>13, <1>14 DEF MailNext

\* Claim, ack, nack, reclaim_owner and deaths at any file operation together
\* implement at-least-once delivery as TaskLedger states it.
THEOREM QueueRefinesLedger == MailSpec => DeliversAtLeastOnce
<1>1. MailInit => LedgerInv /\ Ledger!LedgerInit
  BY MaildirAssumption DEF MailInit, LedgerInv, KeptInv, ExclInv, DirsOK, TaskKept,
     ExclusiveClaim, Holding, Ledger!LedgerInit
<1> QED
  BY <1>1, LedgerInvStep, LedgerStep, PTL
     DEF MailSpec, DeliversAtLeastOnce, Ledger!LedgerSpec
-----------------------------------------------------------------------------
\* An inode is a file of one task, and a claim rewrites only a file of its task.
FilesOwn ==
    /\ torn \in [Files -> BOOLEAN]
    /\ owner \in [Files -> Workers \cup {"nobody"}]
    /\ fd \in [Workers -> Files \cup {None}]
    /\ \A t, u \in Tasks : \A f \in Files :
          f \in {new[t], cur[t]} /\ f \in {new[u], cur[u]} => t = u
    /\ \A w \in Workers : wpc[w] = "write" <=> fd[w] # None
    /\ \A w \in Workers, t \in Tasks :
          fd[w] # None /\ fd[w] \in {new[t], cur[t]} => t = task[w]

\* A file that does not parse is being rewritten, or a claim died rewriting it.
TornHeld ==
    \A t \in Tasks : \A f \in {new[t], cur[t]} \ {None} :
        torn[f] => \E w \in Workers :
                      /\ task[w] = t
                      /\ wpc[w] = "deadClaiming" \/ (wpc[w] = "write" /\ fd[w] = f)

\* Whoever accounts for the file of t in cur/: a claim under way or one that
\* died, or the worker, alive or dead, that the envelope names.
Accounts(w, t) ==
    /\ task[w] = t
    /\ \/ wpc[w] \in {"open", "deadClaiming"}
       \/ wpc[w] = "write" /\ fd[w] = cur[t]
       \/ wpc[w] \in {"work", "dead"} /\ owner[cur[t]] = w /\ ~torn[cur[t]]

CurAccounted == \A t \in Tasks : cur[t] # None => \E w \in Workers : Accounts(w, t)

FilesInv == DirsOK /\ FilesOwn /\ TornHeld /\ CurAccounted

\* An inode picked by open(O_CREAT) is nobody's.
LEMMA NewFileIsFree ==
    ASSUME \E f \in Files : Free(f)
    PROVE  /\ NewFile \in Files /\ NewFile # None
           /\ \A t \in Tasks : new[t] # NewFile /\ cur[t] # NewFile
           /\ \A w \in Workers : fd[w] # NewFile
BY NewFileIsFile, Zenon DEF NewFile, Free

\* Renaming and removing files tears none, as long as those at work on a torn
\* one go on.
LEMMA TornKept ==
    ASSUME TornHeld, torn' = torn, fd' = fd,
           \A u \in Tasks : {new'[u], cur'[u]} \ {None} \subseteq {new[u], cur[u]} \ {None},
           \A v \in Workers :
              wpc[v] \in {"deadClaiming", "write"} => wpc'[v] = wpc[v] /\ task'[v] = task[v]
    PROVE  TornHeld'
<1>1. ASSUME NEW u \in Tasks, NEW f \in {new'[u], cur'[u]} \ {None}, torn'[f]
      PROVE  \E v \in Workers :
                /\ task'[v] = u
                /\ wpc'[v] = "deadClaiming" \/ (wpc'[v] = "write" /\ fd'[v] = f)
  <2>1. f \in {new[u], cur[u]} \ {None} /\ torn[f]
    BY <1>1
  <2>2. PICK v \in Workers :
           /\ task[v] = u
           /\ wpc[v] = "deadClaiming" \/ (wpc[v] = "write" /\ fd[v] = f)
    BY <2>1 DEF TornHeld
  <2> QED
    BY <2>2
<1> QED
  BY <1>1 DEF TornHeld

\* Every step keeps the accounts of the files.
LEMMA FilesStep == FilesInv /\ [MailNext]_vars => FilesInv'
<1> SUFFICES ASSUME FilesInv, [MailNext]_vars PROVE FilesInv'
  OBVIOUS
<1>0. DirsOK'
  BY DirsStep DEF FilesInv
<1> USE <1>0, MaildirAssumption
    DEF FilesInv, FilesOwn, TornHeld, CurAccounted, Accounts, Goto, DirsOK, None
<1>1. ASSUME NEW t \in Tasks, Enqueue(t) PROVE FilesInv'
  BY <1>1, NewFileIsFree DEF Enqueue, workerVars, opVars
<1>2. ASSUME NEW w \in Workers, ClaimList(w) PROVE FilesInv'
  <2>1. /\ UNCHANGED <<new, cur, torn, owner, task, fd>>
        /\ wpc[w] = "idle" /\ wpc' = [wpc EXCEPT ![w] = "rename"]
    BY <1>2 DEF ClaimList, dirVars
  <2>2. FilesOwn'
    BY <2>1
  <2>3. TornHeld'
    BY <2>1
  <2>4. CurAccounted'
    BY <2>1
  <2> QED
    BY <2>2, <2>3, <2>4, Zenon
<1>3. ASSUME NEW w \in Workers, ClaimOpen(w) PROVE FilesInv'
  <2> DEFINE f == IF cur[task[w]] # None THEN cur[task[w]] ELSE NewFile
  <2>0. /\ f \in Files /\ f # None
        /\ f = cur[task[w]]
           \/ (/\ cur[task[w]] = None
               /\ \A t \in Tasks : new[t] # f /\ cur[t] # f
               /\ \A v \in Workers : fd[v] # f)
    BY <1>3, NewFileIsFree DEF ClaimOpen
  <2>1. /\ cur' = [cur EXCEPT ![task[w]] = f]
        /\ torn' = [torn EXCEPT ![f] = TRUE]
        /\ fd' = [fd EXCEPT ![w] = f]
    BY <1>3, Zenon DEF ClaimOpen
  <2> HIDE DEF f
  <2>2. wpc[w] = "open" /\ wpc' = [wpc EXCEPT ![w] = "write"] /\ UNCHANGED <<new, owner, task>>
    BY <1>3, Zenon DEF ClaimOpen
  <2>3. FilesOwn'
    BY <2>0, <2>1, <2>2
  <2>4. TornHeld'
    BY <2>0, <2>1, <2>2
  <2>5. CurAccounted'
    BY <2>0, <2>1, <2>2
  <2> QED
    BY <2>3, <2>4, <2>5
<1>4. ASSUME NEW w \in Workers, ClaimWrite(w) PROVE FilesInv'
  BY <1>4 DEF ClaimWrite, opVars, histVars
<1>5. ASSUME NEW w \in Workers, Ack(w) PROVE FilesInv'
  <2>1. /\ wpc[w] = "work" /\ wpc' = [wpc EXCEPT ![w] = "idle"]
        /\ cur' = [cur EXCEPT ![task[w]] = None]
        /\ UNCHANGED <<new, torn, owner, task, fd>>
    BY <1>5 DEF Ack
  <2>2. FilesOwn'
    BY <2>1
  <2>3. TornHeld'
    BY <2>1, TornKept
  <2>4. CurAccounted'
    BY <2>1
  <2> QED
    BY <2>2, <2>3, <2>4
<1>6. ASSUME NEW w \in Workers, Nack(w) PROVE FilesInv'
  <2>1. /\ wpc[w] = "work" /\ wpc' = [wpc EXCEPT ![w] = "idle"]
        /\ new' = [new EXCEPT ![task[w]] = IF cur[task[w]] # None THEN cur[task[w]] ELSE @]
        /\ cur' = [cur EXCEPT ![task[w]] = None]
        /\ UNCHANGED <<torn, owner, task, fd>>
    BY <1>6 DEF Nack, MoveBack
  <2>2. FilesOwn'
    BY <2>1
  <2>3. TornHeld'
    BY <2>1, TornKept
  <2>4. CurAccounted'
    BY <2>1
  <2> QED
    BY <2>2, <2>3, <2>4
<1>7. ASSUME NEW w \in Workers, NEW t \in Tasks, ClaimRename(w, t) PROVE FilesInv'
  <2>1. /\ wpc[w] = "rename" /\ wpc' = [wpc EXCEPT ![w] = "open"]
        /\ task' = [task EXCEPT ![w] = t] /\ new[t] # None
        /\ new' = [new EXCEPT ![t] = None] /\ cur' = [cur EXCEPT ![t] = new[t]]
        /\ UNCHANGED <<torn, owner, fd>>
    BY <1>7 DEF ClaimRename
  <2>2. FilesOwn'
    BY <2>1
  <2>3. TornHeld'
    BY <2>1, TornKept
  <2>4. CurAccounted'
    BY <2>1
  <2> QED
    BY <2>2, <2>3, <2>4, Zenon
<1>8. ASSUME NEW w \in Workers, NEW t \in Tasks, ClaimLost(w, t) PROVE FilesInv'
  BY <1>8 DEF ClaimLost, dirVars, opVars, histVars
<1>9. ASSUME NEW w \in Workers, Crash(w) PROVE FilesInv'
  BY <1>9 DEF Crash, dirVars, opVars, histVars
<1>10. ASSUME NEW t \in Tasks, ReclaimRename(t) PROVE FilesInv'
  BY <1>10 DEF ReclaimRename, MoveBack, workerVars
<1>11. ASSUME \/ \E t \in Tasks : ReclaimRead(t)
              \/ \E w \in Workers : ReclaimStart(w)
              \/ ReclaimDone
              \/ UNCHANGED vars
       PROVE  FilesInv'
  <2>1. UNCHANGED <<new, cur, torn, owner, wpc, task, fd>>
    BY <1>11, Zenon DEF vars, ReclaimRead, ReclaimStart, ReclaimDone, dirVars, workerVars
  <2> QED
    BY <2>1
<1> HIDE DEF FilesInv
<1> QED
  BY <1>1, <1>2, <1>3, <1>4, <1>5, <1>6, <1>7, <1>8, <1>9, <1>10, <1>11
     DEF MailNext

\* The accounts of the files hold in every reachable state.
LEMMA FilesInvariant == MailSpec => []FilesInv
<1>1. MailInit => FilesInv
  BY MaildirAssumption DEF MailInit, FilesInv, DirsOK, FilesOwn, TornHeld, CurAccounted, None
<1> QED
  BY <1>1, FilesStep, PTL DEF MailSpec

\* A task that was enqueued and not acknowledged is in list_pending, but while
\* its file is being rewritten or after a claim died rewriting it.
THEOREM PendingIsVisible == MailSpec => []PendingVisible
<1>1. MailInit => LedgerInv
  BY MaildirAssumption DEF MailInit, LedgerInv, KeptInv, ExclInv, DirsOK, TaskKept,
     ExclusiveClaim, Holding
<1>2. FilesInv /\ LedgerInv => PendingVisible
  <2> SUFFICES ASSUME FilesInv, LedgerInv, NEW t \in enqueued \ acked,
                      \A f \in {new[t], cur[t]} \ {None} : torn[f]
               PROVE  Rewriting(t)
    BY DEF PendingVisible
  <2>1. t \in Tasks /\ (new[t] # None \/ cur[t] # None)
    BY DEF LedgerInv, KeptInv, TaskKept
  <2> QED
    BY <2>1 DEF FilesInv, TornHeld, Rewriting
<1> QED
  BY <1>1, <1>2, FilesInvariant, LedgerInvStep, PTL DEF MailSpec

\* Whatever is in cur/ is in the hands of a live worker or found by
\* reclaim_owner, but for the task of a claim that died in its rewrite.
THEOREM QueueIsRecoverable == MailSpec => []Recoverable
<1>1. FilesInv => Recoverable
  BY MaildirAssumption
     DEF FilesInv, CurAccounted, Accounts, Recoverable, Reclaimable, Rewriting, Holding
<1> QED
  BY <1>1, FilesInvariant, PTL
=============================================================================
