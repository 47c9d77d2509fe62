-------------------------- MODULE HubRestoreProofs --------------------------
(***************************************************************************)
(* Proofs about HubRestore: what the store still guarantees when its file  *)
(* is deleted or put back from a copy between two runs of its processes.   *)
(*                                                                         *)
(* The promises given to clients (AckInv) do not survive that, but the     *)
(* rest of the store's invariant does (CoreInv). It takes that a copy is   *)
(* itself a sound database (BackupInv), and that a process that is closed  *)
(* remembers nothing of the file it had open and leaves no transaction     *)
(* behind (ClosedInv). PeakInv follows the highest number of each epoch.   *)
(***************************************************************************)
EXTENDS HubRestore, HubStoreProofs

\* A copy c of the database, of a hub that has drawn m epochs.
CopyOK(c, m) ==
  /\ IsTable(c.ops) /\ Gapless(c.ops) /\ OneSeqPerKey(c.ops)
  /\ LastSeq(c.ops) \in 0..MaxSeq
  /\ c.head \in 0..MaxSeq /\ c.head <= LastSeq(c.ops)
  /\ c.epoch \in 1..m
  /\ c.devices \in [Devices -> {"unknown", "active", "revoked"}]

BackupInv == \A c \in backup : CopyOK(c, minted)

\* A closed handle is blank; requests and a transaction exist in a serving
\* process only.
ClosedInv ==
  /\ \A p \in Procs : proc[p].pc = "closed" => proc[p] = Closed
  /\ ~Ready(Serve) => tx = NoTx /\ \A r \in Reqs : req[r].st = "idle"

PeakInv ==
  /\ peak \in [1..MaxEpochs -> 0..MaxSeq]
  /\ \A e \in 1..MaxEpochs : e > minted => peak[e] = 0
  /\ backup = {} => peak[epoch] <= LastSeq(ops)

RestoreInv == CoreInv /\ ClosedInv /\ BackupInv /\ PeakInv

-----------------------------------------------------------------------------
(* Steps of the store                                                      *)

\* An epoch is kept, or replaced by one never drawn before, and nothing else of
\* the database changes in that step.
LEMMA StepEpoch ==
  ASSUME CoreInv, [Next]_vars
  PROVE  \/ epoch' = epoch /\ minted' = minted
         \/ epoch' = minted + 1 /\ minted' = minted + 1 /\ ops' = ops
BY DEF Next, vars, db, OpenStep, PushStep, LoadMeta, ReadHead, ReadMaxSeq, RepairHead, BumpEpoch,
       Stop, RevokeDevice, SeenDevice, PushArrive, PushLock, PushBegin, PushKnownOp, PushNewOp,
       PushCommit, PushFail, PushDone

\* A process closes blank, and takes its requests with it.
LEMMA StepKeepsClosed ==
  ASSUME CoreInv, ClosedInv, [Next]_vars
  PROVE  ClosedInv'
<1>a. /\ proc \in [Procs -> Handle] /\ Serve \in Procs /\ req \in [Reqs -> Request]
      /\ NoReq \notin Reqs /\ Serve \notin Clis /\ Clis \subseteq Procs
  BY StoreAssumption DEF CoreInv, TypeOK, Procs
<1>1. CASE UNCHANGED <<proc, req, tx>>
  BY <1>1 DEF ClosedInv, Ready
<1>2. ASSUME NEW p \in Procs, OpenStep(p) PROVE ClosedInv'
  <2>1. /\ proc[p].pc # "ready" /\ UNCHANGED <<req, tx>>
        /\ \A q \in Procs : q # p => proc'[q] = proc[q]
    BY <1>2, <1>a DEF OpenStep, LoadMeta, ReadHead, ReadMaxSeq, RepairHead, BumpEpoch
  <2>2. proc'[p].pc # "closed"
    BY <1>2, <1>a, ZenonT(30) DEF OpenStep, LoadMeta, ReadHead, ReadMaxSeq, RepairHead, BumpEpoch, Closed, Handle
  <2> QED
    BY <2>1, <2>2, <1>a DEF ClosedInv, Ready
<1>3. ASSUME NEW p \in Procs, Stop(p) PROVE ClosedInv'
  <2>1. /\ proc' = [proc EXCEPT ![p] = Closed]
        /\ p = Serve => tx' = NoTx /\ req' = [r \in Reqs |-> IdleReq]
        /\ p # Serve => UNCHANGED <<req, tx>>
    BY <1>3 DEF Stop
  <2> QED
    BY <2>1, <1>a DEF ClosedInv, Ready, IdleReq
<1>4. ASSUME NEW p \in Clis, NEW d \in Devices, RevokeDevice(p, d) PROVE ClosedInv'
  BY <1>4, <1>a DEF RevokeDevice, ClosedInv, Ready
<1>5. ASSUME NEW d \in Devices, SeenDevice(d) PROVE ClosedInv'
  BY <1>5 DEF SeenDevice, ClosedInv, Ready
<1>6. ASSUME NEW r \in Reqs, NEW d \in Devices, NEW b \in Batches, PushArrive(r, d, b)
      PROVE  ClosedInv'
  BY <1>6 DEF PushArrive, ClosedInv, Ready
<1>7. ASSUME NEW r \in Reqs, PushStep(r) PROVE ClosedInv'
  <2>1. proc' = proc
    BY <1>7 DEF PushStep, PushLock, PushBegin, PushKnownOp, PushNewOp, PushCommit, PushFail, PushDone
  <2>2. req[r].st # "idle"
    BY <1>7, <1>a DEF PushStep, PushLock, PushBegin, PushKnownOp, PushNewOp, PushCommit, PushFail,
       PushDone, CoreInv, TxInv
  <2> QED
    BY <2>1, <2>2 DEF ClosedInv, Ready
<1> QED
  BY <1>1, <1>2, <1>3, <1>4, <1>5, <1>6, <1>7 DEF Next, vars

\* Whatever the store commits, the highest number of the current epoch is the end
\* of the log.
LEMMA StoreStepKeepsInv ==
  ASSUME RestoreInv, StoreStep
  PROVE  RestoreInv'
<1>a. /\ CoreInv /\ CoreInv' /\ Next /\ [Next]_vars /\ backup' = backup
      /\ peak' = [peak EXCEPT ![epoch'] = IF LastSeq(ops') > @ THEN LastSeq(ops') ELSE @]
  BY NextKeepsCoreInv DEF RestoreInv, StoreStep
<1>b. /\ minted \in 1..MaxEpochs /\ epoch \in 1..minted /\ MaxEpochs \in Nat
      /\ minted' \in 1..MaxEpochs /\ epoch' \in 1..minted' /\ MaxSeq \in Nat
      /\ LastSeq(ops) \in 0..MaxSeq /\ LastSeq(ops') \in 0..MaxSeq
  BY <1>a, StoreAssumption DEF CoreInv, TypeOK
<1>c. LastSeq(ops) <= LastSeq(ops')
  BY <1>a, StepKeepsLast
<1>d. minted <= minted'
  BY <1>a, <1>b, StepEpoch
<1>1. ClosedInv'
  BY <1>a, StepKeepsClosed DEF RestoreInv
<1>2. BackupInv'
  BY <1>a, <1>b, <1>d DEF RestoreInv, BackupInv, CopyOK
<1>3. PeakInv'
  <2> DEFINE m == IF LastSeq(ops') > peak[epoch'] THEN LastSeq(ops') ELSE peak[epoch']
  <2>1. peak \in [1..MaxEpochs -> 0..MaxSeq] /\ epoch' \in 1..MaxEpochs
    BY <1>b DEF RestoreInv, PeakInv
  <2>2. m \in 0..MaxSeq /\ peak' = [peak EXCEPT ![epoch'] = m]
    BY <2>1, <1>a, <1>b
  <2>3. peak' \in [1..MaxEpochs -> 0..MaxSeq]
    BY <2>1, <2>2
  <2>4. ASSUME NEW e \in 1..MaxEpochs, e > minted' PROVE peak'[e] = 0
    <3>1. e # epoch' /\ e > minted
      BY <2>4, <1>b, <1>d
    <3> QED
      BY <2>1, <2>2, <3>1 DEF RestoreInv, PeakInv
  <2>5. ASSUME backup = {} PROVE peak'[epoch'] <= LastSeq(ops')
    <3>1. peak[epoch] <= LastSeq(ops)
      BY <2>5 DEF RestoreInv, PeakInv
    <3>2. peak[epoch'] <= LastSeq(ops')
      <4>1. CASE epoch' = epoch
        BY <3>1, <4>1, <2>1, <1>b, <1>c
      <4>2. CASE epoch' = minted + 1
        <5>1. peak[epoch'] = 0
          BY <4>2, <2>1, <1>b DEF RestoreInv, PeakInv
        <5> QED
          BY <5>1, <1>b
      <4> QED
        BY <4>1, <4>2, <1>a, StepEpoch
    <3>3. peak'[epoch'] = m
      BY <2>1, <2>2
    <3> QED
      BY <3>2, <3>3, <1>b
  <2> QED
    BY <2>3, <2>4, <2>5, <1>a DEF PeakInv
<1> QED
  BY <1>a, <1>1, <1>2, <1>3 DEF RestoreInv

-----------------------------------------------------------------------------
(* The file under the store                                                *)

\* A sound database under closed processes is a sound state of the store.
LEMMA NewFileKeepsCore ==
  ASSUME CoreInv, ClosedInv, AllClosed, UNCHANGED <<proc, req, mu, tx, acked>>,
         minted' \in 1..MaxEpochs,
         CopyOK([ops |-> ops', head |-> head', epoch |-> epoch', devices |-> devices'], minted')
  PROVE  CoreInv' /\ ClosedInv'
<1>a. /\ IsTable(ops') /\ Gapless(ops') /\ OneSeqPerKey(ops')
      /\ LastSeq(ops') \in 0..MaxSeq
      /\ head' \in 0..MaxSeq /\ head' <= LastSeq(ops')
      /\ epoch' \in 1..minted'
      /\ devices' \in [Devices -> {"unknown", "active", "revoked"}]
  BY DEF CopyOK
<1>1. TypeOK'
  BY <1>a DEF CoreInv, TypeOK
<1>2. LogInv'
  <2>1. \A p \in Procs : proc[p].max = 0
    BY DEF AllClosed, ClosedInv, Closed
  <2> QED
    BY <2>1, <1>a, StoreAssumption DEF LogInv, LogOK
<1>3. TxInv'
  <2>1. tx = NoTx
    BY DEF AllClosed, ClosedInv, Ready, Procs
  <2> QED
    BY <2>1 DEF TxInv, NoTx
<1>4. ReqInv' /\ ClosedInv'
  BY DEF CoreInv, ReqInv, ClosedInv, Ready
<1> QED
  BY <1>1, <1>2, <1>3, <1>4 DEF CoreInv

\* A copy of a sound database is sound.
LEMMA TakeBackupKeepsInv ==
  ASSUME RestoreInv, TakeBackup
  PROVE  RestoreInv'
<1> DEFINE c == [ops |-> ops, head |-> head, epoch |-> epoch, devices |-> devices]
<1>1. CopyOK(c, minted)
  BY DEF RestoreInv, CoreInv, TypeOK, LogInv, LogOK, CopyOK
<1>2. backup' = {c} /\ UNCHANGED <<vars, peak>>
  BY DEF TakeBackup
<1> HIDE DEF c
<1>3. CoreInv' /\ ClosedInv'
  BY <1>2 DEF RestoreInv, vars, CoreInv, TypeOK, LogInv, TxInv, ReqInv, ClosedInv, Ready
<1>4. BackupInv'
  BY <1>1, <1>2 DEF BackupInv, vars
<1>5. PeakInv'
  BY <1>2 DEF RestoreInv, PeakInv, vars
<1> QED
  BY <1>3, <1>4, <1>5 DEF RestoreInv

\* A copy put back: the numbers above its end are gone, under its epoch.
LEMMA RestoreKeepsInv ==
  ASSUME RestoreInv, Restore
  PROVE  RestoreInv'
<1>1. PICK c \in backup : ops' = c.ops /\ head' = c.head /\ epoch' = c.epoch /\ devices' = c.devices
  BY DEF Restore
<1>2. UNCHANGED <<minted, proc, req, mu, tx, acked, backup, peak>> /\ AllClosed
  BY DEF Restore
<1>3. CopyOK(c, minted)
  BY DEF RestoreInv, BackupInv
<1>4. CopyOK([ops |-> ops', head |-> head', epoch |-> epoch', devices |-> devices'], minted')
  BY <1>1, <1>2, <1>3 DEF CopyOK
<1>5. CoreInv' /\ ClosedInv'
  BY <1>2, <1>4, NewFileKeepsCore DEF RestoreInv, CoreInv, TypeOK
<1>6. BackupInv' /\ PeakInv'
  BY <1>2 DEF RestoreInv, BackupInv, PeakInv
<1> QED
  BY <1>5, <1>6 DEF RestoreInv

\* A deleted file: an empty log under an epoch never drawn before.
LEMMA WipeKeepsInv ==
  ASSUME RestoreInv, Wipe
  PROVE  RestoreInv'
<1>1. /\ AllClosed /\ minted < MaxEpochs /\ minted' = minted + 1
      /\ ops' = EmptyTable /\ head' = 0 /\ epoch' = minted + 1
      /\ devices' = [d \in Devices |-> "unknown"]
      /\ UNCHANGED <<proc, req, mu, tx, acked, backup, peak>>
  BY DEF Wipe
<1>2. minted \in 1..MaxEpochs /\ MaxEpochs \in Nat /\ MaxSeq \in Nat
  BY StoreAssumption DEF RestoreInv, CoreInv, TypeOK
<1>3. minted' \in 1..MaxEpochs /\ epoch' \in 1..minted' /\ minted < minted'
  BY <1>1, <1>2
<1>4. CopyOK([ops |-> ops', head |-> head', epoch |-> epoch', devices |-> devices'], minted')
  BY <1>1, <1>2, <1>3, EmptyTableIsLog DEF CopyOK
<1>5. CoreInv' /\ ClosedInv'
  BY <1>1, <1>3, <1>4, NewFileKeepsCore DEF RestoreInv
<1>6. BackupInv'
  BY <1>1, <1>2, <1>3 DEF RestoreInv, BackupInv, CopyOK
<1>7. PeakInv'
  BY <1>1, <1>2, <1>3, EmptyTableIsLog DEF RestoreInv, PeakInv
<1> QED
  BY <1>5, <1>6, <1>7 DEF RestoreInv

-----------------------------------------------------------------------------
(* The theorems                                                            *)

\* Theorem: RestoreInv is an invariant of the store whose file may be replaced.
THEOREM RestoreInvariant == RestoreSpec => []RestoreInv
<1>1. RestoreInit => RestoreInv
  <2> SUFFICES ASSUME RestoreInit PROVE RestoreInv
    OBVIOUS
  <2>1. CoreInv
    BY InitCoreInv DEF RestoreInit
  <2>2. ClosedInv
    BY DEF RestoreInit, Init, ClosedInv, IdleReq
  <2>3. BackupInv
    BY DEF RestoreInit, BackupInv
  <2>4. PeakInv
    BY StoreAssumption, EmptyTableIsLog DEF RestoreInit, Init, PeakInv
  <2> QED
    BY <2>1, <2>2, <2>3, <2>4 DEF RestoreInv
<1>2. RestoreInv /\ UNCHANGED restoreVars => RestoreInv'
  BY DEF restoreVars, vars, RestoreInv, CoreInv, TypeOK, LogInv, TxInv, ReqInv, ClosedInv, Ready,
         BackupInv, PeakInv
<1> QED
  BY <1>1, <1>2, StoreStepKeepsInv, WipeKeepsInv, TakeBackupKeepsInv, RestoreKeepsInv, PTL
  DEF RestoreSpec

\* Theorem: whatever file it is given back, the store goes on with a gapless log, a
\* number for each revision once, and a counter that does not run ahead.
THEOREM RestoreSound == RestoreSpec => []SoundAfterRestore
<1>1. RestoreInv => SoundAfterRestore
  BY DEF RestoreInv, CoreInv, LogInv, LogOK, SoundAfterRestore
<1> QED
  BY <1>1, RestoreInvariant, PTL

\* Theorem: as long as no copy is put back, no number committed under the current
\* epoch is beyond the end of the log: neither a deleted file nor a head repair
\* takes numbers back under an epoch that clients have cursors for.
THEOREM RestoreWipeStartsEpoch == RestoreSpec => []WipeStartsEpoch
<1>1. RestoreInv => WipeStartsEpoch
  BY DEF RestoreInv, PeakInv, WipeStartsEpoch, EpochNamesOneLog
<1> QED
  BY <1>1, RestoreInvariant, PTL
=============================================================================
