--------------------------- MODULE HubStoreProofs ---------------------------
(***************************************************************************)
(* Proofs about HubStore, for any set of devices, requests, command-line   *)
(* processes and batches, and any bound on numbers and epochs.             *)
(*                                                                         *)
(* The properties are not inductive as they stand: a commit installs the   *)
(* transaction's view of the table, and a head repair installs a maximum   *)
(* that was read earlier. So CoreInv also says what an open transaction    *)
(* has built so far (TxInv), that no process remembers a maximum beyond    *)
(* the end of the log (LogInv), and what an answered request carries       *)
(* (ReqInv). AckInv adds the promises given to clients; it needs a log     *)
(* that is never replaced, CoreInv does not (HubRestoreProofs).            *)
(***************************************************************************)
EXTENDS HubStore, SequenceTheorems, TLAPS

-----------------------------------------------------------------------------
(* What the operators of LogTable do to a table that is numbered without a *)
(* gap: cited here and by the proofs about the modules that use a table.   *)

\* MAX(seq) of a table numbered 1..n is n; of an empty one, 0.
LEMMA LastSeqOfGapless ==
  ASSUME NEW t, NEW n \in Nat, DOMAIN t = 1..n
  PROVE  LastSeq(t) = n
<1>1. CASE n = 0
  BY <1>1 DEF LastSeq
<1>2. CASE n # 0
  <2>1. n \in DOMAIN t /\ \A s \in DOMAIN t : s <= n
    BY <1>2
  <2>2. \A m \in DOMAIN t : (\A s \in DOMAIN t : s <= m) => m = n
    BY <2>1
  <2> QED
    BY <2>1, <2>2 DEF LastSeq
<1> QED
  BY <1>1, <1>2

\* The empty table is a gapless table without rows.
LEMMA EmptyTableIsLog ==
  /\ IsTable(EmptyTable) /\ Gapless(EmptyTable) /\ OneSeqPerKey(EmptyTable)
  /\ LastSeq(EmptyTable) = 0
<1>1. DOMAIN EmptyTable = {}
  BY DEF EmptyTable
<1>2. LastSeq(EmptyTable) = 0
  BY <1>1 DEF LastSeq
<1> QED
  BY <1>1, <1>2 DEF IsTable, Gapless, OneSeqPerKey, EmptyTable

\* existingSeq finds a revision where it is stored.
LEMMA SeqOfFinds ==
  ASSUME NEW t, NEW k \in KeysIn(t)
  PROVE  SeqOf(k, t) \in DOMAIN t /\ t[SeqOf(k, t)].key = k
BY DEF KeysIn, SeqOf

\* ... and there is only one such place.
LEMMA SeqOfUnique ==
  ASSUME NEW t, OneSeqPerKey(t), NEW s \in DOMAIN t
  PROVE  SeqOf(t[s].key, t) = s
<1>1. t[s].key \in KeysIn(t)
  BY DEF KeysIn
<1> QED
  BY <1>1, SeqOfFinds DEF OneSeqPerKey

\* An acknowledgement outlives any growth of the table.
LEMMA ExtendsKeepsAcks ==
  ASSUME NEW t, NEW u, Extends(t, u), NEW a, AckSound(a, t)
  PROVE  AckSound(a, u)
BY DEF Extends, AckSound

LEMMA ExtendsTransitive ==
  ASSUME NEW t, NEW u, NEW v, Extends(t, u), Extends(u, v)
  PROVE  Extends(t, v)
BY DEF Extends

LEMMA ExtendsReflexive ==
  ASSUME NEW t
  PROVE  Extends(t, t)
BY DEF Extends

\* The heart of the sequencer. If the counter h is not ahead of a gapless log
\* and the INSERT at h + 1 is not refused, then h was the end of the log, and
\* the log with the new row is again gapless, without a repeated revision, and
\* keeps every row it had.
LEMMA InsertAtHead ==
  ASSUME NEW t, IsTable(t), Gapless(t), OneSeqPerKey(t), LastSeq(t) \in Nat,
         NEW h \in Nat, h <= LastSeq(t),
         NEW op \in Ops, CanInsert(t, h + 1, op)
  PROVE  /\ h = LastSeq(t)
         /\ IsTable(Insert(t, h + 1, op))
         /\ Gapless(Insert(t, h + 1, op))
         /\ OneSeqPerKey(Insert(t, h + 1, op))
         /\ LastSeq(Insert(t, h + 1, op)) = h + 1
         /\ Extends(t, Insert(t, h + 1, op))
         /\ AckSound([key |-> op.key, digest |-> op.digest, seq |-> h + 1],
                     Insert(t, h + 1, op))
<1> DEFINE u == Insert(t, h + 1, op)
<1>1. h = LastSeq(t)
  BY DEF CanInsert, Gapless
<1>2. DOMAIN u = 1..(h + 1) /\ h + 1 \in Nat
  BY <1>1 DEF Insert, Gapless
<1>3. LastSeq(u) = h + 1
  BY <1>2, LastSeqOfGapless
<1>4. u[h + 1] = op /\ \A s \in DOMAIN t : s # h + 1 /\ s \in DOMAIN u /\ u[s] = t[s]
  BY DEF Insert, CanInsert
<1>5. DOMAIN u = DOMAIN t \cup {h + 1}
  BY DEF Insert
<1>6. IsTable(u)
  <2>1. u = [s \in DOMAIN u |-> u[s]]
    BY DEF Insert
  <2>2. \A s \in DOMAIN u : s \in Nat /\ u[s] \in Ops
    BY <1>2, <1>4, <1>5 DEF IsTable
  <2> QED
    BY <2>1, <2>2 DEF IsTable
<1>7. OneSeqPerKey(u)
  <2> SUFFICES ASSUME NEW r \in DOMAIN u, NEW s \in DOMAIN u, u[r].key = u[s].key
               PROVE  r = s
    BY DEF OneSeqPerKey
  <2>1. \A x \in DOMAIN t : t[x].key # op.key
    BY DEF CanInsert, KeysIn
  <2> QED
    BY <1>4, <1>5, <2>1 DEF OneSeqPerKey
<1>8. Extends(t, u)
  BY <1>4 DEF Extends
<1>9. AckSound([key |-> op.key, digest |-> op.digest, seq |-> h + 1], u)
  BY <1>4, <1>5 DEF AckSound
<1> QED
  BY <1>1, <1>2, <1>3, <1>6, <1>7, <1>8, <1>9 DEF Gapless

-----------------------------------------------------------------------------
(* The inductive invariants.                                               *)

\* The committed log o, the counter h, and what the processes q have read of it.
LogOK(o, h, q) ==
  /\ Gapless(o) /\ OneSeqPerKey(o)
  /\ h <= LastSeq(o)
  /\ \A p \in Procs : q[p].max <= LastSeq(o)

\* The view of an open transaction t for the op list b: a log that extends the
\* committed one by ops of b, with a sound acknowledgement for each op so far.
ViewOK(o, t, b) ==
  /\ Gapless(t.rows) /\ OneSeqPerKey(t.rows) /\ Extends(o, t.rows)
  /\ LastSeq(t.rows) \in 0..MaxSeq /\ t.head <= LastSeq(t.rows)
  /\ Len(t.acks) <= Len(b)
  /\ \A i \in 1..Len(t.acks) :
       t.acks[i] = AckOf(b[i], t.acks[i].seq) /\ AckSound(t.acks[i], t.rows)
  /\ \A s \in DOMAIN t.rows \ DOMAIN o : \E i \in 1..Len(t.acks) : t.rows[s] = b[i]

\* A request x carries a batch; an answered one, an acknowledgement of each op.
RequestOK(x) ==
  /\ x.st # "idle" => x.ops \in Batches
  /\ x.st = "answered" =>
       /\ Len(x.acks) = Len(x.ops)
       /\ \A i \in 1..Len(x.acks) : x.acks[i] = AckOf(x.ops[i], x.acks[i].seq)

LogInv == LogOK(ops, head, proc)
TxInv  == tx.by # NoReq => req[tx.by].st = "tx" /\ ViewOK(ops, tx, req[tx.by].ops)
ReqInv == \A r \in Reqs : RequestOK(req[r])

CoreInv == TypeOK /\ LogInv /\ TxInv /\ ReqInv

\* Every acknowledgement given so far is sound, and those of an answered request
\* are among them.
AckInv ==
  /\ \A a \in acked : AckSound(a, ops)
  /\ \A r \in Reqs : req[r].st = "answered" =>
       \A i \in 1..Len(req[r].acks) : req[r].acks[i] \in acked

IndInv == CoreInv /\ AckInv

\* The initial database and idle processes satisfy the invariant.
LEMMA InitCoreInv == Init => CoreInv
<1> SUFFICES ASSUME Init PROVE CoreInv
  OBVIOUS
<1>1. TypeOK
  BY StoreAssumption, EmptyTableIsLog
  DEF Init, TypeOK, IdleReq, NoTx, Closed, Handle, Request, IsTx
<1>2. LogInv
  BY EmptyTableIsLog DEF Init, LogInv, LogOK, Closed
<1>3. TxInv
  BY DEF Init, TxInv, NoTx
<1>4. ReqInv
  BY DEF Init, ReqInv, RequestOK, IdleReq
<1> QED
  BY <1>1, <1>2, <1>3, <1>4 DEF CoreInv

\* The statements of store.Open, and the death of a process. Only RepairHead
\* touches the counter: it writes a maximum read earlier, which an append-only
\* log has not fallen below.
LEMMA OpenKeepsCoreInv ==
  ASSUME CoreInv, NEW p \in Procs, OpenStep(p) \/ Stop(p)
  PROVE  CoreInv'
<1> USE DEF CoreInv
<1>1. CASE LoadMeta(p)
  <2>a. epoch \in 0..MaxEpochs /\ 0 \in 0..MaxSeq
    BY StoreAssumption DEF TypeOK
  <2>0. [Closed EXCEPT !.pc = "meta", !.epoch = epoch] \in Handle
    BY <2>a DEF Handle, Closed
  <2>1. TypeOK'
    BY <1>1, <2>0 DEF LoadMeta, TypeOK, db
  <2>2. LogInv'
    BY <1>1 DEF LoadMeta, TypeOK, Handle, LogInv, LogOK, Closed, db
  <2>3. TxInv' /\ ReqInv'
    BY <1>1 DEF LoadMeta, TxInv, ReqInv, db
  <2> QED
    BY <2>1, <2>2, <2>3
<1>2. CASE ReadHead(p)
  <2>a. proc' \in [Procs -> Handle]
    <3>1. [proc[p] EXCEPT !.pc = "head", !.head = head] \in Handle
      BY DEF TypeOK, Handle
    <3> QED
      BY <1>2, <3>1 DEF ReadHead, TypeOK
  <2>1. TypeOK'
    BY <1>2, <2>a DEF ReadHead, TypeOK, db
  <2>2. LogInv'
    BY <1>2 DEF ReadHead, TypeOK, Handle, LogInv, LogOK, db
  <2>3. TxInv' /\ ReqInv'
    BY <1>2 DEF ReadHead, TxInv, ReqInv, db
  <2> QED
    BY <2>1, <2>2, <2>3
<1>3. CASE ReadMaxSeq(p)
  <2>1. TypeOK'
    BY <1>3 DEF ReadMaxSeq, TypeOK, Handle, db
  <2>2. LogInv'
    BY <1>3 DEF ReadMaxSeq, TypeOK, Handle, LogInv, LogOK, db
  <2>3. TxInv' /\ ReqInv'
    BY <1>3 DEF ReadMaxSeq, TxInv, ReqInv, db
  <2> QED
    BY <2>1, <2>2, <2>3
<1>4. CASE RepairHead(p)
  <2>1. TypeOK'
    BY <1>4 DEF RepairHead, TypeOK, Handle
  <2>2. LogInv'
    BY <1>4 DEF RepairHead, TypeOK, Handle, LogInv, LogOK
  <2>3. TxInv' /\ ReqInv'
    BY <1>4 DEF RepairHead, TxInv, ReqInv
  <2> QED
    BY <2>1, <2>2, <2>3
<1>5. CASE BumpEpoch(p)
  <2>0. minted + 1 \in 1..MaxEpochs /\ minted + 1 \in 0..MaxEpochs
    BY <1>5, StoreAssumption DEF BumpEpoch, TypeOK
  <2>a. proc' \in [Procs -> Handle]
    <3>1. [proc[p] EXCEPT !.pc = "ready", !.epoch = minted + 1] \in Handle
      BY <2>0 DEF TypeOK, Handle
    <3> QED
      BY <1>5, <3>1 DEF BumpEpoch, TypeOK
  <2>1. TypeOK'
    BY <1>5, <2>0, <2>a DEF BumpEpoch, TypeOK
  <2>2. LogInv'
    BY <1>5 DEF BumpEpoch, TypeOK, Handle, LogInv, LogOK
  <2>3. TxInv' /\ ReqInv'
    BY <1>5 DEF BumpEpoch, TxInv, ReqInv
  <2> QED
    BY <2>1, <2>2, <2>3
<1>6. CASE Stop(p)
  <2>0. \/ req' = req /\ mu' = mu /\ tx' = tx
        \/ req' = [r \in Reqs |-> IdleReq] /\ mu' = NoReq /\ tx' = NoTx
    BY <1>6 DEF Stop
  <2>a. Closed \in Handle /\ IdleReq \in Request /\ IsTx(NoTx)
    BY StoreAssumption, EmptyTableIsLog DEF Handle, Request, IsTx, Closed, IdleReq, NoTx
  <2>1. TypeOK'
    BY <1>6, <2>0, <2>a DEF Stop, TypeOK, db
  <2>2. LogInv'
    BY <1>6 DEF Stop, TypeOK, Handle, LogInv, LogOK, Closed, db
  <2>3. TxInv' /\ ReqInv'
    BY <1>6, <2>0 DEF Stop, TxInv, ReqInv, RequestOK, IdleReq, NoTx, db
  <2> QED
    BY <2>1, <2>2, <2>3
<1> QED
  BY <1>1, <1>2, <1>3, <1>4, <1>5, <1>6 DEF OpenStep

\* The devices table is no part of the log.
LEMMA DevicesKeepCoreInv ==
  ASSUME CoreInv, NEW d \in Devices, SeenDevice(d) \/ \E p \in Clis : RevokeDevice(p, d)
  PROVE  CoreInv'
<1> USE DEF CoreInv
<1>1. CASE SeenDevice(d)
  BY <1>1 DEF SeenDevice, upsertDevice, TypeOK, LogInv, TxInv, ReqInv
<1>2. ASSUME NEW p \in Clis, RevokeDevice(p, d) PROVE CoreInv'
  <2>1. TypeOK'
    BY <1>2, StoreAssumption DEF RevokeDevice, TypeOK, Handle, Closed, Procs
  <2>2. LogInv'
    BY <1>2 DEF RevokeDevice, TypeOK, LogInv, LogOK, Closed, Procs
  <2>3. TxInv' /\ ReqInv'
    BY <1>2 DEF RevokeDevice, TxInv, ReqInv
  <2> QED
    BY <2>1, <2>2, <2>3
<1> QED
  BY <1>1, <1>2

\* Admission, the mutex, and the ends of a request that commit nothing.
LEMMA AdmissionKeepsCoreInv ==
  ASSUME CoreInv, NEW r \in Reqs,
         \/ \E d \in Devices, b \in Batches : PushArrive(r, d, b)
         \/ PushLock(r) \/ PushFail(r) \/ PushDone(r)
  PROVE  CoreInv'
<1> USE DEF CoreInv
<1>a. IdleReq \in Request /\ IsTx(NoTx) /\ NoReq \notin Reqs
  BY StoreAssumption, EmptyTableIsLog DEF Request, IsTx, IdleReq, NoTx
<1>1. ASSUME NEW d \in Devices, NEW b \in Batches, PushArrive(r, d, b) PROVE CoreInv'
  <2>a. b \in Seq(Ops) /\ <<>> \in Seq(Ack) /\ 0 \in 0..MaxSeq
    BY StoreAssumption
  <2>0. [IdleReq EXCEPT !.st = "waiting", !.dev = d, !.ops = b] \in Request
    BY <2>a DEF Request, IdleReq
  <2>1. TypeOK'
    BY <1>1, <2>0 DEF PushArrive, TypeOK, db
  <2>2. LogInv'
    BY <1>1 DEF PushArrive, LogInv, db
  <2>3. TxInv'
    BY <1>1 DEF PushArrive, TypeOK, TxInv, IsTx, db
  <2>4. ReqInv'
    BY <1>1 DEF PushArrive, TypeOK, ReqInv, RequestOK, IdleReq, db
  <2> QED
    BY <2>1, <2>2, <2>3, <2>4
<1>2. CASE PushLock(r)
  <2>0. req[r].st = "waiting" /\ tx' = tx /\ UNCHANGED <<db, acked, minted, proc>>
        /\ (req' = [req EXCEPT ![r] = IdleReq] \/ req' = [req EXCEPT ![r].st = "locked"])
        /\ (mu' = mu \/ mu' = r)
    BY <1>2 DEF PushLock
  <2>a. req' \in [Reqs -> Request]
    <3>1. CASE req' = [req EXCEPT ![r] = IdleReq]
      BY <3>1, <1>a DEF TypeOK
    <3>2. CASE req' = [req EXCEPT ![r].st = "locked"]
      BY <3>2 DEF TypeOK, Request
    <3> QED
      BY <2>0, <3>1, <3>2
  <2>1. TypeOK'
    BY <2>0, <2>a DEF TypeOK, db
  <2>2. LogInv'
    BY <2>0 DEF LogInv, db
  <2>3. TxInv'
    BY <2>0 DEF TypeOK, TxInv, IsTx, db
  <2>4. ReqInv'
    <3> SUFFICES ASSUME NEW q \in Reqs PROVE RequestOK(req'[q])
      BY DEF ReqInv
    <3>1. CASE q # r
      BY <2>0, <3>1 DEF TypeOK, ReqInv
    <3>2. CASE q = r /\ req' = [req EXCEPT ![r] = IdleReq]
      BY <3>2 DEF TypeOK, RequestOK, IdleReq
    <3>3. CASE q = r /\ req' = [req EXCEPT ![r].st = "locked"]
      <4>1. req'[r].st = "locked" /\ req'[r].ops = req[r].ops
        BY <3>3 DEF TypeOK, Request
      <4> QED
        BY <4>1, <2>0, <3>3 DEF ReqInv, RequestOK
    <3> QED
      BY <2>0, <3>1, <3>2, <3>3
  <2> QED
    BY <2>1, <2>2, <2>3, <2>4
<1>3. CASE PushFail(r)
  <2>1. TypeOK'
    BY <1>3, <1>a DEF PushFail, TypeOK, db
  <2>2. LogInv'
    BY <1>3 DEF PushFail, LogInv, db
  <2>3. TxInv'
    <3>1. CASE tx.by = r
      BY <3>1, <1>3 DEF PushFail, TxInv, NoTx
    <3>2. CASE tx.by # r
      <4>1. tx' = tx /\ ops' = ops /\ (tx.by # NoReq => req'[tx.by] = req[tx.by])
        BY <3>2, <1>3 DEF PushFail, TypeOK, IsTx, db
      <4> QED
        BY <4>1 DEF TxInv
    <3> QED
      BY <3>1, <3>2
  <2>4. ReqInv'
    BY <1>3 DEF PushFail, TypeOK, ReqInv, RequestOK, IdleReq
  <2> QED
    BY <2>1, <2>2, <2>3, <2>4
<1>4. CASE PushDone(r)
  <2>1. TypeOK'
    BY <1>4, <1>a DEF PushDone, TypeOK, db
  <2>2. LogInv'
    BY <1>4 DEF PushDone, LogInv, db
  <2>3. TxInv'
    BY <1>4 DEF PushDone, TypeOK, TxInv, IsTx, db
  <2>4. ReqInv'
    BY <1>4 DEF PushDone, TypeOK, ReqInv, RequestOK, IdleReq
  <2> QED
    BY <2>1, <2>2, <2>3, <2>4
<1> QED
  BY <1>1, <1>2, <1>3, <1>4

\* BEGIN IMMEDIATE takes the committed table as the transaction's view.
LEMMA BeginKeepsCoreInv ==
  ASSUME CoreInv, NEW r \in Reqs, PushBegin(r)
  PROVE  CoreInv'
<1> USE DEF CoreInv, PushBegin
<1>1. IsTx(tx')
  BY DEF TypeOK, IsTx
<1>2. TypeOK'
  BY <1>1 DEF TypeOK, Request, db
<1>3. LogInv'
  BY DEF LogInv, db
<1>4. req'[r].st = "tx" /\ req'[r].ops = req[r].ops
  BY DEF TypeOK, Request
<1>5. ViewOK(ops', tx', req'[r].ops)
  <2>1. Gapless(ops) /\ OneSeqPerKey(ops) /\ Extends(ops, ops) /\ head <= LastSeq(ops)
    BY ExtendsReflexive DEF LogInv, LogOK
  <2>2. tx'.rows = ops /\ tx'.head = head /\ tx'.acks = <<>> /\ ops' = ops
    BY DEF db
  <2>3. req[r].ops \in Seq(Ops) /\ LastSeq(ops) \in 0..MaxSeq
    BY DEF TypeOK, Request
  <2> QED
    BY <2>1, <2>2, <2>3 DEF ViewOK
<1>6. TxInv'
  BY <1>4, <1>5 DEF TxInv
<1>7. ReqInv'
  BY DEF TypeOK, Request, ReqInv, RequestOK
<1> QED
  BY <1>2, <1>3, <1>6, <1>7

\* A turn of the loop leaves everything but the transaction alone, so it is
\* enough that the transaction is well formed and its view still sound.
LEMMA LoopTurn ==
  ASSUME CoreInv, NEW r \in Reqs, tx.by = r, tx'.by = r, IsTx(tx'),
         ViewOK(ops, tx', req[r].ops), UNCHANGED <<db, minted, proc, req, mu, acked>>
  PROVE  CoreInv'
<1>1. TypeOK'
  BY DEF CoreInv, TypeOK, db
<1>2. LogInv' /\ ReqInv'
  BY DEF CoreInv, LogInv, ReqInv, db
<1>3. req[r].st = "tx"
  BY StoreAssumption DEF CoreInv, TxInv
<1>4. TxInv'
  BY <1>3 DEF TxInv, db
<1> QED
  BY <1>1, <1>2, <1>4 DEF CoreInv

\* One more acknowledgement, for the op the loop is at.
LEMMA AppendAck ==
  ASSUME NEW acks \in Seq(Ack), NEW b \in Seq(Ops), Len(acks) < Len(b),
         NEW n \in Nat
  PROVE  LET op  == b[Len(acks) + 1]
             new == Append(acks, AckOf(op, n))
         IN  /\ op \in Ops
             /\ new \in Seq(Ack)
             /\ Len(new) = Len(acks) + 1 /\ Len(new) <= Len(b)
             /\ \A i \in 1..Len(acks) : new[i] = acks[i]
             /\ new[Len(acks) + 1] = AckOf(b[Len(acks) + 1], n)
             /\ AckOf(op, n).seq = n
<1> DEFINE op == b[Len(acks) + 1]
<1>1. op \in Ops
  BY ElementOfSeq
<1>2. AckOf(op, n) \in Ack /\ AckOf(op, n).seq = n
  BY <1>1 DEF AckOf, Ops, Ack
<1> HIDE DEF op
<1> QED
  BY <1>1, <1>2 DEF op

\* The loop acknowledges a stored revision with the number it has.
LEMMA KnownOpKeepsCoreInv ==
  ASSUME CoreInv, NEW r \in Reqs, PushKnownOp(r)
  PROVE  CoreInv'
<1> USE DEF CoreInv, PushKnownOp
<1> DEFINE b == req[r].ops
           op == CurrentOp(r)
           n == SeqOf(op.key, tx.rows)
<1>1. /\ tx \in [by : Reqs \cup {NoReq}, rows : {tx.rows}, head : 0..MaxSeq, acks : Seq(Ack)]
      /\ IsTable(tx.rows) /\ b \in Seq(Ops)
  BY DEF TypeOK, IsTx, Request
<1>2. ViewOK(ops, tx, b)
  BY StoreAssumption DEF TxInv
<1>3. n \in DOMAIN tx.rows /\ tx.rows[n].key = op.key /\ n \in Nat
  BY <1>1, SeqOfFinds DEF IsTable
<1>4. tx'.acks = Append(tx.acks, AckOf(op, n)) /\ tx'.by = r
      /\ tx'.rows = tx.rows /\ tx'.head = tx.head
      /\ tx' = [by |-> r, rows |-> tx.rows, head |-> tx.head, acks |-> tx'.acks]
  BY <1>1
<1>a. Len(tx.acks) < Len(b) /\ op = b[Len(tx.acks) + 1]
  BY DEF CurrentOp
<1> HIDE DEF CoreInv, PushKnownOp, n, op, b
<1>5. /\ tx'.acks \in Seq(Ack)
      /\ Len(tx'.acks) = Len(tx.acks) + 1 /\ Len(tx'.acks) <= Len(b)
      /\ \A i \in 1..Len(tx.acks) : tx'.acks[i] = tx.acks[i]
      /\ tx'.acks[Len(tx.acks) + 1] = AckOf(b[Len(tx.acks) + 1], n)
      /\ AckOf(op, n).seq = n
  BY <1>1, <1>3, <1>4, <1>a, AppendAck
<1>6. IsTx(tx')
  BY <1>1, <1>4, <1>5 DEF IsTx
<1>7. AckSound(AckOf(op, n), tx.rows)
  BY <1>3 DEF AckSound, AckOf
<1>8. ViewOK(ops, tx', b)
  <2>1. Len(tx.acks) \in Nat
    BY <1>1
  <2>2. ASSUME NEW i \in 1..Len(tx'.acks)
        PROVE  tx'.acks[i] = AckOf(b[i], tx'.acks[i].seq) /\ AckSound(tx'.acks[i], tx'.rows)
    <3>1. CASE i = Len(tx.acks) + 1
      BY <1>4, <1>5, <1>7, <1>a, <3>1
    <3>2. CASE i \in 1..Len(tx.acks)
      <4>1. tx.acks[i] = AckOf(b[i], tx.acks[i].seq) /\ AckSound(tx.acks[i], tx.rows)
        BY <1>2, <3>2 DEF ViewOK
      <4>2. tx'.acks[i] = tx.acks[i]
        BY <1>5, <3>2
      <4> QED
        BY <1>4, <4>1, <4>2
    <3> QED
      BY <1>5, <2>1, <3>1, <3>2
  <2>3. ASSUME NEW s \in DOMAIN tx'.rows \ DOMAIN ops
        PROVE  \E i \in 1..Len(tx'.acks) : tx'.rows[s] = b[i]
    <3>1. PICK i \in 1..Len(tx.acks) : tx.rows[s] = b[i]
      BY <1>2, <1>4 DEF ViewOK
    <3>2. i \in 1..Len(tx'.acks)
      BY <1>5, <2>1
    <3> QED
      BY <1>4, <3>1, <3>2
  <2> QED
    BY <1>2, <1>4, <1>5, <2>2, <2>3 DEF ViewOK
<1> QED
  BY <1>4, <1>6, <1>8, LoopTurn DEF PushKnownOp, b

\* The loop gives a new revision the next number; the primary key guarantees
\* that the counter it started from was the end of the log.
LEMMA NewOpKeepsCoreInv ==
  ASSUME CoreInv, NEW r \in Reqs, PushNewOp(r)
  PROVE  CoreInv'
<1> USE DEF CoreInv, PushNewOp
<1> DEFINE b == req[r].ops
           op == CurrentOp(r)
           n == tx.head + 1
           u == Insert(tx.rows, n, op)
<1>1. /\ tx \in [by : Reqs \cup {NoReq}, rows : {tx.rows}, head : 0..MaxSeq, acks : Seq(Ack)]
      /\ IsTable(tx.rows) /\ b \in Seq(Ops)
  BY DEF TypeOK, IsTx, Request
<1>2. ViewOK(ops, tx, b)
  BY StoreAssumption DEF TxInv
<1>3. n \in Nat /\ n \in 0..MaxSeq /\ tx.head \in Nat
  BY <1>1, StoreAssumption
<1>4. tx'.acks = Append(tx.acks, AckOf(op, n)) /\ tx'.by = r
      /\ tx'.rows = u /\ tx'.head = n
      /\ tx' = [by |-> r, rows |-> u, head |-> n, acks |-> tx'.acks]
  BY <1>1
<1>5. /\ tx'.acks \in Seq(Ack) /\ op \in Ops
      /\ Len(tx'.acks) = Len(tx.acks) + 1 /\ Len(tx'.acks) <= Len(b)
      /\ \A i \in 1..Len(tx.acks) : tx'.acks[i] = tx.acks[i]
      /\ tx'.acks[Len(tx.acks) + 1] = AckOf(b[Len(tx.acks) + 1], n)
      /\ AckOf(op, n).seq = n /\ op = b[Len(tx.acks) + 1]
  BY <1>1, <1>3, <1>4, AppendAck DEF CurrentOp
<1>6. /\ IsTable(u) /\ Gapless(u) /\ OneSeqPerKey(u)
      /\ LastSeq(u) = n /\ Extends(tx.rows, u) /\ AckSound(AckOf(op, n), u)
  <2>1. LastSeq(tx.rows) \in Nat /\ tx.head <= LastSeq(tx.rows)
        /\ Gapless(tx.rows) /\ OneSeqPerKey(tx.rows)
    BY <1>2, StoreAssumption DEF ViewOK
  <2>2. CanInsert(tx.rows, tx.head + 1, op)
    OBVIOUS
  <2> HIDE DEF op
  <2> QED
    BY <1>1, <1>3, <1>5, <2>1, <2>2, InsertAtHead DEF AckOf
<1>7. IsTx(tx')
  BY <1>1, <1>3, <1>4, <1>5, <1>6 DEF IsTx
<1>8. ViewOK(ops, tx', b)
  <2>1. Len(tx.acks) \in Nat
    BY <1>1
  <2>2. ASSUME NEW i \in 1..Len(tx'.acks)
        PROVE  tx'.acks[i] = AckOf(b[i], tx'.acks[i].seq) /\ AckSound(tx'.acks[i], tx'.rows)
    <3>1. CASE i = Len(tx.acks) + 1
      <4> HIDE DEF n, op, b, u
      <4> QED
        BY <1>4, <1>5, <1>6, <3>1
    <3>2. CASE i \in 1..Len(tx.acks)
      <4>1. /\ tx.acks[i] = AckOf(b[i], tx.acks[i].seq)
            /\ AckSound(tx.acks[i], tx.rows)
        BY <1>2, <3>2 DEF ViewOK
      <4>2. AckSound(tx.acks[i], u)
        BY <1>6, <4>1, ExtendsKeepsAcks
      <4> HIDE DEF u, b
      <4> QED
        BY <1>4, <1>5, <3>2, <4>1, <4>2
    <3> QED
      BY <1>5, <2>1, <3>1, <3>2
  <2>3. ASSUME NEW s \in DOMAIN tx'.rows \ DOMAIN ops
        PROVE  \E i \in 1..Len(tx'.acks) : tx'.rows[s] = b[i]
    <3>1. CASE s = n
      <4>1. tx'.rows[s] = op
        BY <1>4, <3>1 DEF Insert
      <4> QED
        BY <4>1, <1>5, <2>1
    <3>2. CASE s # n
      <4>1. s \in DOMAIN tx.rows /\ tx'.rows[s] = tx.rows[s]
        BY <1>4, <3>2 DEF Insert
      <4> QED
        BY <4>1, <1>2, <1>5, <2>1 DEF ViewOK
    <3> QED
      BY <3>1, <3>2
  <2>4. Extends(ops, tx'.rows)
    BY <1>2, <1>4, <1>6, ExtendsTransitive DEF ViewOK
  <2>5. Gapless(tx'.rows) /\ OneSeqPerKey(tx'.rows)
    BY <1>4, <1>6
  <2>6. LastSeq(tx'.rows) \in 0..MaxSeq /\ tx'.head <= LastSeq(tx'.rows)
    BY <1>3, <1>4, <1>6
  <2> QED
    BY <1>5, <2>2, <2>3, <2>4, <2>5, <2>6 DEF ViewOK
<1> QED
  BY <1>4, <1>7, <1>8, LoopTurn

\* What a commit knows: its view is sound and complete for its batch.
LEMMA CommitFacts ==
  ASSUME CoreInv, NEW r \in Reqs, PushCommit(r)
  PROVE  /\ ops' = tx.rows /\ IsTable(tx.rows)
         /\ tx.acks \in Seq(Ack) /\ tx.head \in 0..MaxSeq
         /\ req[r].ops \in Batches /\ req[r].ops \in Seq(Ops)
         /\ Len(tx.acks) = Len(req[r].ops)
         /\ ViewOK(ops, tx, req[r].ops)
         /\ LastSeq(ops) <= LastSeq(tx.rows)
<1> USE DEF CoreInv, PushCommit
<1>1. IsTable(tx.rows) /\ tx.acks \in Seq(Ack) /\ tx.head \in 0..MaxSeq
      /\ req[r].ops \in Seq(Ops)
  BY DEF TypeOK, IsTx, Request
<1>2. ViewOK(ops, tx, req[r].ops) /\ req[r].st = "tx"
  BY StoreAssumption DEF TxInv
<1>3. req[r].ops \in Batches
  BY <1>2 DEF ReqInv, RequestOK
<1>4. LastSeq(ops) <= LastSeq(tx.rows)
  <2>1. LastSeq(ops) \in Nat /\ LastSeq(tx.rows) \in Nat
    BY <1>2, StoreAssumption DEF TypeOK, ViewOK
  <2>2. DOMAIN ops = 1..LastSeq(ops) /\ DOMAIN tx.rows = 1..LastSeq(tx.rows)
    BY <1>2 DEF ViewOK, LogInv, LogOK, Gapless
  <2>3. DOMAIN ops \subseteq DOMAIN tx.rows
    BY <1>2 DEF ViewOK, Extends
  <2> QED
    BY <2>1, <2>2, <2>3
<1> QED
  BY <1>1, <1>2, <1>3, <1>4

\* COMMIT installs the view: the log it leaves is sound, and so are all the
\* acknowledgements given so far.
LEMMA CommitKeepsCoreInv ==
  ASSUME CoreInv, NEW r \in Reqs, PushCommit(r)
  PROVE  CoreInv'
<1> DEFINE new == {tx.acks[i] : i \in DOMAIN tx.acks}
<1>0. /\ ops' = tx.rows /\ head' = tx.head /\ acked' = acked \cup new
      /\ devices' = upsertDevice(req[r].dev)
      /\ req' = [req EXCEPT ![r].st = "answered", ![r].acks = tx.acks, ![r].head = tx.head]
      /\ mu' = NoReq /\ tx' = NoTx /\ UNCHANGED <<epoch, minted, proc>>
  BY DEF PushCommit
<1>a. /\ IsTable(tx.rows)
      /\ tx.acks \in Seq(Ack) /\ tx.head \in 0..MaxSeq
      /\ Len(tx.acks) = Len(req[r].ops) /\ req[r].ops \in Batches
      /\ ViewOK(ops, tx, req[r].ops) /\ LastSeq(ops) <= LastSeq(tx.rows)
  BY CommitFacts
<1>1. LastSeq(tx.rows) \in 0..MaxSeq /\ IsTx(NoTx)
  BY <1>a, StoreAssumption, EmptyTableIsLog DEF ViewOK, IsTx, NoTx
<1>2. req' \in [Reqs -> Request]
  <2>1. req \in [Reqs -> Request]
    BY DEF CoreInv, TypeOK
  <2>2. \A q \in Reqs \ {r} : req'[q] = req[q]
    BY <1>0, <2>1
  <2>3. req'[r] = [req[r] EXCEPT !.st = "answered", !.acks = tx.acks, !.head = tx.head]
    BY <1>0, <2>1
  <2>4. req'[r] \in Request
    BY <1>a, <2>1, <2>3 DEF Request
  <2>5. req' = [q \in Reqs |-> req'[q]]
    BY <1>0, <2>1
  <2> QED
    BY <2>1, <2>2, <2>4, <2>5
<1>3. new \subseteq Ack
  BY <1>a
<1>4. devices' \in [Devices -> {"unknown", "active", "revoked"}]
  BY <1>0 DEF CoreInv, TypeOK, upsertDevice
<1>5. TypeOK'
  BY <1>0, <1>a, <1>1, <1>2, <1>3, <1>4 DEF CoreInv, TypeOK
<1>6. LogInv'
  <2>1. \A p \in Procs : proc[p].max <= LastSeq(tx.rows)
    BY <1>a, <1>1, StoreAssumption DEF CoreInv, TypeOK, Handle, LogInv, LogOK
  <2>4. Gapless(tx.rows) /\ OneSeqPerKey(tx.rows) /\ tx.head <= LastSeq(tx.rows)
    BY <1>a DEF ViewOK
  <2> QED
    BY <1>0, <2>1, <2>4 DEF LogInv, LogOK
<1>7. TxInv'
  BY <1>0 DEF TxInv, NoTx
<1>8. ReqInv'
  <2> SUFFICES ASSUME NEW q \in Reqs PROVE RequestOK(req'[q])
    BY DEF ReqInv
  <2>1. CASE q # r
    BY <1>0, <2>1 DEF CoreInv, TypeOK, ReqInv, RequestOK
  <2>2. CASE q = r
    <3>1. req'[r].st = "answered" /\ req'[r].ops = req[r].ops /\ req'[r].acks = tx.acks
      BY <1>0 DEF CoreInv, TypeOK, Request
    <3>3. \A i \in 1..Len(tx.acks) : tx.acks[i] = AckOf(req[r].ops[i], tx.acks[i].seq)
      BY <1>a DEF ViewOK
    <3> QED
      BY <1>a, <2>2, <3>1, <3>3 DEF RequestOK
  <2> QED
    BY <2>1, <2>2
<1> QED
  BY <1>5, <1>6, <1>7, <1>8 DEF CoreInv

\* Every step of the store keeps the invariant.
LEMMA NextKeepsCoreInv == CoreInv /\ [Next]_vars => CoreInv'
<1> SUFFICES ASSUME CoreInv, [Next]_vars PROVE CoreInv'
  OBVIOUS
<1>1. CASE UNCHANGED vars
  BY <1>1 DEF vars, CoreInv, TypeOK, LogInv, TxInv, ReqInv
<1>2. ASSUME NEW p \in Procs, OpenStep(p) \/ Stop(p) PROVE CoreInv'
  BY <1>2, OpenKeepsCoreInv
<1>3. ASSUME NEW d \in Devices, SeenDevice(d) \/ \E p \in Clis : RevokeDevice(p, d)
      PROVE  CoreInv'
  BY <1>3, DevicesKeepCoreInv
<1>4. ASSUME NEW r \in Reqs, NEW d \in Devices, NEW b \in Batches, PushArrive(r, d, b)
      PROVE  CoreInv'
  BY <1>4, AdmissionKeepsCoreInv
<1>5. ASSUME NEW r \in Reqs, PushStep(r) PROVE CoreInv'
  BY <1>5, AdmissionKeepsCoreInv, BeginKeepsCoreInv, KnownOpKeepsCoreInv,
     NewOpKeepsCoreInv, CommitKeepsCoreInv DEF PushStep
<1> QED
  BY <1>1, <1>2, <1>3, <1>4, <1>5 DEF Next

\* Only a commit changes the table; it installs an extension of it.
LEMMA StepExtends == CoreInv /\ [Next]_vars => Extends(ops, ops')
<1> SUFFICES ASSUME CoreInv, [Next]_vars PROVE Extends(ops, ops')
  OBVIOUS
<1>1. CASE UNCHANGED ops
  BY <1>1, ExtendsReflexive
<1>2. ASSUME NEW r \in Reqs, PushCommit(r) PROVE Extends(ops, ops')
  BY <1>2, CommitFacts DEF ViewOK
<1>3. UNCHANGED ops \/ \E r \in Reqs : PushCommit(r)
  BY DEF Next, vars, db, OpenStep, PushStep, LoadMeta, ReadHead, ReadMaxSeq, RepairHead,
     BumpEpoch, Stop, RevokeDevice, SeenDevice, PushArrive, PushLock, PushBegin,
     PushKnownOp, PushNewOp, PushFail, PushDone
<1> QED
  BY <1>1, <1>2, <1>3

\* The end of the log never moves back.
LEMMA StepKeepsLast == CoreInv /\ [Next]_vars => LastSeq(ops) <= LastSeq(ops')
<1> SUFFICES ASSUME CoreInv, [Next]_vars PROVE LastSeq(ops) <= LastSeq(ops')
  OBVIOUS
<1>1. LastSeq(ops) \in Nat /\ LastSeq(ops') \in Nat
  BY NextKeepsCoreInv, StoreAssumption DEF CoreInv, TypeOK
<1>2. DOMAIN ops = 1..LastSeq(ops) /\ DOMAIN ops' = 1..LastSeq(ops')
  BY NextKeepsCoreInv DEF CoreInv, LogInv, LogOK, Gapless
<1>3. DOMAIN ops \subseteq DOMAIN ops'
  BY StepExtends DEF Extends
<1> QED
  BY <1>1, <1>2, <1>3

\* Acknowledgements are given by commits only, out of the view they install, and
\* an extended log still holds the older ones.
LEMMA NextKeepsAckInv == IndInv /\ [Next]_vars => AckInv'
<1> SUFFICES ASSUME CoreInv, AckInv, [Next]_vars PROVE AckInv'
  BY DEF IndInv
<1>1. ASSUME NEW r \in Reqs, PushCommit(r) PROVE AckInv'
  <2> DEFINE new == {tx.acks[i] : i \in DOMAIN tx.acks}
  <2>1. /\ ops' = tx.rows /\ acked' = acked \cup new
        /\ req' = [req EXCEPT ![r].st = "answered", ![r].acks = tx.acks, ![r].head = tx.head]
    BY <1>1 DEF PushCommit
  <2>2. tx.acks \in Seq(Ack) /\ ViewOK(ops, tx, req[r].ops) /\ req \in [Reqs -> Request]
    BY <1>1, CommitFacts DEF CoreInv, TypeOK
  <2>3. \A a \in acked : AckSound(a, tx.rows)
    BY <2>2, ExtendsKeepsAcks DEF AckInv, ViewOK
  <2>4. \A a \in new : AckSound(a, tx.rows)
    BY <2>2 DEF ViewOK
  <2>5. ASSUME NEW q \in Reqs, req'[q].st = "answered", NEW i \in 1..Len(req'[q].acks)
        PROVE  req'[q].acks[i] \in acked'
    <3>1. CASE q = r
      BY <2>1, <2>2, <2>5, <3>1 DEF Request
    <3>2. CASE q # r
      BY <2>1, <2>2, <2>5, <3>2 DEF AckInv
    <3> QED
      BY <3>1, <3>2
  <2> QED
    BY <2>1, <2>3, <2>4, <2>5 DEF AckInv
<1>2. ASSUME acked' = acked, \A q \in Reqs : req'[q].st = "answered" => req'[q] = req[q]
      PROVE  AckInv'
  BY <1>2, StepExtends, ExtendsKeepsAcks DEF AckInv
<1>3. \/ \E r \in Reqs : PushCommit(r)
      \/ acked' = acked /\ \A q \in Reqs : req'[q].st = "answered" => req'[q] = req[q]
  <2>1. CASE UNCHANGED <<acked, req>>
    BY <2>1
  <2>2. ASSUME NEW r \in Reqs, PushStep(r), ~PushCommit(r), NEW q \in Reqs, req'[q].st = "answered"
        PROVE  acked' = acked /\ req'[q] = req[q]
    BY <2>2 DEF CoreInv, TypeOK, Request, IdleReq, PushStep, PushLock, PushBegin, PushKnownOp,
       PushNewOp, PushFail, PushDone
  <2>3. ASSUME NEW r \in Reqs, PushStep(r) PROVE PushCommit(r) \/ acked' = acked
    BY <2>3 DEF PushStep, PushLock, PushBegin, PushKnownOp, PushNewOp, PushFail, PushDone
  <2>4. ASSUME NEW r \in Reqs, NEW d \in Devices, NEW b \in Batches, PushArrive(r, d, b)
        PROVE  acked' = acked /\ \A q \in Reqs : req'[q].st = "answered" => req'[q] = req[q]
    BY <2>4 DEF CoreInv, TypeOK, IdleReq, PushArrive
  <2>5. ASSUME NEW p \in Procs, OpenStep(p) \/ Stop(p)
        PROVE  acked' = acked /\ \A q \in Reqs : req'[q].st = "answered" => req'[q] = req[q]
    BY <2>5 DEF OpenStep, LoadMeta, ReadHead, ReadMaxSeq, RepairHead, BumpEpoch, Stop, IdleReq
  <2>6. ASSUME NEW d \in Devices, SeenDevice(d) \/ \E p \in Clis : RevokeDevice(p, d)
        PROVE  UNCHANGED <<acked, req>>
    BY <2>6 DEF SeenDevice, RevokeDevice
  <2> QED
    BY <2>1, <2>2, <2>3, <2>4, <2>5, <2>6 DEF Next, vars
<1> QED
  BY <1>1, <1>2, <1>3

\* No promise has been given yet.
LEMMA InitIndInv == Init => IndInv
BY InitCoreInv DEF Init, IndInv, AckInv, IdleReq

\* Every step of the store keeps the promises as well.
LEMMA NextKeepsIndInv == IndInv /\ [Next]_vars => IndInv'
BY NextKeepsCoreInv, NextKeepsAckInv DEF IndInv

\* Theorem: IndInv is an invariant of the store.
THEOREM StoreInvariant == Spec => []IndInv
BY InitIndInv, NextKeepsIndInv, PTL DEF Spec

\* Theorem: type correctness; in particular no number passes MaxSeq, the
\* int64 limit, and no epoch is used that was not drawn.
THEOREM StoreTypeOK == Spec => []TypeOK
<1>1. IndInv => TypeOK
  BY DEF IndInv, CoreInv
<1> QED
  BY <1>1, StoreInvariant, PTL

\* Theorem: the committed log never has a gap, however Open races with pushes.
THEOREM StoreLogGapless == Spec => []LogGapless
<1>1. IndInv => LogGapless
  BY DEF IndInv, CoreInv, LogInv, LogOK, LogGapless
<1> QED
  BY <1>1, StoreInvariant, PTL

\* Theorem: no revision is ever stored under two numbers, however often a
\* client sends it again and whatever the counter was at the time.
THEOREM StoreKeysUnique == Spec => []KeysUnique
<1>1. IndInv => KeysUnique
  BY DEF IndInv, CoreInv, LogInv, LogOK, KeysUnique
<1> QED
  BY <1>1, StoreInvariant, PTL

\* Theorem: the counter never runs ahead of the log: a head repair installs a
\* maximum that was read earlier, and never more than that.
THEOREM StoreHeadNotAhead == Spec => []HeadNotAhead
<1>1. IndInv => HeadNotAhead
  BY DEF IndInv, CoreInv, LogInv, LogOK, HeadNotAhead
<1> QED
  BY <1>1, StoreInvariant, PTL

\* Theorem: an acknowledgement given by Push is never taken back.
THEOREM StoreAcksDurable == Spec => []AcksDurable
<1>1. IndInv => AcksDurable
  BY DEF IndInv, AckInv, AcksDurable
<1> QED
  BY <1>1, StoreInvariant, PTL

\* Theorem: Push answers each op of its batch in place, with the sender's own
\* digest, and one revision never gets two numbers, nor one number two revisions.
THEOREM StoreAnswersComplete == Spec => []AnswersComplete
<1>1. IndInv => AnswersComplete
  <2> SUFFICES ASSUME IndInv, NEW r \in Reqs, req[r].st = "answered"
               PROVE  /\ Len(req[r].acks) = Len(req[r].ops)
                      /\ \A i \in DOMAIN req[r].acks :
                           /\ req[r].acks[i].key = req[r].ops[i].key
                           /\ req[r].acks[i].digest = req[r].ops[i].digest
                           /\ \A a \in acked : a.key = req[r].acks[i].key
                                                <=> a.seq = req[r].acks[i].seq
    BY DEF AnswersComplete
  <2>1. RequestOK(req[r]) /\ req[r].acks \in Seq(Ack)
    BY DEF IndInv, CoreInv, ReqInv, TypeOK, Request
  <2>2. \A x, y \in acked : x.key = y.key <=> x.seq = y.seq
    BY DEF IndInv, CoreInv, LogInv, LogOK, AckInv, AckSound, OneSeqPerKey
  <2>3. ASSUME NEW i \in DOMAIN req[r].acks
        PROVE  /\ req[r].acks[i] \in acked
               /\ req[r].acks[i] = AckOf(req[r].ops[i], req[r].acks[i].seq)
    BY <2>1 DEF RequestOK, IndInv, AckInv
  <2>4. ASSUME NEW i \in DOMAIN req[r].acks
        PROVE  /\ req[r].acks[i].key = req[r].ops[i].key
               /\ req[r].acks[i].digest = req[r].ops[i].digest
    <3>1. \A op, n : AckOf(op, n).key = op.key /\ AckOf(op, n).digest = op.digest
      BY DEF AckOf
    <3> QED
      BY <2>3, <3>1
  <2>5. Len(req[r].acks) = Len(req[r].ops)
    BY <2>1 DEF RequestOK
  <2> QED
    BY <2>2, <2>3, <2>4, <2>5
<1> QED
  BY <1>1, StoreInvariant, PTL

\* Theorem: no step of any process removes or rewrites a committed row.
THEOREM StoreAppendOnly == Spec => AppendOnly
<1>1. IndInv /\ [Next]_vars => [Extends(ops, ops')]_vars
  BY StepExtends DEF IndInv
<1> QED
  BY <1>1, StoreInvariant, PTL DEF Spec, AppendOnly

\* The upsert of a device that is seen again leaves revoked_at alone.
LEMMA StepKeepsRevoked ==
  ASSUME TypeOK, [Next]_vars, NEW d \in Devices, devices[d] = "revoked"
  PROVE  devices'[d] = "revoked"
<1>1. CASE UNCHANGED devices
  BY <1>1
<1>2. ASSUME NEW e, devices' = upsertDevice(e) PROVE devices'[d] = "revoked"
  BY <1>2 DEF TypeOK, upsertDevice
<1>3. ASSUME NEW e, devices' = [devices EXCEPT ![e] = "revoked"]
      PROVE  devices'[d] = "revoked"
  BY <1>3 DEF TypeOK
<1>4. \/ UNCHANGED devices
      \/ \E e : devices' = upsertDevice(e) \/ devices' = [devices EXCEPT ![e] = "revoked"]
  BY DEF Next, vars, db, OpenStep, PushStep, LoadMeta, ReadHead, ReadMaxSeq,
     RepairHead, BumpEpoch, Stop, RevokeDevice, SeenDevice, PushArrive, PushLock,
     PushBegin, PushKnownOp, PushNewOp, PushCommit, PushFail, PushDone
<1> QED
  BY <1>1, <1>2, <1>3, <1>4

\* Theorem: no step of any process reinstates a revoked device.
THEOREM StoreRevocationStays == Spec => RevokedStaysRevoked
<1>1. TypeOK /\ [Next]_vars =>
        [\A d \in Devices : devices[d] = "revoked" => devices'[d] = "revoked"]_vars
  BY StepKeepsRevoked
<1> QED
  BY <1>1, StoreTypeOK, PTL DEF Spec, RevokedStaysRevoked

-----------------------------------------------------------------------------
(* The store implements OpLog.                                             *)

\* The operators of LogTable seen through the instance are the same operators.
LEMMA SameTables ==
  ASSUME NEW t, NEW u, NEW k
  PROVE  /\ Log!Extends(t, u) = Extends(t, u)
         /\ Log!Gapless(t) = Gapless(t)
         /\ Log!OneSeqPerKey(t) = OneSeqPerKey(t)
         /\ Log!KeysIn(t) = KeysIn(t)
         /\ Log!SeqOf(k, t) = SeqOf(k, t)
BY DEF Extends, Gapless, OneSeqPerKey, KeysIn, SeqOf, LastSeq,
       Log!Extends, Log!Gapless, Log!OneSeqPerKey, Log!KeysIn, Log!SeqOf, Log!LastSeq

\* A commit is OpLog's Accept of its batch.
LEMMA CommitAccepts ==
  ASSUME CoreInv, NEW r \in Reqs, PushCommit(r)
  PROVE  Log!Accept(req[r].ops)
<1> DEFINE b == req[r].ops
<1>1. /\ ops' = tx.rows /\ b \in Seq(Ops) /\ tx.acks \in Seq(Ack)
      /\ Len(tx.acks) = Len(b) /\ ViewOK(ops, tx, b)
  BY CommitFacts
<1>2. /\ acked' = acked \cup {tx.acks[i] : i \in DOMAIN tx.acks}
      /\ UNCHANGED epoch
  BY DEF PushCommit
<1>3. DOMAIN b = 1..Len(tx.acks) /\ DOMAIN tx.acks = 1..Len(tx.acks)
  BY <1>1
<1> HIDE DEF b
<1>4. Extends(ops, ops') /\ Gapless(ops') /\ OneSeqPerKey(ops')
  BY <1>1 DEF ViewOK
<1>5. \A s \in DOMAIN ops' \ DOMAIN ops : \E i \in DOMAIN b : ops'[s] = b[i]
  BY <1>1, <1>3 DEF ViewOK
<1>6. \A i \in DOMAIN b : /\ tx.acks[i].seq \in DOMAIN ops'
                          /\ ops'[tx.acks[i].seq].key = b[i].key
                          /\ tx.acks[i] = AckOf(b[i], tx.acks[i].seq)
  BY <1>1, <1>3 DEF ViewOK, AckSound, AckOf
<1>7. KeysIn(ops') = KeysIn(ops) \cup {b[i].key : i \in DOMAIN b}
  <2>1. KeysIn(ops) \subseteq KeysIn(ops')
    BY <1>4 DEF KeysIn, Extends
  <2>2. {b[i].key : i \in DOMAIN b} \subseteq KeysIn(ops')
    BY <1>6 DEF KeysIn
  <2>3. ASSUME NEW s \in DOMAIN ops'
        PROVE  ops'[s].key \in KeysIn(ops) \cup {b[i].key : i \in DOMAIN b}
    BY <1>4, <1>5 DEF KeysIn, Extends
  <2> QED
    BY <2>1, <2>2, <2>3 DEF KeysIn
<1>8. \A i \in DOMAIN b : tx.acks[i] =
        [key |-> b[i].key, digest |-> b[i].digest, seq |-> SeqOf(b[i].key, ops')]
  <2> SUFFICES ASSUME NEW i \in DOMAIN b
               PROVE  tx.acks[i] = [key |-> b[i].key, digest |-> b[i].digest,
                                    seq |-> SeqOf(b[i].key, ops')]
    OBVIOUS
  <2>1. SeqOf(b[i].key, ops') = tx.acks[i].seq
    BY <1>4, <1>6, SeqOfUnique
  <2> QED
    BY <1>6, <2>1 DEF AckOf
<1>9. acked' = acked \cup {[key |-> b[i].key, digest |-> b[i].digest,
                            seq |-> SeqOf(b[i].key, ops')] : i \in DOMAIN b}
  BY <1>2, <1>3, <1>8
<1> QED
  BY <1>2, <1>4, <1>5, <1>7, <1>9, SameTables DEF Log!Accept, b

\* Theorem: the database, the processes, their races and their deaths
\* implement the abstract log. A commit is Accept, BumpEpoch is Rotate, and
\* every other step leaves the log, the acknowledgements and the epoch alone.
THEOREM StoreImplementsOpLog == Spec => ImplementsOpLog
<1>1. Init => Log!LogInit
  BY DEF Init, Log!LogInit, EmptyTable, Log!EmptyTable
<1>2. IndInv /\ [Next]_vars => [Log!LogNext]_(Log!logVars)
  <2> SUFFICES ASSUME IndInv, [Next]_vars PROVE [Log!LogNext]_(Log!logVars)
    OBVIOUS
  <2>1. ASSUME NEW r \in Reqs, PushCommit(r) PROVE Log!LogNext
    <3>1. req[r].ops \in Batches
      BY <2>1, CommitFacts DEF IndInv
    <3> QED
      BY <2>1, <3>1, CommitAccepts DEF IndInv, Log!LogNext
  <2>2. ASSUME NEW p \in Procs, BumpEpoch(p) PROVE Log!LogNext
    <3>1. epoch' # epoch
      BY <2>2 DEF IndInv, CoreInv, TypeOK, BumpEpoch
    <3> QED
      BY <2>2, <3>1 DEF BumpEpoch, Log!LogNext, Log!Rotate
  <2>3. \/ UNCHANGED <<ops, acked, epoch>>
        \/ \E r \in Reqs : PushCommit(r)
        \/ \E p \in Procs : BumpEpoch(p)
    BY DEF Next, vars, db, OpenStep, PushStep, LoadMeta, ReadHead, ReadMaxSeq, RepairHead,
       Stop, RevokeDevice, SeenDevice, PushArrive, PushLock, PushBegin,
       PushKnownOp, PushNewOp, PushFail, PushDone
  <2> QED
    BY <2>1, <2>2, <2>3 DEF Log!logVars
<1> QED
  BY <1>1, <1>2, StoreInvariant, PTL DEF Spec, ImplementsOpLog, Log!LogSpec
=============================================================================
