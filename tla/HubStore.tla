------------------------------ MODULE HubStore ------------------------------
(***************************************************************************)
(* internal/store: the hub's SQLite database and the processes that hold   *)
(* it open. One process is `cmemlan serve`, which answers pushes; the      *)
(* others are short-lived commands (`cmemlan devices`, `cmemlan revoke`)   *)
(* that call the same store.Open on the same file, at any time. A process  *)
(* may die at any step.                                                    *)
(*                                                                         *)
(* What is one step here is one SQL statement or one lock operation in the *)
(* code. A push transaction is BEGIN IMMEDIATE: it holds SQLite's write    *)
(* lock from PushBegin to its end, while readers go on seeing the last     *)
(* committed state (WAL). The database starts with the meta row that the   *)
(* first Open creates.                                                     *)
(***************************************************************************)
EXTENDS LogTable, Sequences

CONSTANTS Batches,   \* the op lists a push may carry
          Devices,   \* X-Device-Id values
          Reqs,      \* push requests the serving process may hold at once
          Serve,     \* the `cmemlan serve` process
          Clis,      \* concurrent command-line processes
          MaxSeq,    \* math.MaxInt64, scaled down
          MaxEpochs  \* bound on the number of epochs ever drawn

NoDev == "no device"
NoReq == "no request"

Procs == {Serve} \cup Clis

ASSUME StoreAssumption ==
  /\ MaxSeq \in Nat
  /\ MaxEpochs \in Nat \ {0}
  /\ Batches \subseteq Seq(Ops)
  /\ NoReq \notin Reqs
  /\ NoDev \notin Devices
  /\ Serve \notin Clis

VARIABLES
  ops,      \* table ops (committed)
  head,     \* meta.head_seq
  epoch,    \* meta.epoch
  devices,  \* table devices: "unknown" (no row), "active" or "revoked"
  minted,   \* epochs drawn so far; a 63-bit random epoch is a fresh one
  proc,     \* per process: where its Store handle is, and what it has read
  req,      \* per request slot of the serving process
  mu,       \* Store.mu of the serving process
  tx,       \* the open write transaction, if any
  acked     \* history: every acknowledgement a committed push has given

db   == <<ops, head, epoch, devices>>
vars == <<ops, head, epoch, devices, minted, proc, req, mu, tx, acked>>

Ack == [key : Keys, digest : Digests, seq : Nat]

Handle == [pc : {"closed", "meta", "head", "drift", "repaired", "ready"},
           epoch : 0..MaxEpochs, head : 0..MaxSeq, max : 0..MaxSeq]

Request == [st : {"idle", "waiting", "locked", "tx", "answered"},
            dev : Devices \cup {NoDev}, ops : Seq(Ops),
            acks : Seq(Ack), head : 0..MaxSeq]

IsTx(t) ==
  /\ t \in [by : Reqs \cup {NoReq}, rows : {t.rows}, head : 0..MaxSeq, acks : Seq(Ack)]
  /\ IsTable(t.rows)

IdleReq == [st |-> "idle", dev |-> NoDev, ops |-> <<>>, acks |-> <<>>, head |-> 0]
NoTx    == [by |-> NoReq, rows |-> EmptyTable, head |-> 0, acks |-> <<>>]
Closed  == [pc |-> "closed", epoch |-> 0, head |-> 0, max |-> 0]

Init ==
  /\ ops = EmptyTable /\ head = 0
  /\ epoch = 1 /\ minted = 1
  /\ devices = [d \in Devices |-> "unknown"]
  /\ proc = [p \in Procs |-> Closed]
  /\ req = [r \in Reqs |-> IdleReq]
  /\ mu = NoReq /\ tx = NoTx /\ acked = {}

Ready(p) == proc[p].pc = "ready"

-----------------------------------------------------------------------------
(* store.Open                                                              *)

\* Open as far as loadOrCreateMeta: the meta row exists, its epoch is cached
\* in the Store for the life of the process.
LoadMeta(p) ==
  /\ proc[p].pc = "closed"
  /\ proc' = [proc EXCEPT ![p] = [Closed EXCEPT !.pc = "meta", !.epoch = epoch]]
  /\ UNCHANGED <<db, minted, req, mu, tx, acked>>

\* verifyHeadConsistency, first query.
ReadHead(p) ==
  /\ proc[p].pc = "meta"
  /\ proc' = [proc EXCEPT ![p].pc = "head", ![p].head = head]
  /\ UNCHANGED <<db, minted, req, mu, tx, acked>>

\* verifyHeadConsistency, second query: a statement of its own, so another
\* process may have committed a push since the first.
ReadMaxSeq(p) ==
  /\ proc[p].pc = "head"
  /\ proc' = [proc EXCEPT ![p].max = LastSeq(ops),
                ![p].pc = IF LastSeq(ops) = proc[p].head THEN "ready" ELSE "drift"]
  /\ UNCHANGED <<db, minted, req, mu, tx, acked>>

\* A mistake to catch: the counter is repaired to the next free number.
RepairOffByOne(p) ==
  /\ proc[p].pc = "drift" /\ tx = NoTx
  /\ head' = proc[p].max + 1
  /\ proc' = [proc EXCEPT ![p].pc = "repaired"]
  /\ UNCHANGED <<ops, epoch, devices, minted, req, mu, tx, acked>>

\* verifyHeadConsistency: UPDATE meta SET head_seq, waiting for the write lock.
RepairHead(p) ==
  /\ proc[p].pc = "drift" /\ tx = NoTx
  /\ head' = proc[p].max
  /\ proc' = [proc EXCEPT ![p].pc = "repaired"]
  /\ UNCHANGED <<ops, epoch, devices, minted, req, mu, tx, acked>>

\* BumpEpoch: the row, and this process's cached copy.
BumpEpoch(p) ==
  /\ proc[p].pc = "repaired" /\ tx = NoTx
  /\ minted < MaxEpochs
  /\ minted' = minted + 1
  /\ epoch' = minted + 1
  /\ proc' = [proc EXCEPT ![p].pc = "ready", ![p].epoch = minted + 1]
  /\ UNCHANGED <<ops, head, devices, req, mu, tx, acked>>

\* Close, an error return of Open, or a crash: the handle is gone; with the
\* serving process go its requests, its mutex and its open transaction.
Stop(p) ==
  /\ proc[p].pc # "closed"
  /\ proc' = [proc EXCEPT ![p] = Closed]
  /\ IF p = Serve
       THEN req' = [r \in Reqs |-> IdleReq] /\ mu' = NoReq /\ tx' = NoTx
       ELSE UNCHANGED <<req, mu, tx>>
  /\ UNCHANGED <<db, minted, acked>>

-----------------------------------------------------------------------------
(* Devices                                                                 *)

\* A mistake to catch: the upsert also clears revoked_at.
upsertClearsRevoked(d) == [devices EXCEPT ![d] = "active"]

\* INSERT ... ON CONFLICT DO UPDATE: a known row keeps its revoked_at.
upsertDevice(d) ==
  [devices EXCEPT ![d] = IF devices[d] = "unknown" THEN "active" ELSE devices[d]]

\* RevokeDevice run by `cmemlan revoke`, which then exits. A device that is
\* unknown or already revoked is an error (Stop).
RevokeDevice(p, d) ==
  /\ Ready(p) /\ tx = NoTx
  /\ devices[d] = "active"
  /\ devices' = [devices EXCEPT ![d] = "revoked"]
  /\ proc' = [proc EXCEPT ![p] = Closed]
  /\ UNCHANGED <<ops, head, epoch, minted, req, mu, tx, acked>>

\* recordDevice after a /status or /changes request that passed `authed`.
\* The request's revocation check is an earlier step, so a device revoked in
\* between is still recorded here.
SeenDevice(d) ==
  /\ Ready(Serve) /\ mu = NoReq /\ tx = NoTx
  /\ devices' = upsertDevice(d)
  /\ UNCHANGED <<ops, head, epoch, minted, proc, req, mu, tx, acked>>

-----------------------------------------------------------------------------
(* Store.Push                                                              *)

\* authed let the request in: the device is not revoked. Ends in Push waiting
\* for Store.mu.
PushArrive(r, d, b) ==
  /\ Ready(Serve) /\ req[r].st = "idle"
  /\ devices[d] # "revoked"
  /\ req' = [req EXCEPT ![r] = [IdleReq EXCEPT !.st = "waiting", !.dev = d, !.ops = b]]
  /\ UNCHANGED <<db, minted, proc, mu, tx, acked>>

\* s.mu.Lock and the second revocation check, on the read handle: the push ends
\* here for a revoked device, and where the query fails.
PushLock(r) ==
  /\ req[r].st = "waiting" /\ mu = NoReq
  /\ \/ /\ req' = [req EXCEPT ![r] = IdleReq] /\ UNCHANGED mu
     \/ /\ devices[req[r].dev] # "revoked"
        /\ req' = [req EXCEPT ![r].st = "locked"] /\ mu' = r
  /\ UNCHANGED <<db, minted, proc, tx, acked>>

\* BEGIN IMMEDIATE and the read of head_seq.
PushBegin(r) ==
  /\ req[r].st = "locked" /\ tx = NoTx
  /\ req' = [req EXCEPT ![r].st = "tx"]
  /\ tx' = [by |-> r, rows |-> ops, head |-> head, acks |-> <<>>]
  /\ UNCHANGED <<db, minted, proc, mu, acked>>

\* The op the loop is at.
CurrentOp(r) == req[r].ops[Len(tx.acks) + 1]

AckOf(op, n) == [key |-> op.key, digest |-> op.digest, seq |-> n]

\* A mistake to catch: a revision already stored uses up a number.
KnownOpBurnsNumber(r) ==
  /\ tx.by = r /\ Len(tx.acks) < Len(req[r].ops)
  /\ CurrentOp(r).key \in KeysIn(tx.rows) /\ tx.head < MaxSeq
  /\ tx' = [tx EXCEPT !.head = @ + 1, !.acks =
              Append(@, AckOf(CurrentOp(r), SeqOf(CurrentOp(r).key, tx.rows)))]
  /\ UNCHANGED <<db, minted, proc, req, mu, acked>>

\* A mistake to catch: INSERT OR REPLACE, so that the last write stands.
KnownOpReplaces(r) ==
  /\ tx.by = r /\ Len(tx.acks) < Len(req[r].ops)
  /\ CurrentOp(r).key \in KeysIn(tx.rows)
  /\ LET n == SeqOf(CurrentOp(r).key, tx.rows)
     IN  tx' = [tx EXCEPT !.rows = [@ EXCEPT ![n] = CurrentOp(r)],
                          !.acks = Append(@, AckOf(CurrentOp(r), n))]
  /\ UNCHANGED <<db, minted, proc, req, mu, acked>>

\* A mistake to catch: the answer carries the stored row, not the op sent.
KnownOpEchoesRow(r) ==
  /\ tx.by = r /\ Len(tx.acks) < Len(req[r].ops)
  /\ CurrentOp(r).key \in KeysIn(tx.rows)
  /\ LET n == SeqOf(CurrentOp(r).key, tx.rows)
     IN  tx' = [tx EXCEPT !.acks = Append(@, AckOf(tx.rows[n], n))]
  /\ UNCHANGED <<db, minted, proc, req, mu, acked>>

\* One turn of the loop for a revision already in the transaction's view. The
\* code's `batch` map caches this lookup for repeats within one push.
PushKnownOp(r) ==
  /\ tx.by = r /\ Len(tx.acks) < Len(req[r].ops)
  /\ CurrentOp(r).key \in KeysIn(tx.rows)
  /\ tx' = [tx EXCEPT !.acks =
              Append(@, AckOf(CurrentOp(r), SeqOf(CurrentOp(r).key, tx.rows)))]
  /\ UNCHANGED <<db, minted, proc, req, mu, acked>>

\* A mistake to catch: no check for the end of the sequence space.
NewOpUnbounded(r) ==
  /\ tx.by = r /\ Len(tx.acks) < Len(req[r].ops)
  /\ CurrentOp(r).key \notin KeysIn(tx.rows)
  /\ CanInsert(tx.rows, tx.head + 1, CurrentOp(r))
  /\ tx' = [tx EXCEPT !.rows = Insert(@, tx.head + 1, CurrentOp(r)),
                      !.head = @ + 1,
                      !.acks = Append(@, AckOf(CurrentOp(r), tx.head + 1))]
  /\ UNCHANGED <<db, minted, proc, req, mu, acked>>

\* A mistake to catch: no lookup of the revision and no unique index.
NewOpWithoutDedupe(r) ==
  /\ tx.by = r /\ Len(tx.acks) < Len(req[r].ops)
  /\ tx.head < MaxSeq /\ tx.head + 1 \notin DOMAIN tx.rows
  /\ tx' = [tx EXCEPT !.rows = Insert(@, tx.head + 1, CurrentOp(r)),
                      !.head = @ + 1,
                      !.acks = Append(@, AckOf(CurrentOp(r), tx.head + 1))]
  /\ UNCHANGED <<db, minted, proc, req, mu, acked>>

\* One turn of the loop for a new revision. Where the INSERT is refused, or
\* the sequence space is exhausted, only PushFail is left.
PushNewOp(r) ==
  /\ tx.by = r /\ Len(tx.acks) < Len(req[r].ops)
  /\ CurrentOp(r).key \notin KeysIn(tx.rows)
  /\ tx.head < MaxSeq
  /\ CanInsert(tx.rows, tx.head + 1, CurrentOp(r))
  /\ tx' = [tx EXCEPT !.rows = Insert(@, tx.head + 1, CurrentOp(r)),
                      !.head = @ + 1,
                      !.acks = Append(@, AckOf(CurrentOp(r), tx.head + 1))]
  /\ UNCHANGED <<db, minted, proc, req, mu, acked>>

\* UPDATE meta, upsertDevice and COMMIT; the mutex is released on return.
PushCommit(r) ==
  /\ tx.by = r /\ Len(tx.acks) = Len(req[r].ops)
  /\ ops' = tx.rows
  /\ head' = tx.head
  /\ devices' = upsertDevice(req[r].dev)
  /\ acked' = acked \cup {tx.acks[i] : i \in DOMAIN tx.acks}
  /\ req' = [req EXCEPT ![r].st = "answered", ![r].acks = tx.acks, ![r].head = tx.head]
  /\ mu' = NoReq /\ tx' = NoTx
  /\ UNCHANGED <<epoch, minted, proc>>

\* A mistake to catch: the counter is kept although the rows are rolled back.
FailKeepsCounter(r) ==
  /\ tx.by = r
  /\ head' = tx.head
  /\ req' = [req EXCEPT ![r] = IdleReq]
  /\ mu' = NoReq /\ tx' = NoTx
  /\ UNCHANGED <<ops, epoch, devices, minted, proc, acked>>

\* A mistake to catch: no rollback, the rows inserted so far are committed.
FailKeepsRows(r) ==
  /\ tx.by = r
  /\ ops' = tx.rows /\ head' = tx.head
  /\ req' = [req EXCEPT ![r] = IdleReq]
  /\ mu' = NoReq /\ tx' = NoTx
  /\ UNCHANGED <<epoch, devices, minted, proc, acked>>

\* A mistake to catch: the acknowledgements are sent in spite of the rollback.
FailStillAcks(r) ==
  /\ tx.by = r
  /\ acked' = acked \cup {tx.acks[i] : i \in DOMAIN tx.acks}
  /\ req' = [req EXCEPT ![r] = IdleReq]
  /\ mu' = NoReq /\ tx' = NoTx
  /\ UNCHANGED <<db, minted, proc>>

\* A mistake to catch: an error return without the deferred Unlock.
FailKeepsMutex(r) ==
  /\ tx.by = r
  /\ req' = [req EXCEPT ![r] = IdleReq]
  /\ tx' = NoTx
  /\ UNCHANGED <<db, minted, proc, mu, acked>>

\* Any error from BEGIN on, the 30 s timeout and a failed COMMIT: rolled back,
\* answered 500.
PushFail(r) ==
  /\ req[r].st \in {"locked", "tx"}
  /\ req' = [req EXCEPT ![r] = IdleReq]
  /\ mu' = NoReq
  /\ tx' = IF tx.by = r THEN NoTx ELSE tx
  /\ UNCHANGED <<db, minted, proc, acked>>

\* The response is written, or lost with the client's connection.
PushDone(r) ==
  /\ req[r].st = "answered"
  /\ req' = [req EXCEPT ![r] = IdleReq]
  /\ UNCHANGED <<db, minted, proc, mu, tx, acked>>

-----------------------------------------------------------------------------
OpenStep(p) == \/ LoadMeta(p) \/ ReadHead(p) \/ ReadMaxSeq(p)
               \/ RepairHead(p) \/ BumpEpoch(p)

PushStep(r) == \/ PushLock(r) \/ PushBegin(r) \/ PushKnownOp(r) \/ PushNewOp(r)
               \/ PushCommit(r) \/ PushFail(r) \/ PushDone(r)

Next ==
  \/ \E p \in Procs : OpenStep(p) \/ Stop(p)
  \/ \E p \in Clis, d \in Devices : RevokeDevice(p, d)
  \/ \E d \in Devices : SeenDevice(d)
  \/ \E r \in Reqs, d \in Devices, b \in Batches : PushArrive(r, d, b)
  \/ \E r \in Reqs : PushStep(r)

Spec == Init /\ [][Next]_vars
-----------------------------------------------------------------------------
(* Properties                                                              *)

\* Type invariant: every variable stays in its domain. Numbers are at most
\* MaxSeq (head_seq and seq are int64 columns) and epochs at most MaxEpochs.
TypeOK ==
  /\ IsTable(ops) /\ LastSeq(ops) \in 0..MaxSeq /\ head \in 0..MaxSeq
  /\ minted \in 1..MaxEpochs /\ epoch \in 1..minted
  /\ devices \in [Devices -> {"unknown", "active", "revoked"}]
  /\ proc \in [Procs -> Handle]
  /\ req \in [Reqs -> Request]
  /\ mu \in Reqs \cup {NoReq}
  /\ IsTx(tx)
  /\ acked \subseteq Ack

\* "A rollback assigns nothing, so the log never develops a gap": whatever
\* pushes fail, crash or race with another process's Open, the committed
\* numbers are 1..MAX(seq).
LogGapless == Gapless(ops)

\* An entity revision takes one number, once, however often it is pushed.
KeysUnique == OneSeqPerKey(ops)

\* Once Push has acknowledged a revision with a number, that revision is in
\* the log under that number: across later pushes, rollbacks, process deaths
\* and head repairs.
AcksDurable == \A a \in acked : AckSound(a, ops)

\* The counter never runs ahead of the log, so /status never announces a
\* number that /changes cannot serve.
HeadNotAhead == head <= LastSeq(ops)

\* Push answers every op, in place, with the digest its sender gave, and
\* retries and duplicates of a revision always get the same number.
AnswersComplete ==
  \A r \in Reqs : req[r].st = "answered" =>
    /\ Len(req[r].acks) = Len(req[r].ops)
    /\ \A i \in DOMAIN req[r].acks :
         /\ req[r].acks[i].key = req[r].ops[i].key
         /\ req[r].acks[i].digest = req[r].ops[i].digest
         /\ \A a \in acked : a.key = req[r].acks[i].key <=> a.seq = req[r].acks[i].seq

\* No step of any process removes or rewrites a committed row: the first
\* write of a revision stands.
AppendOnly == [][Extends(ops, ops')]_vars

\* A revoked device is not reinstated by being seen again.
RevokedStaysRevoked ==
  [][\A d \in Devices : devices[d] = "revoked" => devices'[d] = "revoked"]_vars

\* Revocation takes effect in a running hub: from some point on, no request of
\* the device is past the check inside Push, so none can commit.
RevocationTakesEffect ==
  \A d \in Devices : devices[d] = "revoked" ~>
    [](\A r \in Reqs : req[r].dev = d => req[r].st \notin {"locked", "tx"})

\* The store keeps the promise of OpLog: pushes accept, BumpEpoch rotates, and
\* every other step, a crash included, is invisible in the log.
Log == INSTANCE OpLog WITH log <- ops, promised <- acked
ImplementsOpLog == Log!LogSpec

(* What docs/protocol.md asks of the store and its steps do not keep.      *)

\* Of the response to a push: "Every acked `seq` must also be <= both" head_seq
\* and projected_seq.
AckWithinHead ==
  \A r \in Reqs : req[r].st = "answered" =>
    \A i \in DOMAIN req[r].acks : req[r].acks[i].seq <= req[r].head
=============================================================================
