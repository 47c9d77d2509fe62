-------------------------- MODULE HubServerProofs ---------------------------
(***************************************************************************)
(* Proofs about HubServer: the HTTP server, with its panics and with the   *)
(* requests that pass its revocation check before they reach the store, is *)
(* an implementation of HubStore, so that all that is proved of the store  *)
(* holds of the server; and what its answers may say.                      *)
(*                                                                         *)
(* A panic unwinds the deferred calls of a push in one step. That this is  *)
(* a step the store knows takes the ownership of the mutex (MutexInv): the *)
(* request that holds it is the one past the check inside Push, and no     *)
(* other. HttpInv says where a request that arrived revoked can be, and    *)
(* that what was read of head_seq is still within the log when it is sent. *)
(***************************************************************************)
EXTENDS HubServer, HubStoreProofs

Http == [pc : {"idle", "authed", "read", "record", "push", "reply"},
         route : SyncRoutes \cup {"none", "healthz", "pair", "elsewhere"},
         flaw : {"none", "origin", "method", "token", "user", "body"},
         hdr : Devices \cup {NoDev}, ops : Seq(Ops), late : BOOLEAN,
         code : Nat, head : 0..MaxSeq]

\* Store.mu is held by the request that is past the check inside Push.
MutexInv == \A r \in Reqs : mu = r <=> req[r].st \in {"locked", "tx"}

\* An HTTP request h against the state x of its push, the devices table dv and the
\* log o.
HttpOK(h, x, dv, o) ==
  /\ IF h.pc = "push" THEN x.st # "idle" ELSE x = IdleReq
  /\ h.pc \notin {"idle", "reply"} => h.hdr \in Devices /\ h.ops \in Batches
  /\ h.late => h.pc \in {"authed", "reply"} /\ h.code # 200
  /\ h.late /\ h.pc = "authed" => dv[h.hdr] = "revoked"
  /\ h.head <= LastSeq(o)

HttpInv ==
  /\ http \in [Reqs -> Http]
  /\ \A r \in Reqs : /\ HttpOK(http[r], req[r], devices, ops)
                     /\ http[r].pc # "idle" => Ready(Serve)

ServerInv == IndInv /\ MutexInv /\ HttpInv

-----------------------------------------------------------------------------
(* The mutex                                                               *)

\* Every step of the store hands the mutex over, or leaves it, with the state of
\* the requests.
LEMMA StepKeepsMutex == CoreInv /\ MutexInv /\ [Next]_vars => MutexInv'
<1> SUFFICES ASSUME CoreInv, MutexInv, [Next]_vars PROVE MutexInv'
  OBVIOUS
<1>a. req \in [Reqs -> Request] /\ NoReq \notin Reqs
  BY StoreAssumption DEF CoreInv, TypeOK
<1>1. CASE UNCHANGED <<mu, req>>
  BY <1>1 DEF MutexInv
<1>2. ASSUME NEW p \in Procs, OpenStep(p) \/ Stop(p) PROVE MutexInv'
  BY <1>2, <1>a DEF MutexInv, OpenStep, LoadMeta, ReadHead, ReadMaxSeq, RepairHead, BumpEpoch,
     Stop, IdleReq
<1>3. ASSUME NEW d \in Devices, SeenDevice(d) \/ \E p \in Clis : RevokeDevice(p, d)
      PROVE  MutexInv'
  BY <1>3 DEF MutexInv, SeenDevice, RevokeDevice
<1>4. ASSUME NEW r \in Reqs, NEW d \in Devices, NEW b \in Batches, PushArrive(r, d, b)
      PROVE  MutexInv'
  BY <1>4, <1>a DEF MutexInv, PushArrive, IdleReq
<1>5. ASSUME NEW r \in Reqs, PushStep(r) PROVE MutexInv'
  <2>1. CASE PushLock(r)
    <3>1. CASE req' = [req EXCEPT ![r] = IdleReq] /\ UNCHANGED mu
      BY <2>1, <3>1, <1>a DEF MutexInv, PushLock, IdleReq
    <3>2. CASE req' = [req EXCEPT ![r].st = "locked"] /\ mu' = r
      <4>1. req'[r].st = "locked" /\ \A q \in Reqs : q # r => req'[q] = req[q]
        BY <3>2, <1>a DEF Request
      <4> QED
        BY <2>1, <3>2, <4>1, <1>a DEF MutexInv, PushLock
    <3> QED
      BY <2>1, <3>1, <3>2 DEF PushLock
  <2>2. CASE PushBegin(r)
    BY <2>2, <1>a DEF MutexInv, PushBegin, Request
  <2>3. CASE PushKnownOp(r) \/ PushNewOp(r)
    BY <2>3 DEF MutexInv, PushKnownOp, PushNewOp
  <2>4. CASE PushCommit(r)
    <3>1. req[r].st = "tx"
      BY <2>4, <1>a DEF PushCommit, CoreInv, TxInv
    <3> QED
      BY <2>4, <3>1, <1>a DEF MutexInv, PushCommit, Request
  <2>5. CASE PushFail(r) \/ PushDone(r)
    BY <2>5, <1>a DEF MutexInv, PushFail, PushDone, IdleReq
  <2> QED
    BY <1>5, <2>1, <2>2, <2>3, <2>4, <2>5 DEF PushStep
<1> QED
  BY <1>1, <1>2, <1>3, <1>4, <1>5 DEF Next, vars

-----------------------------------------------------------------------------
(* Every step of the server is a step of the store, or invisible there.    *)

\* A panic ends a push as a failure, as a lost answer, or before it began.
LEMMA PanicIsStoreStep ==
  ASSUME ServerInv, NEW r \in Reqs, Panic(r)
  PROVE  [Next]_vars
<1>a. /\ req \in [Reqs -> Request] /\ NoReq \notin Reqs
      /\ tx.by = r => req[r].st = "tx"
      /\ mu = r <=> req[r].st \in {"locked", "tx"}
  BY StoreAssumption DEF ServerInv, IndInv, CoreInv, TypeOK, TxInv, MutexInv
<1>b. /\ req' = [req EXCEPT ![r] = IdleReq] /\ UNCHANGED <<db, minted, proc, acked>>
      /\ mu' = IF mu = r THEN NoReq ELSE mu
      /\ tx' = IF tx.by = r THEN NoTx ELSE tx
      /\ req[r].st = "waiting" => mu = NoReq
  BY DEF Panic, Running
<1>1. CASE req[r].st \in {"locked", "tx"}
  <2>1. PushFail(r)
    BY <1>1, <1>a, <1>b DEF PushFail
  <2> QED
    BY <2>1 DEF Next, PushStep
<1>2. CASE req[r].st \notin {"locked", "tx"}
  <2>1. mu' = mu /\ tx' = tx
    BY <1>2, <1>a, <1>b
  <2>2. CASE req[r].st = "answered"
    <3>1. PushDone(r)
      BY <2>2, <2>1, <1>b DEF PushDone
    <3> QED
      BY <3>1 DEF Next, PushStep
  <2>3. CASE req[r].st = "waiting"
    <3>1. PushLock(r)
      BY <2>3, <2>1, <1>b DEF PushLock
    <3> QED
      BY <3>1 DEF Next, PushStep
  <2>4. CASE req[r].st = "idle"
    <3>1. req[r] = IdleReq
      BY <2>4 DEF ServerInv, HttpInv, HttpOK
    <3> QED
      BY <3>1, <2>1, <1>a, <1>b DEF vars, db
  <2> QED
    BY <1>2, <1>a, <2>2, <2>3, <2>4 DEF Request
<1> QED
  BY <1>1, <1>2

\* A request that authed lets through to Store.Push is an arrival there.
LEMMA AuthedIsStoreStep ==
  ASSUME ServerInv, NEW r \in Reqs, Authed(r)
  PROVE  [Next]_vars
<1> DEFINE h == http[r]
<1>a. h.hdr \in Devices /\ h.ops \in Batches /\ req[r] = IdleReq /\ Ready(Serve)
  BY DEF Authed, ServerInv, HttpInv, HttpOK
<1>1. CASE UNCHANGED req
  BY <1>1 DEF Authed, vars, db
<1>2. CASE /\ ~deviceRevoked(h.hdr)
           /\ req' = [req EXCEPT ![r] = [IdleReq EXCEPT !.st = "waiting", !.dev = h.hdr,
                                                          !.ops = h.ops]]
  <2>1. devices[h.hdr] # "revoked"
    BY <1>2, <1>a, StoreAssumption DEF deviceRevoked
  <2>2. req[r].st = "idle"
    BY <1>a DEF IdleReq
  <2>3. PushArrive(r, h.hdr, h.ops)
    BY <1>2, <1>a, <2>1, <2>2 DEF Authed, PushArrive
  <2> QED
    BY <1>a, <2>3 DEF Next
<1> QED
  BY <1>1, <1>2 DEF Authed

\* Whatever the server does, the store sees one of its own steps or none.
LEMMA ServerStepIsStoreStep == ServerInv /\ [ServerNext]_hvars => [Next]_vars
<1> SUFFICES ASSUME ServerInv, [ServerNext]_hvars PROVE [Next]_vars
  OBVIOUS
<1>1. CASE UNCHANGED hvars
  BY <1>1 DEF hvars
<1>2. ASSUME NEW r \in Reqs, NEW q \in Arrivals, Accept(r, q) PROVE UNCHANGED vars
  BY <1>2 DEF Accept
<1>3. ASSUME NEW r \in Reqs, HandlerStep(r) PROVE [Next]_vars
  <2>1. CASE Authed(r)
    BY <2>1, AuthedIsStoreStep
  <2>2. CASE ReadHub(r) \/ Finish(r)
    BY <2>2 DEF ReadHub, Finish
  <2>3. CASE RecordDevice(r)
    <3>1. http[r].hdr \in Devices
      BY <2>3 DEF RecordDevice, ServerInv, HttpInv, HttpOK
    <3> QED
      BY <2>3, <3>1 DEF RecordDevice, Next
  <2>4. CASE HandlePush(r)
    BY <2>4 DEF HandlePush, Next
  <2> QED
    BY <1>3, <2>1, <2>2, <2>3, <2>4 DEF HandlerStep
<1>4. ASSUME NEW r \in Reqs, Panic(r) PROVE [Next]_vars
  BY <1>4, PanicIsStoreStep
<1>5. CASE Overloaded
  BY <1>5 DEF Overloaded, hvars
<1>6. CASE ServeStops \/ StoreStep
  BY <1>6 DEF ServeStops, StoreStep, Next, Procs
<1> QED
  BY <1>1, <1>2, <1>3, <1>4, <1>5, <1>6 DEF ServerNext

-----------------------------------------------------------------------------
(* Where a request can be                                                  *)

\* A request that a step leaves where it is stays well: the log only grows, and a
\* device that was revoked stays so.
LEMMA RequestStays ==
  ASSUME ServerInv, [Next]_vars, NEW r \in Reqs, http'[r] = http[r],
         IF http[r].pc = "push" THEN req'[r].st # "idle" ELSE req'[r] = req[r]
  PROVE  HttpOK(http'[r], req'[r], devices', ops')
<1> DEFINE h == http[r]
<1>1. HttpOK(h, req[r], devices, ops) /\ h \in Http /\ CoreInv /\ CoreInv'
  BY NextKeepsCoreInv DEF ServerInv, HttpInv, IndInv
<1>2. h.late /\ h.pc = "authed" => devices'[h.hdr] = "revoked"
  BY <1>1, StepKeepsRevoked DEF HttpOK, CoreInv
<1>3. h.head <= LastSeq(ops')
  <2>1. LastSeq(ops) <= LastSeq(ops')
    BY <1>1, StepKeepsLast
  <2>2. LastSeq(ops) \in Int /\ LastSeq(ops') \in Int /\ h.head \in Int
    BY <1>1, StoreAssumption DEF CoreInv, TypeOK, Http
  <2>3. h.head <= LastSeq(ops)
    BY <1>1 DEF HttpOK
  <2> QED
    BY <2>1, <2>2, <2>3
<1> QED
  BY <1>1, <1>2, <1>3 DEF HttpOK

\* serve stays ready until it stops.
LEMMA ServeStaysReady ==
  ASSUME ServerInv, [ServerNext]_hvars, Ready(Serve), ~ServeStops
  PROVE  Ready(Serve)'
<1>a. proc \in [Procs -> Handle] /\ Serve \in Procs /\ Serve \notin Clis
  BY StoreAssumption DEF ServerInv, IndInv, CoreInv, TypeOK, Procs
<1>1. CASE UNCHANGED proc
  BY <1>1 DEF Ready
<1>2. ASSUME NEW p \in Procs, OpenStep(p) PROVE Ready(Serve)'
  <2>1. p # Serve
    BY <1>2 DEF OpenStep, LoadMeta, ReadHead, ReadMaxSeq, RepairHead, BumpEpoch, Ready
  <2>2. proc'[Serve] = proc[Serve]
    BY <1>2, <1>a, <2>1 DEF OpenStep, LoadMeta, ReadHead, ReadMaxSeq, RepairHead, BumpEpoch
  <2> QED
    BY <2>2 DEF Ready
<1>3. ASSUME NEW p \in Clis, Stop(p) \/ \E d \in Devices : RevokeDevice(p, d)
      PROVE  Ready(Serve)'
  <2>1. proc'[Serve] = proc[Serve]
    BY <1>3, <1>a DEF Stop, RevokeDevice
  <2> QED
    BY <2>1 DEF Ready
<1>4. ASSUME NEW r \in Reqs, HandlerStep(r) \/ Panic(r) PROVE UNCHANGED proc
  BY <1>4 DEF HandlerStep, Authed, ReadHub, RecordDevice, HandlePush, Finish, Panic, SeenDevice,
     PushStep, PushLock, PushBegin, PushKnownOp, PushNewOp, PushCommit, PushFail, PushDone, vars
<1>5. ASSUME NEW r \in Reqs, NEW q \in Arrivals, Accept(r, q) PROVE UNCHANGED proc
  BY <1>5 DEF Accept, vars
<1>6. ASSUME Overloaded \/ UNCHANGED hvars PROVE UNCHANGED proc
  BY <1>6 DEF Overloaded, hvars, vars
<1> QED
  BY <1>1, <1>2, <1>3, <1>4, <1>5, <1>6 DEF ServerNext, StoreStep

\* A step that moves one request keeps the rest.
LEMMA OneRequestMoves ==
  ASSUME ServerInv, [ServerNext]_hvars, ~ServeStops,
         NEW r \in Reqs, NEW h \in Http, http' = [http EXCEPT ![r] = h],
         h.pc # "idle" => Ready(Serve),
         HttpOK(h, req'[r], devices', ops'),
         \A q \in Reqs \ {r} : req'[q] = req[q]
  PROVE  HttpInv'
<1>1. http \in [Reqs -> Http]
  BY DEF ServerInv, HttpInv
<1>2. http' \in [Reqs -> Http] /\ http'[r] = h /\ \A q \in Reqs \ {r} : http'[q] = http[q]
  BY <1>1
<1>3. [Next]_vars
  BY ServerStepIsStoreStep
<1>4. ASSUME NEW q \in Reqs \ {r}
      PROVE  /\ HttpOK(http'[q], req'[q], devices', ops')
             /\ http'[q].pc # "idle" => Ready(Serve)
  <2>1. HttpOK(http[q], req[q], devices, ops) /\ (http[q].pc # "idle" => Ready(Serve))
    BY DEF ServerInv, HttpInv
  <2>2. IF http[q].pc = "push" THEN req'[q].st # "idle" ELSE req'[q] = req[q]
    BY <2>1 DEF HttpOK
  <2> QED
    BY <1>2, <1>3, <2>1, <2>2, RequestStays
<1>5. Ready(Serve) => Ready(Serve)'
  BY ServeStaysReady
<1> QED
  BY <1>2, <1>4, <1>5 DEF HttpInv

\* A step that moves no request, and no push behind one.
LEMMA NoRequestMoves ==
  ASSUME ServerInv, [ServerNext]_hvars, ~ServeStops, UNCHANGED <<http, req>>
  PROVE  HttpInv'
<1>1. [Next]_vars
  BY ServerStepIsStoreStep
<1>2. ASSUME NEW q \in Reqs PROVE HttpOK(http'[q], req'[q], devices', ops')
  <2>1. HttpOK(http[q], req[q], devices, ops)
    BY DEF ServerInv, HttpInv
  <2>2. IF http[q].pc = "push" THEN req'[q].st # "idle" ELSE req'[q] = req[q]
    BY <2>1 DEF HttpOK
  <2> QED
    BY <1>1, <2>2, RequestStays
<1>3. Ready(Serve) => Ready(Serve)'
  BY ServeStaysReady
<1> QED
  BY <1>2, <1>3 DEF ServerInv, HttpInv

\* An answer is well formed whatever it says, as long as the request was not late
\* or the answer is not 200.
LEMMA ReplyIsOK ==
  ASSUME NEW h \in Http, NEW code \in Nat, h.late => code # 200,
         NEW dv, NEW o, LastSeq(o) \in Nat
  PROVE  /\ Reply(h, code) \in Http /\ HttpOK(Reply(h, code), IdleReq, dv, o)
         /\ Reply(h, code).pc = "reply"
<1> DEFINE a == Reply(h, code)
<1>1. a \in [pc : {"reply"}, route : {"none"}, flaw : {"none"}, hdr : {NoDev}, ops : {<<>>},
              late : {h.late}, code : {code}, head : {0}]
  BY DEF Reply, NoHttp
<1> HIDE DEF a
<1>2. 0 \in 0..MaxSeq /\ <<>> \in Seq(Ops) /\ 0 <= LastSeq(o)
  BY StoreAssumption
<1>3. a \in Http
  BY <1>1, <1>2 DEF Http
<1>4. HttpOK(a, IdleReq, dv, o)
  BY <1>1, <1>2 DEF HttpOK
<1> QED
  BY <1>1, <1>3, <1>4 DEF a

\* A request that is gone leaves nothing.
LEMMA NoHttpIsOK ==
  ASSUME NEW dv, NEW o, LastSeq(o) \in Nat
  PROVE  NoHttp \in Http /\ NoHttp.pc = "idle" /\ HttpOK(NoHttp, IdleReq, dv, o)
<1>1. NoHttp \in [pc : {"idle"}, route : {"none"}, flaw : {"none"}, hdr : {NoDev}, ops : {<<>>},
                   late : BOOLEAN, code : {0}, head : {0}]
      /\ ~NoHttp.late
  BY DEF NoHttp
<1>2. 0 \in 0..MaxSeq /\ <<>> \in Seq(Ops) /\ 0 <= LastSeq(o)
  BY StoreAssumption
<1>3. NoHttp \in Http
  BY <1>2 DEF Http, NoHttp
<1>4. HttpOK(NoHttp, IdleReq, dv, o)
  BY <1>1, <1>2 DEF HttpOK
<1> QED
  BY <1>1, <1>3, <1>4

\* What is answered before the store is asked: never 200 on a route that serves
\* data, and only to a request with X-Device-Id is nothing answered yet.
LEMMA RefusalFacts ==
  ASSUME NEW q \in Arrivals
  PROVE  /\ \A code \in Refusal(q) : code \in Nat /\ (q.route \in SyncRoutes => code # 200)
         /\ Refusal(q) = {} => q.hdr # NoDev
BY DEF Refusal, SyncRoutes

\* A request arrives, and is refused or goes on to authed.
LEMMA AcceptKeepsHttp ==
  ASSUME ServerInv, [ServerNext]_hvars, ~ServeStops,
         NEW r \in Reqs, NEW q \in Arrivals, Accept(r, q)
  PROVE  HttpInv'
<1>l. PICK late \in BOOLEAN : late <=> q.route \in SyncRoutes /\ devices[q.from] = "revoked"
  OBVIOUS
<1> DEFINE h == [NoHttp EXCEPT !.pc = "authed", !.route = q.route, !.flaw = q.flaw,
                               !.hdr = q.hdr, !.ops = q.ops, !.late = late]
<1>a. /\ Ready(Serve) /\ http[r] = NoHttp /\ UNCHANGED vars
      /\ \/ Refusal(q) = {} /\ http' = [http EXCEPT ![r] = h]
         \/ \E code \in Refusal(q) : http' = [http EXCEPT ![r] = Reply(h, code)]
  BY <1>l DEF Accept
<1>b. q \in Shape /\ q.hdr \in {q.from, NoDev} /\ q.ops \in Seq(Ops)
  BY ServerAssumption, StoreAssumption DEF Shape
<1>c. CoreInv /\ req[r] = IdleReq /\ UNCHANGED <<req, devices, ops>>
  BY <1>a DEF ServerInv, IndInv, HttpInv, HttpOK, NoHttp, vars
<1>e. h \in [pc : {"authed"}, route : {q.route}, flaw : {q.flaw}, hdr : {q.hdr},
              ops : {q.ops}, late : {late}, code : {0}, head : {0}]
  BY DEF NoHttp
<1>f. 0 \in 0..MaxSeq /\ LastSeq(ops) \in Nat /\ 0 <= LastSeq(ops)
  BY <1>c, StoreAssumption DEF CoreInv, TypeOK
<1> HIDE DEF h
<1>g. h \in Http
  BY <1>b, <1>e, <1>f DEF Shape, Http
<1>1. CASE Refusal(q) = {} /\ http' = [http EXCEPT ![r] = h]
  <2>1. q.hdr = q.from /\ q.hdr \in Devices /\ q.ops \in Batches
    BY <1>1, <1>b, RefusalFacts DEF Shape
  <2>2. HttpOK(h, req'[r], devices', ops')
    BY <1>c, <1>e, <1>f, <1>l, <2>1 DEF HttpOK
  <2> QED
    BY <1>1, <1>a, <1>c, <1>g, <2>2, OneRequestMoves
<1>2. ASSUME NEW code \in Refusal(q), http' = [http EXCEPT ![r] = Reply(h, code)]
      PROVE  HttpInv'
  <2>1. code \in Nat /\ (h.late => code # 200)
    BY <1>e, <1>l, RefusalFacts
  <2>2. Reply(h, code) \in Http /\ HttpOK(Reply(h, code), IdleReq, devices', ops)
    BY <1>f, <1>g, <2>1, ReplyIsOK
  <2> QED
    BY <1>2, <1>a, <1>c, <2>2, OneRequestMoves
<1> QED
  BY <1>a, <1>1, <1>2

\* The steps of a handler: authed, what it reads, recordDevice, the push, the end.
LEMMA HandlerKeepsHttp ==
  ASSUME ServerInv, [ServerNext]_hvars, ~ServeStops, NEW r \in Reqs, HandlerStep(r)
  PROVE  HttpInv'
<1> DEFINE h == http[r]
<1>a. /\ CoreInv /\ h \in Http /\ http \in [Reqs -> Http] /\ req \in [Reqs -> Request]
      /\ HttpOK(h, req[r], devices, ops) /\ (h.pc # "idle" => Ready(Serve))
  BY DEF ServerInv, IndInv, HttpInv, CoreInv, TypeOK
<1>b. LastSeq(ops') \in Nat
  BY <1>a, ServerStepIsStoreStep, NextKeepsCoreInv, StoreAssumption DEF CoreInv, TypeOK
<1>r. ASSUME NEW code \in Nat, h.late => code # 200, h.pc # "idle", Answer(r, code),
             req'[r] = IdleReq, \A q \in Reqs \ {r} : req'[q] = req[q]
      PROVE  HttpInv'
  <2>1. Reply(h, code) \in Http /\ HttpOK(Reply(h, code), IdleReq, devices', ops')
    BY <1>r, <1>a, <1>b, ReplyIsOK
  <2> QED
    BY <1>r, <1>a, <2>1, OneRequestMoves DEF Answer
<1> HIDE DEF h
<1>1. CASE Authed(r)
  <2>1. /\ h.pc = "authed" /\ req[r] = IdleReq /\ UNCHANGED <<devices, ops>>
        /\ h.hdr \in Devices /\ h.ops \in Batches
        /\ h.late => deviceRevoked(h.hdr)
    BY <1>1, <1>a, StoreAssumption DEF Authed, HttpOK, h, db, deviceRevoked
  <2>2. ASSUME NEW code \in {400, 401, 500, 507}, Answer(r, code), UNCHANGED req PROVE HttpInv'
    BY <2>1, <2>2, <1>r
  <2>3. ASSUME ~deviceRevoked(h.hdr), UNCHANGED req, http' = [http EXCEPT ![r].pc = "read"]
        PROVE  HttpInv'
    <3> DEFINE g == [h EXCEPT !.pc = "read"]
    <3>1. g \in Http /\ http' = [http EXCEPT ![r] = g]
      BY <2>3, <1>a DEF Http, h
    <3>2. /\ g.pc = "read" /\ g.hdr = h.hdr /\ g.ops = h.ops /\ g.late = h.late
          /\ g.head = h.head
      BY <1>a DEF Http
    <3> HIDE DEF g
    <3>3. HttpOK(g, req'[r], devices', ops')
      BY <2>1, <2>3, <3>2, <1>a DEF HttpOK
    <3> QED
      BY <2>1, <2>3, <3>1, <3>3, <1>a, OneRequestMoves
  <2>4. ASSUME ~deviceRevoked(h.hdr), http' = [http EXCEPT ![r].pc = "push"],
               req' = [req EXCEPT ![r] = [IdleReq EXCEPT !.st = "waiting", !.dev = h.hdr,
                                                          !.ops = h.ops]]
        PROVE  HttpInv'
    <3> DEFINE g == [h EXCEPT !.pc = "push"]
    <3>1. g \in Http /\ http' = [http EXCEPT ![r] = g]
      BY <2>4, <1>a DEF Http, h
    <3>2. /\ g.pc = "push" /\ g.hdr = h.hdr /\ g.ops = h.ops /\ g.late = h.late
          /\ g.head = h.head
      BY <1>a DEF Http
    <3>3. req'[r].st = "waiting" /\ \A q \in Reqs \ {r} : req'[q] = req[q]
      BY <2>4, <1>a DEF IdleReq
    <3> HIDE DEF g
    <3>4. HttpOK(g, req'[r], devices', ops')
      BY <2>1, <2>4, <3>2, <3>3, <1>a DEF HttpOK
    <3> QED
      BY <2>1, <3>1, <3>3, <3>4, <1>a, OneRequestMoves
  <2> QED
    BY <1>1, <2>2, <2>3, <2>4 DEF Authed, h
<1>2. CASE ReadHub(r)
  <2>1. UNCHANGED vars /\ h.pc = "read" /\ req[r] = IdleReq /\ ~h.late
    BY <1>2, <1>a DEF ReadHub, HttpOK, h
  <2>2. UNCHANGED <<req, ops, devices>>
    BY <2>1 DEF vars
  <2>3. CASE http' = [http EXCEPT ![r].pc = "record", ![r].head = head]
    <3> DEFINE g == [h EXCEPT !.pc = "record", !.head = head]
    <3>1. head \in 0..MaxSeq /\ head <= LastSeq(ops)
      BY <1>a DEF CoreInv, TypeOK, LogInv, LogOK
    <3>2. g \in Http /\ http' = [http EXCEPT ![r] = g]
      BY <2>3, <3>1, <1>a DEF Http, h
    <3>3. /\ g.pc = "record" /\ g.hdr = h.hdr /\ g.ops = h.ops /\ g.late = h.late
          /\ g.head = head
      BY <1>a DEF Http
    <3> HIDE DEF g
    <3>4. HttpOK(g, req'[r], devices', ops')
      BY <2>1, <2>2, <3>1, <3>3, <1>a DEF HttpOK
    <3> QED
      BY <2>1, <2>2, <3>2, <3>4, <1>a, OneRequestMoves
  <2>4. CASE Answer(r, 400) \/ Answer(r, 500)
    BY <2>1, <2>2, <2>4, <1>r
  <2> QED
    BY <1>2, <2>3, <2>4 DEF ReadHub
<1>3. CASE RecordDevice(r)
  <2>1. /\ h.pc = "record" /\ req[r] = IdleReq /\ ~h.late /\ UNCHANGED <<req, ops>>
        /\ h.head \in 0..MaxSeq /\ h.head <= LastSeq(ops)
    BY <1>3, <1>a DEF RecordDevice, SeenDevice, HttpOK, Http, h, vars
  <2> DEFINE w == Reply(h, 200)
             g == [w EXCEPT !.head = h.head]
  <2>2. w \in Http /\ HttpOK(w, IdleReq, devices', ops') /\ w.pc = "reply"
    BY <2>1, <1>a, <1>b, ReplyIsOK
  <2>3. http' = [http EXCEPT ![r] = g]
    BY <1>3 DEF RecordDevice, h
  <2> HIDE DEF w
  <2>4. /\ g \in Http /\ g.pc = "reply" /\ g.hdr = w.hdr /\ g.late = w.late
        /\ g.code = w.code /\ g.head = h.head
    BY <2>1, <2>2 DEF Http
  <2> HIDE DEF g
  <2>5. HttpOK(g, req'[r], devices', ops')
    BY <2>1, <2>2, <2>4 DEF HttpOK
  <2> QED
    BY <2>1, <2>3, <2>4, <2>5, <1>a, OneRequestMoves
<1>4. CASE HandlePush(r)
  <2>1. h.pc = "push" /\ PushStep(r) /\ ~h.late
    BY <1>4, <1>a DEF HandlePush, HttpOK, h
  <2>2. \A q \in Reqs \ {r} : req'[q] = req[q]
    BY <2>1, <1>a DEF PushStep, PushLock, PushBegin, PushKnownOp, PushNewOp, PushCommit,
       PushFail, PushDone
  <2>3. CASE req'[r] = IdleReq
    <3>1. Answer(r, PushCode(r)) /\ PushCode(r) \in Nat
      BY <1>4, <2>3 DEF HandlePush, PushCode
    <3> QED
      BY <2>1, <2>2, <2>3, <3>1, <1>r
  <2>4. CASE req'[r] # IdleReq
    <3>1. http' = [http EXCEPT ![r] = h]
      BY <1>4, <2>4, <1>a DEF HandlePush, h
    <3>2. req'[r].st # "idle"
      BY <2>1, <2>4, <1>a DEF PushStep, PushLock, PushBegin, PushKnownOp, PushNewOp, PushCommit,
         PushFail, PushDone, HttpOK, Request
    <3>3. HttpOK(http'[r], req'[r], devices', ops') /\ http'[r] = h
      BY <2>1, <3>1, <3>2, <1>a, ServerStepIsStoreStep, RequestStays DEF h
    <3> QED
      BY <2>1, <2>2, <3>1, <3>3, <1>a, OneRequestMoves
  <2> QED
    BY <2>3, <2>4
<1>5. CASE Finish(r)
  <2>1. UNCHANGED <<req, ops, devices>> /\ req[r] = IdleReq /\ http' = [http EXCEPT ![r] = NoHttp]
    BY <1>5, <1>a DEF Finish, HttpOK, h, vars
  <2> QED
    BY <2>1, <1>b, NoHttpIsOK, OneRequestMoves
<1> QED
  BY <1>1, <1>2, <1>3, <1>4, <1>5 DEF HandlerStep

\* Every step of the server keeps its requests well.
LEMMA StepKeepsHttp == ServerInv /\ [ServerNext]_hvars => HttpInv'
<1> SUFFICES ASSUME ServerInv, [ServerNext]_hvars PROVE HttpInv'
  OBVIOUS
<1>a. CoreInv /\ req \in [Reqs -> Request] /\ LastSeq(ops') \in Nat
  BY ServerStepIsStoreStep, NextKeepsCoreInv, StoreAssumption DEF ServerInv, IndInv, CoreInv, TypeOK
<1>1. CASE ServeStops
  <2>1. http' = [r \in Reqs |-> NoHttp] /\ req' = [r \in Reqs |-> IdleReq]
    BY <1>1 DEF ServeStops, Stop
  <2> QED
    BY <2>1, <1>a, NoHttpIsOK DEF HttpInv
<1>2. CASE ~ServeStops
  <2>1. ASSUME UNCHANGED <<http, req>> PROVE HttpInv'
    BY <1>2, <2>1, NoRequestMoves
  <2>2. ASSUME NEW r \in Reqs, NEW q \in Arrivals, Accept(r, q) PROVE HttpInv'
    BY <1>2, <2>2, AcceptKeepsHttp
  <2>3. ASSUME NEW r \in Reqs, HandlerStep(r) PROVE HttpInv'
    BY <1>2, <2>3, HandlerKeepsHttp
  <2>4. ASSUME NEW r \in Reqs, Panic(r) PROVE HttpInv'
    <3>1. /\ http' = [http EXCEPT ![r] = NoHttp] /\ req'[r] = IdleReq
          /\ \A q \in Reqs \ {r} : req'[q] = req[q]
      BY <2>4, <1>a DEF Panic
    <3> QED
      BY <1>2, <3>1, <1>a, NoHttpIsOK, OneRequestMoves
  <2>5. ASSUME StoreStep PROVE UNCHANGED <<http, req>>
    BY <2>5, StoreAssumption DEF StoreStep, OpenStep, LoadMeta, ReadHead, ReadMaxSeq, RepairHead,
       BumpEpoch, Stop, RevokeDevice
  <2>6. ASSUME Overloaded \/ UNCHANGED hvars PROVE UNCHANGED <<http, req>>
    BY <2>6 DEF Overloaded, hvars, vars
  <2> QED
    BY <1>2, <2>1, <2>2, <2>3, <2>4, <2>5, <2>6 DEF ServerNext
<1> QED
  BY <1>1, <1>2

-----------------------------------------------------------------------------
(* The theorems                                                            *)

\* Theorem: ServerInv is an invariant of the server.
THEOREM ServerInvariant == ServerSpec => []ServerInv
<1>1. ServerInit => ServerInv
  <2> SUFFICES ASSUME ServerInit PROVE ServerInv
    OBVIOUS
  <2>1. IndInv
    BY InitIndInv DEF ServerInit
  <2>2. MutexInv
    BY StoreAssumption DEF ServerInit, Init, MutexInv, IdleReq
  <2>3. HttpInv
    <3>1. LastSeq(ops) \in Nat
      BY <2>1, StoreAssumption DEF IndInv, CoreInv, TypeOK
    <3> QED
      BY <3>1, NoHttpIsOK DEF ServerInit, Init, HttpInv
  <2> QED
    BY <2>1, <2>2, <2>3 DEF ServerInv
<1>2. ServerInv /\ [ServerNext]_hvars => ServerInv'
  BY ServerStepIsStoreStep, NextKeepsIndInv, StepKeepsMutex, StepKeepsHttp DEF ServerInv, IndInv
<1> QED
  BY <1>1, <1>2, PTL DEF ServerSpec

\* Theorem: the HTTP server implements the store. Its panics, its check for
\* revocation ahead of the push, its requests that record a device late and its
\* refusals add no behaviour to the database, so that every theorem about
\* HubStore holds of the database behind the server.
THEOREM ServerImplementsStore == ServerSpec => Spec
<1>1. ServerInit => Init
  BY DEF ServerInit
<1>2. ServerInv /\ [ServerNext]_hvars => [Next]_vars
  BY ServerStepIsStoreStep
<1> QED
  BY <1>1, <1>2, ServerInvariant, PTL DEF ServerSpec, Spec

\* Theorem: a device that was revoked before its request arrived is answered with
\* no data and reaches no write, whatever its other requests do meanwhile.
THEOREM ServerRevokedGetsNothing == ServerSpec => []RevokedGetsNothing
<1>1. ServerInv => RevokedGetsNothing
  BY DEF ServerInv, HttpInv, HttpOK, RevokedGetsNothing, IdleReq
<1> QED
  BY <1>1, ServerInvariant, PTL

\* Theorem: no answer announces a number that the log cannot serve by the time it
\* is written.
THEOREM ServerAnnouncedIsServable == ServerSpec => []AnnouncedIsServable
<1>1. ServerInv => AnnouncedIsServable
  BY DEF ServerInv, HttpInv, HttpOK, AnnouncedIsServable
<1> QED
  BY <1>1, ServerInvariant, PTL

\* Theorem: behind the server no acknowledgement is taken back, no revision has
\* two numbers, and no step of a request removes a committed row.
THEOREM ServerKeepsPromises == ServerSpec => []AcksDurable /\ []KeysUnique /\ AppendOnly
BY ServerImplementsStore, StoreAcksDurable, StoreKeysUnique, StoreAppendOnly, PTL
=============================================================================
