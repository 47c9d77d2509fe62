----------------------------- MODULE HubServer ------------------------------
(***************************************************************************)
(* internal/hub: the HTTP server of `cmemlan serve` over the store of      *)
(* HubStore. A request passes recoverPanics, limitInFlight and             *)
(* checkHostAndOrigin, is routed, authenticated and checked for revocation *)
(* (authed), and its handler reads or writes the store. Other processes    *)
(* revoke devices and open the database meanwhile.                         *)
(*                                                                         *)
(* Unlike in HubStore, the revocation check of authed is a step of its own *)
(* before the handler's first. A request is its shape: the route, the one  *)
(* thing that is wrong with it, who sent it and which device it claims to  *)
(* be. The pages of /changes are ChangesPage's, /pair is PairingWindow's.  *)
(***************************************************************************)
EXTENDS HubStore

CONSTANTS Arrivals,    \* the shapes of the requests that may arrive
          MaxInFlight  \* Options.MaxInFlight

SyncRoutes == {"status", "changes", "ops"}

Shape == [route : SyncRoutes \cup {"healthz", "pair", "elsewhere"},
          flaw  : {"none", "origin", "method", "token", "user", "body"},
          from  : Devices, hdr : Devices \cup {NoDev}, ops : Batches]

ASSUME ServerAssumption ==
  /\ Arrivals \subseteq Shape
  /\ MaxInFlight \in Nat \ {0}
  \* The code cannot tell a device that gives another's id.
  /\ \A q \in Arrivals : q.hdr \in {q.from, NoDev}

VARIABLES
  inflight, \* how many of the slots of Server.inflight are taken
  http      \* per request: where it is in its handler, and its answer

hvars == <<vars, inflight, http>>

\* pc "push" is Store.Push, whose steps are those of req; "reply" holds the answer.
\* late: the device had been revoked when its request arrived.
NoHttp == [pc |-> "idle", route |-> "none", flaw |-> "none", hdr |-> NoDev, ops |-> <<>>,
           late |-> FALSE, code |-> 0, head |-> 0]

ServerInit == Init /\ inflight = 0 /\ http = [r \in Reqs |-> NoHttp]

Reply(h, code) == [NoHttp EXCEPT !.pc = "reply", !.late = h.late, !.code = code]

Answer(r, code) == http' = [http EXCEPT ![r] = Reply(@, code)]

-----------------------------------------------------------------------------
(* The wrappers and the router                                             *)

\* A mistake to catch: a request without X-Device-Id is nobody's, and let in.
RefusalAnonymous(q) ==
  CASE q.flaw = "origin"                            -> {400}
    [] q.route = "elsewhere"                        -> {404}
    [] q.flaw = "method"                            -> {405}
    [] q.route = "healthz"                          -> {200}
    [] q.route = "pair"                             -> IF q.flaw = "body" THEN {400} ELSE {200, 401}
    [] q.flaw \in {"token", "user"}                 -> {401}
    [] OTHER                                        -> {}

\* What is answered from the request alone: checkHostAndOrigin; route, by exact
\* path; /healthz; handlePair, which answers 401 whatever Redeem objects to; and
\* authed up to the device id. Verify covers the user id, so that the 403 behind it
\* is not reached with a StaticToken. Empty where the store has to be asked.
Refusal(q) ==
  CASE q.flaw = "origin"                            -> {400}
    [] q.route = "elsewhere"                        -> {404}
    [] q.flaw = "method"                            -> {405}
    [] q.route = "healthz"                          -> {200}
    [] q.route = "pair"                             -> IF q.flaw = "body" THEN {400} ELSE {200, 401}
    [] q.flaw \in {"token", "user"}                 -> {401}
    [] q.hdr = NoDev                                -> {400}
    [] OTHER                                        -> {}

\* limitInFlight takes a slot without waiting.
Accept(r, q) ==
  LET h == [NoHttp EXCEPT !.pc = "authed", !.route = q.route, !.flaw = q.flaw, !.hdr = q.hdr,
                          !.ops = q.ops,
                          !.late = q.route \in SyncRoutes /\ devices[q.from] = "revoked"]
  IN  /\ Ready(Serve) /\ http[r] = NoHttp
      /\ inflight < MaxInFlight /\ inflight' = inflight + 1
      /\ \/ Refusal(q) = {} /\ http' = [http EXCEPT ![r] = h]
         \/ \E code \in Refusal(q) : http' = [http EXCEPT ![r] = Reply(h, code)]
      /\ UNCHANGED vars

\* limitInFlight finds none free: 503, and the request has left no trace.
Overloaded ==
  /\ Ready(Serve) /\ inflight = MaxInFlight
  /\ UNCHANGED hvars

\* The response is written, or lost with the connection, and the slot returned.
Finish(r) ==
  /\ http[r].pc = "reply"
  /\ http' = [http EXCEPT ![r] = NoHttp] /\ inflight' = inflight - 1
  /\ UNCHANGED vars

\* A goroutine that is blocked in Store.mu.Lock executes nothing.
Running(r) == req[r].st = "waiting" => mu = NoReq

\* A mistake to catch: the slot is returned after the handler, not deferred.
PanicKeepsSlot(r) ==
  /\ http[r].pc \notin {"idle", "reply"} /\ Running(r)
  /\ http' = [http EXCEPT ![r] = NoHttp]
  /\ req' = [req EXCEPT ![r] = IdleReq]
  /\ mu' = IF mu = r THEN NoReq ELSE mu
  /\ tx' = IF tx.by = r THEN NoTx ELSE tx
  /\ UNCHANGED <<db, minted, proc, acked, inflight>>

\* A handler panics. The deferred calls run from the inside out: the rollback, the
\* unlock and the slot before recoverPanics, which answers 500.
Panic(r) ==
  /\ http[r].pc \notin {"idle", "reply"} /\ Running(r)
  /\ http' = [http EXCEPT ![r] = NoHttp] /\ inflight' = inflight - 1
  /\ req' = [req EXCEPT ![r] = IdleReq]
  /\ mu' = IF mu = r THEN NoReq ELSE mu
  /\ tx' = IF tx.by = r THEN NoTx ELSE tx
  /\ UNCHANGED <<db, minted, proc, acked>>

-----------------------------------------------------------------------------
(* authed and the handlers                                                 *)

\* Nobody is not revoked; authed has turned nobody away before.
deviceRevoked(d) == d # NoDev /\ devices[d] = "revoked"

\* authed: DeviceRevoked, which may fail. Of handlePush what comes before
\* Store.Push depends on the request and the disk only: 507 below the floor of
\* free space, 400 for a body that does not parse.
Authed(r) ==
  /\ http[r].pc = "authed"
  /\ \/ Answer(r, IF deviceRevoked(http[r].hdr) THEN 401 ELSE 500) /\ UNCHANGED req
     \/ /\ ~deviceRevoked(http[r].hdr)
        /\ \/ /\ http[r].route # "ops" /\ UNCHANGED req
              /\ http' = [http EXCEPT ![r].pc = "read"]
           \/ /\ http[r].route = "ops" /\ UNCHANGED req
              /\ \E code \in {507} \cup (IF http[r].flaw = "body" THEN {400} ELSE {}) : Answer(r, code)
           \/ /\ http[r].route = "ops" /\ http[r].flaw # "body"
              /\ http' = [http EXCEPT ![r].pc = "push"]
              /\ req' = [req EXCEPT ![r] = [IdleReq EXCEPT !.st = "waiting", !.dev = http[r].hdr,
                                                           !.ops = http[r].ops]]
  /\ UNCHANGED <<db, minted, proc, mu, tx, acked, inflight>>

\* A mistake to catch: the counter is read on the connection of the open push.
ReadUncommitted(r) ==
  /\ http[r].pc = "read"
  /\ \/ http' = [http EXCEPT ![r].pc = "record", ![r].head = IF tx = NoTx THEN head ELSE tx.head]
     \/ \E code \in {400, 500} : Answer(r, code)
  /\ UNCHANGED <<vars, inflight>>

\* handleStatus: HeadSeq. handleChanges: the cursor, 400 where it does not parse,
\* and Changes, which reads the counter and the page in one transaction.
ReadHub(r) ==
  /\ http[r].pc = "read"
  /\ \/ http' = [http EXCEPT ![r].pc = "record", ![r].head = head]
     \/ http[r].route = "changes" /\ Answer(r, 400)
     \/ Answer(r, 500)
  /\ UNCHANGED <<vars, inflight>>

\* recordDevice, under Store.mu; where it fails the request goes on. The answer
\* takes the cached epoch (/status, in the same step: mu is taken once more only to
\* read it) or the one read with the page (/changes).
RecordDevice(r) ==
  /\ http[r].pc = "record" /\ mu = NoReq /\ tx = NoTx
  /\ (http[r].hdr # NoDev /\ SeenDevice(http[r].hdr)) \/ UNCHANGED vars
  /\ http' = [http EXCEPT ![r] = [Reply(@, 200) EXCEPT !.head = http[r].head]]
  /\ UNCHANGED inflight

\* handlePush: what Push's result is answered with.
PushCode(r) ==
  CASE req[r].st = "answered"                                        -> 200
    [] req[r].st = "waiting" /\ devices[req[r].dev] = "revoked"      -> 401
    [] OTHER                                                         -> 500

\* Store.Push, step by step, and its answer.
HandlePush(r) ==
  /\ http[r].pc = "push" /\ PushStep(r)
  /\ IF req'[r] = IdleReq THEN Answer(r, PushCode(r)) ELSE UNCHANGED http
  /\ UNCHANGED inflight

\* The process ends: no request survives it.
ServeStops ==
  /\ Stop(Serve)
  /\ inflight' = 0 /\ http' = [r \in Reqs |-> NoHttp]

-----------------------------------------------------------------------------
HandlerStep(r) == Authed(r) \/ ReadHub(r) \/ RecordDevice(r) \/ HandlePush(r) \/ Finish(r)

\* The steps of the store that no request takes.
StoreStep ==
  /\ \/ \E p \in Procs : OpenStep(p)
     \/ \E p \in Clis : Stop(p) \/ \E d \in Devices : RevokeDevice(p, d)
  /\ UNCHANGED <<inflight, http>>

ServerNext ==
  \/ \E r \in Reqs, q \in Arrivals : Accept(r, q)
  \/ \E r \in Reqs : HandlerStep(r) \/ Panic(r)
  \/ Overloaded \/ ServeStops \/ StoreStep

ServerSpec == ServerInit /\ [][ServerNext]_hvars

(* A handler that can run does. sync.Mutex hands itself to a waiter that    *)
(* has waited 1 ms, so that none is passed over for ever, in Push or in     *)
(* SeenDevice.                                                              *)
ServerFairSpec ==
  /\ ServerSpec
  /\ \A r \in Reqs : /\ WF_hvars(HandlerStep(r)) /\ SF_hvars(RecordDevice(r))
                     /\ SF_hvars(HandlePush(r) /\ req[r].st = "waiting")
-----------------------------------------------------------------------------
(* Properties                                                              *)

\* Every request that got a slot is answered, or dies with the process: none waits
\* for ever for the mutex, behind a push that failed, panicked or was revoked.
RequestAnswered == \A r \in Reqs : http[r].pc # "idle" ~> http[r].pc = "idle"

\* "bounds concurrent requests so one machine cannot exhaust memory": a hub that
\* refuses with 503 has a free slot again sooner or later, whatever its requests
\* ran into, panics included.
OverloadEnds == inflight = MaxInFlight ~> inflight < MaxInFlight

\* A device whose revocation was committed before its request arrived gets no data
\* and reaches no write, however it is recorded by the requests it had under way,
\* and though it leave out X-Device-Id.
RevokedGetsNothing ==
  \A r \in Reqs : http[r].late =>
    /\ http[r].pc \in {"authed", "reply"} /\ http[r].code # 200
    /\ req[r].st = "idle"

\* Every number that an answer of /status or /changes announces is one that the
\* log can serve, when the answer is written and not only when head_seq was read:
\* a client told to pull up to it never waits for a page that does not come.
AnnouncedIsServable ==
  \A r \in Reqs : http[r].pc = "reply" => http[r].head <= LastSeq(ops)
=============================================================================
