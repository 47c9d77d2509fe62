----------------------------- MODULE SyncSystem -----------------------------
(***************************************************************************)
(* A hub and its devices over an unreliable network.                       *)
(*                                                                         *)
(* The hub is the log that OpLog specifies and HubStore implements, behind *)
(* the identity check of the HTTP handlers. A device runs claude-mem's     *)
(* sync client, which is not in this repository: it is modelled from       *)
(* docs/protocol.md and from what the hub's code assumes of it. It makes   *)
(* one call at a time. A call may fail at any point: the request may never *)
(* arrive, it may be handled long after the client gave up on it, and the  *)
(* answer may be lost; the client then tries again.                        *)
(***************************************************************************)
EXTENDS Integers, Sequences, FiniteSets

CONSTANTS Devices,
          Memories,   \* the memories that may be written, in any order
          Author,     \* the device each memory is written on
          BatchLimit, \* ops per push: the flusher's LIMIT 200
          PageLimit,  \* ops per page: proto.MaxPageLimit
          MaxEpochs,  \* bound on the number of epochs ever drawn
          MaxLate     \* bound on abandoned requests still under way

ASSUME SyncAssumption ==
  /\ Author \in [Memories -> Devices]
  /\ BatchLimit \in Nat \ {0} /\ PageLimit \in Nat \ {0}
  /\ MaxEpochs \in Nat \ {0} /\ MaxLate \in Nat

VARIABLES
  log,     \* hub: the operation log, a sequence of memories
  epoch,   \* hub: the epoch of the log
  minted,  \* hub: epochs drawn so far
  user,    \* hub: its identity, the user_id its meta row was made with
  flaky,   \* network: whether calls may still fail
  late,    \* network: abandoned push requests the hub may still handle
  mine,    \* client: rows written on the device, in id order
  synced,  \* client: those of them with synced_at stamped
  got,     \* client: rows that arrived from the hub
  cursor,  \* client: number of the last op applied
  known,   \* client: the epoch the cursor belongs to; 0 before first contact
  paired,  \* client: the user id the device is configured with
  call     \* client: the HTTP exchange under way

hubVars    == <<log, epoch, minted, user>>
clientVars == <<mine, synced, got, cursor, known, paired>>
netVars    == <<flaky, late>>
vars       == <<hubVars, netVars, clientVars, call>>

NoCall == [kind |-> "none"]

Init ==
  /\ log = <<>> /\ epoch = 1 /\ minted = 1 /\ user = 1
  /\ flaky = TRUE /\ late = {}
  /\ mine = [d \in Devices |-> <<>>]
  /\ synced = [d \in Devices |-> {}]
  /\ got = [d \in Devices |-> {}]
  /\ cursor = [d \in Devices |-> 0]
  /\ known = [d \in Devices |-> 0]
  /\ paired = [d \in Devices |-> 1]
  /\ call = [d \in Devices |-> NoCall]

Elems(s) == {s[i] : i \in DOMAIN s}

\* The elements of s that are not in S, in their order: SelectSeq by places and not
\* by recursion, so that it can be reasoned about.
Places(s, S)  == {i \in DOMAIN s : s[i] \notin S}
Rank(i, P)    == Cardinality({j \in P : j <= i})
Without(s, S) == [k \in 1..Cardinality(Places(s, S)) |->
                    s[CHOOSE i \in Places(s, S) : Rank(i, Places(s, S)) = k]]

AtMost(n, s) == SubSeq(s, 1, IF n < Len(s) THEN n ELSE Len(s))

-----------------------------------------------------------------------------
(* The hub                                                                 *)

\* A mistake to catch: no lookup before the append.
PushAppendsAll(b) == log \o b

\* Store.Push: revisions the log does not hold are appended in batch order.
Push(b) == log \o Without(b, Elems(log))

\* authed: a request made with another hub's user id is refused.
Authed(u) == u = user

\* A mistake to catch: the answer does not wait for the commit.
HandlePushUncommitted(d) ==
  /\ call[d].kind = "push" /\ Authed(paired[d])
  /\ log' \in {log, Push(call[d].ops)}
  /\ call' = [call EXCEPT ![d].kind = "acked"]
  /\ UNCHANGED <<epoch, minted, user, netVars, clientVars>>

HandlePush(d) ==
  /\ call[d].kind = "push" /\ Authed(paired[d])
  /\ log' = Push(call[d].ops)
  /\ call' = [call EXCEPT ![d].kind = "acked"]
  /\ UNCHANGED <<epoch, minted, user, netVars, clientVars>>

\* The handler runs to its end although the client has hung up: Push takes
\* its context WithoutCancel.
HandleLatePush(r) ==
  /\ late' = late \ {r}
  /\ log' = IF Authed(r.user) THEN Push(r.ops) ELSE log
  /\ UNCHANGED <<epoch, minted, user, flaky, clientVars, call>>

\* A mistake to catch: the epoch is a constant of the hub, not of its database.
HandleChangesFixedEpoch(d) ==
  /\ call[d].kind = "pull" /\ Authed(paired[d])
  /\ call' = [call EXCEPT ![d] =
       [kind |-> "page", epoch |-> 1,
        ops |-> AtMost(PageLimit, SubSeq(log, cursor[d] + 1, Len(log)))]]
  /\ UNCHANGED <<hubVars, netVars, clientVars>>

\* Store.Changes: the page and the epoch of one snapshot.
HandleChanges(d) ==
  /\ call[d].kind = "pull" /\ Authed(paired[d])
  /\ call' = [call EXCEPT ![d] =
       [kind |-> "page", epoch |-> epoch,
        ops |-> AtMost(PageLimit, SubSeq(log, cursor[d] + 1, Len(log)))]]
  /\ UNCHANGED <<hubVars, netVars, clientVars>>

\* 401: to the client one failure like any other.
Refuse(d) ==
  /\ call[d].kind \in {"push", "pull"} /\ ~Authed(paired[d])
  /\ call' = [call EXCEPT ![d] = NoCall]
  /\ UNCHANGED <<hubVars, netVars, clientVars>>

\* BumpEpoch: the log stays.
BumpEpoch ==
  /\ minted < MaxEpochs
  /\ minted' = minted + 1 /\ epoch' = minted + 1
  /\ UNCHANGED <<log, user, netVars, clientVars, call>>

\* A mistake to catch: the new database's epoch column is left at zero.
WipeZeroEpoch ==
  /\ minted < MaxEpochs
  /\ log' = <<>> /\ epoch' = 0
  /\ minted' = minted + 1 /\ user' = minted + 1
  /\ UNCHANGED <<netVars, clientVars, call>>

\* A mistake to catch: the new database gets the old epoch.
WipeKeepsEpoch ==
  /\ minted < MaxEpochs
  /\ log' = <<>>
  /\ minted' = minted + 1 /\ user' = minted + 1
  /\ UNCHANGED <<epoch, netVars, clientVars, call>>

\* The hub's database is deleted: the next Open draws a user id and an epoch.
Wipe ==
  /\ minted < MaxEpochs
  /\ log' = <<>>
  /\ minted' = minted + 1 /\ epoch' = minted + 1 /\ user' = minted + 1
  /\ UNCHANGED <<netVars, clientVars, call>>

-----------------------------------------------------------------------------
(* The client (external)                                                   *)

Remember(d, m) ==
  /\ Author[m] = d /\ m \notin Elems(mine[d])
  /\ mine' = [mine EXCEPT ![d] = Append(@, m)]
  /\ UNCHANGED <<hubVars, netVars, synced, got, cursor, known, paired, call>>

\* "The database is the queue": own rows with synced_at NULL, in id order.
Outbox(d) == Without(mine[d], synced[d])

\* The flusher, once the client has adopted an epoch.
SendPush(d) ==
  /\ call[d] = NoCall /\ Outbox(d) # <<>> /\ known[d] # 0
  /\ call' = [call EXCEPT ![d] = [kind |-> "push", ops |-> AtMost(BatchLimit, Outbox(d))]]
  /\ UNCHANGED <<hubVars, netVars, clientVars>>

RecvAcks(d) ==
  /\ call[d].kind = "acked"
  /\ synced' = [synced EXCEPT ![d] = @ \cup Elems(call[d].ops)]
  /\ call' = [call EXCEPT ![d] = NoCall]
  /\ UNCHANGED <<hubVars, netVars, mine, got, cursor, known, paired>>

SendPull(d) ==
  /\ call[d] = NoCall
  /\ call' = [call EXCEPT ![d] = [kind |-> "pull"]]
  /\ UNCHANGED <<hubVars, netVars, clientVars>>

\* A page of the known epoch, or of the first one met, is applied, own ops
\* left out. Any other epoch voids the cursor and requeues the device's rows.
RecvPage(d) ==
  /\ call[d].kind = "page"
  /\ IF known[d] \in {0, call[d].epoch}
       THEN /\ got' = [got EXCEPT ![d] = @ \cup {m \in Elems(call[d].ops) : Author[m] # d}]
            /\ cursor' = [cursor EXCEPT ![d] = @ + Len(call[d].ops)]
            /\ UNCHANGED synced
       ELSE /\ cursor' = [cursor EXCEPT ![d] = 0]
            /\ synced' = [synced EXCEPT ![d] = {}]
            /\ UNCHANGED got
  /\ known' = [known EXCEPT ![d] = call[d].epoch]
  /\ call' = [call EXCEPT ![d] = NoCall]
  /\ UNCHANGED <<hubVars, netVars, mine, paired>>

\* Timeout, connection reset, hub down. A push not yet handled may still be.
GiveUp(d) ==
  /\ flaky /\ call[d] # NoCall
  /\ \/ UNCHANGED late
     \/ /\ call[d].kind = "push" /\ Cardinality(late) < MaxLate
        /\ late' = late \cup {[ops |-> call[d].ops, user |-> paired[d]]}
  /\ call' = [call EXCEPT ![d] = NoCall]
  /\ UNCHANGED <<hubVars, flaky, clientVars>>

\* From some point on calls get through; when, nobody knows.
NetworkRecovers ==
  /\ flaky /\ flaky' = FALSE
  /\ UNCHANGED <<hubVars, late, clientVars, call>>

\* `cmemlan connect` run again on the device.
Reconnect(d) ==
  /\ paired[d] # user
  /\ paired' = [paired EXCEPT ![d] = user]
  /\ UNCHANGED <<hubVars, netVars, mine, synced, got, cursor, known, call>>

-----------------------------------------------------------------------------
SyncStep(d) == \/ SendPush(d) \/ HandlePush(d) \/ RecvAcks(d)
               \/ SendPull(d) \/ HandleChanges(d) \/ RecvPage(d)
               \/ Refuse(d) \/ GiveUp(d)

Next ==
  \/ \E d \in Devices : SyncStep(d) \/ Reconnect(d)
  \/ \E d \in Devices, m \in Memories : Remember(d, m)
  \/ \E r \in late : HandleLatePush(r)
  \/ BumpEpoch \/ Wipe

Spec == Init /\ [][Next]_vars

(* The flusher and the poller are timers of their own: whenever the client *)
(* is free again and again, each of them gets its turn. A request that     *)
(* reaches the hub is answered, and the answer handled. The network fails  *)
(* as often as it likes, but not for ever.                                 *)
Exchange(d) ==
  /\ SF_vars(SendPush(d)) /\ SF_vars(SendPull(d))
  /\ WF_vars(HandlePush(d) \/ RecvAcks(d) \/ HandleChanges(d) \/ RecvPage(d) \/ Refuse(d))

\* Users pair their devices again when the hub was replaced.
FairSpec == /\ Init /\ [][Next \/ NetworkRecovers]_vars
            /\ WF_vars(NetworkRecovers)
            /\ \A d \in Devices : Exchange(d) /\ WF_vars(Reconnect(d))

-----------------------------------------------------------------------------
(* Properties                                                              *)

Call == [kind : {"none", "pull"}] \cup [kind : {"push", "acked"}, ops : Seq(Memories)]
        \cup [kind : {"page"}, epoch : 1..MaxEpochs, ops : Seq(Memories)]

\* Type invariant.
TypeOK ==
  /\ log \in Seq(Memories)
  /\ minted \in 1..MaxEpochs /\ epoch \in 1..minted /\ user \in 1..minted
  /\ flaky \in BOOLEAN
  /\ late \subseteq [ops : Seq(Memories), user : 1..minted]
  /\ mine \in [Devices -> Seq(Memories)]
  /\ synced \in [Devices -> SUBSET Memories]
  /\ got \in [Devices -> SUBSET Memories]
  /\ cursor \in [Devices -> Nat]
  /\ known \in [Devices -> 0..minted]
  /\ paired \in [Devices -> 1..minted]
  /\ call \in [Devices -> Call]

\* A device whose cursor belongs to the hub's epoch has every op up to it, and
\* the hub still has them: no retry, late request or lost answer makes it skip
\* one, and its cursor never points past the log.
NothingSkipped ==
  \A d \in Devices : known[d] = epoch =>
    /\ cursor[d] <= Len(log)
    /\ \A i \in 1..cursor[d] : log[i] \in got[d] \cup Elems(mine[d])

\* A row is stamped synced only if the hub has it. Then the row's only way to
\* the other devices, the log, is never cut off by a premature stamp.
StampedIsStored ==
  \A d \in Devices : known[d] = epoch => synced[d] \subseteq Elems(log)

\* Retries and late requests never put one memory into the log twice.
NoDuplicates == \A i, j \in DOMAIN log : log[i] = log[j] => i = j

Written == UNION {Elems(mine[d]) : d \in Devices}

\* Every device has every memory, and nothing is left to upload.
InSync == \A d \in Devices : /\ Elems(mine[d]) \cup got[d] = Written
                             /\ Outbox(d) = <<>>

\* Once nothing is written any more and the hub is left alone, all devices end
\* up with all memories, and stay so: through lost and late messages, epoch
\* rotations, and a deleted hub whose devices are paired again.
Converges == <>[]InSync
=============================================================================
