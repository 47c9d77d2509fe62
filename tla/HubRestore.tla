----------------------------- MODULE HubRestore -----------------------------
(***************************************************************************)
(* The hub's database file replaced under the store while no process has   *)
(* it open: deleted, so that the next Open starts a new hub, or put back   *)
(* from a copy taken earlier. A copy is a committed state of the database, *)
(* which is also what SQLite recovers after a power failure: the WAL is    *)
(* opened with synchronous(NORMAL), so the last commits may be missing.    *)
(***************************************************************************)
EXTENDS HubStore

VARIABLES
  backup, \* copies of the database file: {} or {one record}
  peak    \* history: per epoch, the highest number committed under it

restoreVars == <<vars, backup, peak>>

AllClosed == \A p \in Procs : proc[p].pc = "closed"

RestoreInit == Init /\ backup = {} /\ peak = [e \in 1..MaxEpochs |-> 0]

\* A step of the store; the clients may have pulled what it commits.
StoreStep ==
  /\ Next
  /\ peak' = [peak EXCEPT ![epoch'] = IF LastSeq(ops') > @ THEN LastSeq(ops') ELSE @]
  /\ UNCHANGED backup

TakeBackup ==
  /\ backup = {}
  /\ backup' = {[ops |-> ops, head |-> head, epoch |-> epoch, devices |-> devices]}
  /\ UNCHANGED <<vars, peak>>

\* The copy replaces the file. Nothing in the store is told.
Restore ==
  /\ AllClosed
  /\ \E c \in backup : /\ ops' = c.ops /\ head' = c.head
                       /\ epoch' = c.epoch /\ devices' = c.devices
  /\ UNCHANGED <<minted, proc, req, mu, tx, acked, backup, peak>>

\* A mistake to catch: every new database starts with the same epoch.
WipeFixedEpoch ==
  /\ AllClosed
  /\ ops' = EmptyTable /\ head' = 0 /\ epoch' = 1
  /\ devices' = [d \in Devices |-> "unknown"]
  /\ UNCHANGED <<minted, proc, req, mu, tx, acked, backup, peak>>

\* The file is deleted: migrate creates empty tables and loadOrCreateMeta a
\* meta row with a new epoch and head_seq 0.
Wipe ==
  /\ AllClosed /\ minted < MaxEpochs
  /\ minted' = minted + 1
  /\ ops' = EmptyTable /\ head' = 0 /\ epoch' = minted + 1
  /\ devices' = [d \in Devices |-> "unknown"]
  /\ UNCHANGED <<proc, req, mu, tx, acked, backup, peak>>

RestoreSpec == RestoreInit /\ [][StoreStep \/ Wipe \/ TakeBackup \/ Restore]_restoreVars

-----------------------------------------------------------------------------
\* docs/protocol.md: "Any sequence discontinuity ... requires a new epoch.
\* Otherwise clients sit above head_seq polling empty pages forever". While
\* the hub serves, no number ever committed under the current epoch is beyond
\* the end of the log.
EpochNamesOneLog == Ready(Serve) => peak[epoch] <= LastSeq(ops)

\* It is kept as long as nothing is restored, which takes a backup: a wiped hub
\* never reuses numbers under an epoch that devices have cursors for, and no
\* head repair or rotation takes numbers back.
WipeStartsEpoch == backup = {} => EpochNamesOneLog

\* Whatever file it is given back, the store goes on with a log without a gap
\* and a counter that does not run ahead of it.
SoundAfterRestore == Gapless(ops) /\ OneSeqPerKey(ops) /\ head <= LastSeq(ops)
=============================================================================
