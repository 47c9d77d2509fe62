------------------------------- MODULE OpLog -------------------------------
(***************************************************************************)
(* What the hub promises its devices, with the database, the processes and *)
(* the failures left out: one operation log, numbered 1, 2, 3... without a *)
(* gap, in which an entity revision occurs at most once, and a set of      *)
(* acknowledgements that are never taken back. Rotating the epoch voids    *)
(* the clients' cursors, never the log.                                    *)
(* The rules are those docs/protocol.md gives for POST /v1/sync/ops and    *)
(* GET /v1/sync/changes, and the comment of Store.Push.                    *)
(***************************************************************************)
EXTENDS LogTable

CONSTANT Batches    \* the op lists a push may carry

VARIABLES log,      \* the operation log, a LogTable
          promised, \* acknowledgements given: records [key, digest, seq]
          epoch     \* the epoch under which sequence numbers are valid

logVars == <<log, promised, epoch>>

LogInit == log = EmptyTable /\ promised = {} /\ epoch = 1

(* A push: the log grows by exactly the revisions of the batch it did not  *)
(* hold, and every op of the batch is acknowledged with its own digest and *)
(* the number its revision is stored under.                                *)
Accept(b) ==
  /\ Extends(log, log') /\ Gapless(log') /\ OneSeqPerKey(log')
  /\ KeysIn(log') = KeysIn(log) \cup {b[i].key : i \in DOMAIN b}
  /\ \A s \in DOMAIN log' \ DOMAIN log : \E i \in DOMAIN b : log'[s] = b[i]
  /\ promised' = promised \cup
       {[key |-> b[i].key, digest |-> b[i].digest, seq |-> SeqOf(b[i].key, log')]
          : i \in DOMAIN b}
  /\ UNCHANGED epoch

Rotate == epoch' # epoch /\ UNCHANGED <<log, promised>>

LogNext == Rotate \/ \E b \in Batches : Accept(b)

LogSpec == LogInit /\ [][LogNext]_logVars
=============================================================================
