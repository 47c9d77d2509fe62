------------------------------ MODULE LogTable ------------------------------
(***************************************************************************)
(* The `ops` table of internal/store/schema.go as a value: a function from *)
(* the sequence numbers in use to the rows stored under them. The primary  *)
(* key (user_id, seq) makes it a function; nothing else about its shape is *)
(* built in, so gaplessness and uniqueness are properties to establish.    *)
(* Of a row the model keeps the entity revision `key` (entity_id with      *)
(* entity_rev) and the operation_sha256 `digest`, which stands for the     *)
(* body it is computed from.                                               *)
(***************************************************************************)
EXTENDS Integers

CONSTANTS Keys,    \* entity revisions: an (entity_id, entity_rev) pair each
          Digests  \* operation_sha256 values

Ops == [key : Keys, digest : Digests]

EmptyTable == [s \in {} |-> 0]

IsTable(t) == /\ t = [s \in DOMAIN t |-> t[s]]
              /\ \A s \in DOMAIN t : s \in Nat /\ t[s] \in Ops

KeysIn(t) == {t[s].key : s \in DOMAIN t}

\* SELECT MAX(seq): NULL on an empty table, which the code reads as 0.
LastSeq(t) == IF DOMAIN t = {} THEN 0
              ELSE CHOOSE m \in DOMAIN t : \A s \in DOMAIN t : s <= m

\* existingSeq: the number an entity revision is stored under.
SeqOf(k, t) == CHOOSE s \in DOMAIN t : t[s].key = k

\* INSERT INTO ops: refused by the primary key or by the unique index.
CanInsert(t, n, op) == n \notin DOMAIN t /\ op.key \notin KeysIn(t)

Insert(t, n, op) == [s \in DOMAIN t \cup {n} |-> IF s = n THEN op ELSE t[s]]

\* The numbers run 1, 2, 3... with none missing: what a client pulling with
\* requireContiguous needs to make progress.
Gapless(t) == DOMAIN t = 1..LastSeq(t)

\* No entity revision is stored twice.
OneSeqPerKey(t) == \A r, s \in DOMAIN t : t[r].key = t[s].key => r = s

\* u keeps every row of t, under the same number.
Extends(t, u) == \A s \in DOMAIN t : s \in DOMAIN u /\ u[s] = t[s]

\* An acknowledgement names the number its entity revision is stored under.
AckSound(a, t) == a.seq \in DOMAIN t /\ t[a.seq].key = a.key
=============================================================================
