-------------------------------- MODULE Relay --------------------------------
(***************************************************************************)
(* An op's way through the hub: handlePush validates it (WireFormat) and   *)
(* stores the literal of its body, handleChanges pages it out again        *)
(* (ChangesPage), where it counts with the bytes of that literal. The      *)
(* client has no way round an op that is refused: it stays at the head of  *)
(* the outbox and is sent again for ever.                                  *)
(***************************************************************************)
EXTENDS ChangesPage

CONSTANTS Texts,  \* texts the client has to sync, as code units
          Revs,   \* entity revisions
          Junk,   \* ops that no conforming client makes
          Grain   \* the bytes that a page counts as one, to keep sizes few

VARIABLE outbox   \* the op at the head of the outbox, or NoOp

rvars == <<body, cursor, outbox>>

\* How the client writes an op: the body's text under a literal of its choice, the
\* digest of the text, decimals without leading zeros.
ClientOp(units, literal, rev) ==
  [wrapper |-> TRUE, literal |-> literal, valid |-> TRUE, digest |-> Utf8(units), fields |-> TRUE,
   kind |-> "observation", id |-> "id", rev |-> DecString(rev), dev |-> 1, local |-> DecString(rev)]

\* Every text in every form, and every revision with the first of the texts.
Conforming ==
  LET ofText(t, rev) == {ClientOp(t, l, rev) : l \in Literals(t)}
  IN  UNION ({ofText(t, 1) : t \in Texts} \cup {ofText(<<"a">>, rev) : rev \in Revs})

NoOp == [ClientOp(<<>>, <<>>, 0) EXCEPT !.wrapper = FALSE]

\* len(body) of a stored row.
RowSize(literal) == (Bytes(literal, SymbolBytes) + Grain - 1) \div Grain

ASSUME RelayAssumption ==
  /\ \A t \in Texts : t \in Seq(Units) /\ Bytes(Utf8(t), UnitBytes) <= MaxBodyBytes
  /\ Revs \subseteq 1..MaxUint64
  /\ Junk \cap Conforming = {} /\ \A op \in Junk : op.literal \in Seq(Symbols)
  /\ Grain \in Nat \ {0}

RInit == Init /\ outbox = NoOp

\* A row of the client's database, or its next one, comes up. External.
Compose ==
  /\ outbox = NoOp /\ Len(body) < MaxRows
  /\ outbox' \in Conforming \cup Junk
  /\ UNCHANGED <<body, cursor>>

\* handlePush: an op that passes is stored as it came; one that does not is a 400. A
\* request is of this protocol version and carries one op.
HandlePush ==
  /\ outbox # NoOp /\ ParseOp(outbox) = "ok"
  /\ Push(RowSize(outbox.literal))
  /\ outbox' = NoOp

\* Whoever sent what no client sends gives up on it.
Drop ==
  /\ outbox \in Junk /\ ParseOp(outbox) # "ok"
  /\ outbox' = NoOp
  /\ UNCHANGED <<body, cursor>>

Pull == (\E param \in Limits : Fetch(param)) /\ UNCHANGED outbox

RNext == Compose \/ HandlePush \/ Drop \/ Pull

(* The client retries its push and polls for ever.                          *)
RSpec == RInit /\ [][RNext]_rvars /\ WF_rvars(HandlePush \/ Drop) /\ WF_rvars(Pull)

-----------------------------------------------------------------------------
\* "this rejects only what the hub cannot store or route, never anything a
\* conforming client could legitimately produce": the head of the outbox is always
\* taken sooner or later, whichever way its text is escaped, surrogates without a
\* partner and bodies and numbers at their limits included; and no op that is not
\* conforming ever counts as one.
OutboxDrains == /\ []<>(outbox = NoOp)
                /\ [][(outbox \in Junk) => (body' = body)]_rvars
=============================================================================
