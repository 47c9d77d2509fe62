----------------------------- MODULE ChangesPage -----------------------------
(***************************************************************************)
(* GET /v1/sync/changes: hub.handleChanges and store.Changes, which cut    *)
(* the log after a cursor into pages bounded in rows and in bytes, and a   *)
(* client that pulls page after page while pushes go on.                   *)
(*                                                                         *)
(* The log is the gapless one HubStore establishes, so only the size of    *)
(* each body is kept: body[s] is the length of the body stored under s.    *)
(* Changes reads the page in one read transaction: a fetch is one step.    *)
(* The head_seq and epoch it reports beside the page are left out here.    *)
(***************************************************************************)
EXTENDS WireFormat, FiniteSets

CONSTANTS MaxRows,      \* bound on the length of the log
          MaxPageLimit, \* proto.MaxPageLimit, 500
          MaxBytes,     \* Options.MaxResponseBytes
          Limits        \* values of the limit parameter

ASSUME PageAssumption ==
  /\ MaxRows \in Nat /\ MaxRows <= MaxInt64
  /\ MaxPageLimit \in Nat \ {0}
  /\ MaxBytes \in Nat
  /\ Limits \subseteq Int

VARIABLES body,    \* the log: body lengths in sequence order
          cursor   \* the client's stored cursor: it has applied every op up to it

vars == <<body, cursor>>

-----------------------------------------------------------------------------
(* The handler                                                             *)

\* A limit outside 1..MaxPageLimit is clamped, by the handler and by Changes.
ClampedLimit(n) == IF n > 0 /\ n < MaxPageLimit THEN n ELSE MaxPageLimit

\* ORDER BY seq LIMIT n, of the rows with the numbers S.
FirstOf(S, n) ==
  [k \in 1..(IF n < Cardinality(S) THEN n ELSE Cardinality(S)) |->
     CHOOSE s \in S : Cardinality({t \in S : t <= s}) = k]

\* A mistake to catch: WHERE seq >= since.
RowsFrom(since, limit) == FirstOf({s \in DOMAIN body : s >= since}, limit + 1)

\* WHERE seq > since ORDER BY seq LIMIT limit + 1.
RowsAfter(since, limit) == FirstOf({s \in DOMAIN body : s > since}, limit + 1)

Start == [n |-> 0, bytes |-> 0, more |-> FALSE]

\* A mistake to catch: the byte cap applies to the first row too.
TurnFirstRowCapped(s, size, limit) ==
  IF s.more THEN s
  ELSE IF s.n = limit \/ s.bytes + size > MaxBytes
       THEN [n |-> s.n, bytes |-> s.bytes, more |-> TRUE]
       ELSE [n |-> s.n + 1, bytes |-> s.bytes + size, more |-> FALSE]

\* One turn of the row loop of Changes, for a row of `size` bytes: n rows taken so
\* far, of `bytes` bytes; `more` is set by the two breaks.
Turn(s, size, limit) ==
  IF s.more THEN s
  ELSE IF s.n = limit \/ (s.n > 0 /\ s.bytes + size > MaxBytes)
       THEN [n |-> s.n, bytes |-> s.bytes, more |-> TRUE]
       ELSE [n |-> s.n + 1, bytes |-> s.bytes + size, more |-> FALSE]

\* The loop: its state after each row.
Scan(rows, limit) ==
  LET after[i \in 0..Len(rows)] ==
        IF i = 0 THEN Start ELSE Turn(after[i - 1], body[rows[i]], limit)
  IN  after

\* The cursor comes as a string. One that does not parse, or that does not fit an
\* int64, is rejected with bad_cursor.
Accepts(since) == ParseDec(since) # Refused /\ Int64(ParseDec(since)) # Refused

Changes(since, param) ==
  LET limit == ClampedLimit(param)
      rows  == RowsAfter(since, limit)
      end   == Scan(rows, limit)[Len(rows)]
  IN  [ops |-> SubSeq(rows, 1, end.n), more |-> end.more]

-----------------------------------------------------------------------------
(* The client, external: it applies a page only if it starts at cursor + 1 *)
(* and is contiguous, and then advances its cursor to the page's end.      *)

requireContiguous(page) == \A i \in DOMAIN page.ops : page.ops[i] = cursor + i

Init == body = <<>> /\ cursor = 0

Push(size) ==
  /\ Len(body) < MaxRows
  /\ body' = Append(body, size)
  /\ UNCHANGED cursor

\* A mistake to catch: the cursor advances by the limit, not by the page.
FetchByLimit(param) ==
  LET page == Changes(cursor, param)
  IN  /\ Accepts(DecString(cursor))
      /\ page.ops # <<>> /\ requireContiguous(page)
      /\ cursor' = cursor + ClampedLimit(param)
      /\ UNCHANGED body

Fetch(param) ==
  LET page == Changes(cursor, param)
  IN  /\ Accepts(DecString(cursor))
      /\ page.ops # <<>> /\ requireContiguous(page)
      /\ cursor' = page.ops[Len(page.ops)]
      /\ UNCHANGED body

-----------------------------------------------------------------------------
\* Type invariant.
TypeOK ==
  /\ body \in Seq(Nat) /\ Len(body) <= MaxRows
  /\ cursor \in 0..Len(body)

\* The bytes of the rows after `since`, up to each number.
BytesAfter(since) ==
  LET total[i \in 0..Len(body)] ==
        IF i = 0 THEN 0 ELSE total[i - 1] + IF i > since THEN body[i] ELSE 0
  IN  total

\* What store.Changes owes every cursor and limit, in any state of the log: the
\* page continues the cursor without a gap, is within the limit, is empty only
\* when nothing is left, exceeds the byte cap only by its first row, announces
\* more exactly when rows remain, and is cut only where a bound forces it.
PageContract ==
  \A since \in 0..(MaxRows + 1), param \in Limits :
    LET p == Changes(since, param)
        n == Len(p.ops)
        bytes(k) == BytesAfter(since)[since + k]
    IN  /\ \A i \in 1..n : p.ops[i] = since + i
        /\ n <= MaxPageLimit /\ (param \in 1..MaxPageLimit => n <= param)
        /\ n = 0 <=> since >= Len(body)
        /\ n > 1 => bytes(n) <= MaxBytes
        /\ p.more <=> since + n < Len(body)
        /\ p.more => n = ClampedLimit(param) \/ bytes(n + 1) > MaxBytes

\* A polling client always catches up with the log while pushes go on: no page
\* ever stalls it, be it empty, not contiguous or with a first row that alone
\* exceeds the byte cap.
CatchesUp == []<>(cursor = Len(body))
=============================================================================
