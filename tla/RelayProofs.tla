----------------------------- MODULE RelayProofs -----------------------------
(***************************************************************************)
(* Proofs about ChangesPage, WireFormat and Relay, for a log of any        *)
(* length, rows of any size, any limits, texts and revisions.              *)
(*                                                                         *)
(* What is proved here is what loops compute: the row loop of Changes, the *)
(* digits of a decimal, the decoding of a literal. The models write them   *)
(* as recursive functions, so the proofs are inductions: on the first k    *)
(* rows, the digits so far, the symbols that are left. The first section   *)
(* has the two principles they rest on, that a set of numbers closed under *)
(* successor is Nat and that a recursive definition defines a function.    *)
(***************************************************************************)
EXTENDS Relay, WellFoundedInduction, FiniteSetTheorems, SequenceTheorems, TLAPS

-----------------------------------------------------------------------------
(* Induction and recursion.                                                *)

\* A set of numbers that is not empty has a least element.
LEMMA Least ==
  ASSUME NEW T \in SUBSET Nat, T # {}
  PROVE  \E n \in T : \A m \in T : n <= m
<1> DEFINE R == {p \in Nat \X Nat : p[1] < p[2]}
<1>1. IsWellFoundedOn(R, Nat)
  BY NatLessThanWellFounded, Zenon DEF OpToRel
<1>2. PICK x \in T : \A y \in T : <<y, x>> \notin R
  BY <1>1, WFMin
<1>3. \A y \in T : ~(y < x)
  BY <1>2
<1> QED
  BY <1>3

\* Induction up to n.
LEMMA Induct ==
  ASSUME NEW n \in Nat, NEW S, 0 \in S,
         \A i \in 1..n : i - 1 \in S => i \in S
  PROVE  \A i \in 0..n : i \in S
<1> SUFFICES ASSUME NEW k \in 0..n, k \notin S PROVE FALSE
  OBVIOUS
<1> DEFINE T == {i \in 0..n : i \notin S}
<1>1. T \in SUBSET Nat /\ T # {}
  OBVIOUS
<1>2. PICK i \in T : \A m \in T : i <= m
  BY <1>1, Least
<1>3. i \in 1..n /\ i - 1 \in 0..n /\ i - 1 \notin T
  BY <1>2
<1> QED
  BY <1>2, <1>3

\* Complete induction up to n.
LEMMA InductComplete ==
  ASSUME NEW n \in Nat, NEW S,
         \A i \in 0..n : (\A j \in 0..(i - 1) : j \in S) => i \in S
  PROVE  \A i \in 0..n : i \in S
<1> SUFFICES ASSUME NEW k \in 0..n, k \notin S PROVE FALSE
  OBVIOUS
<1> DEFINE T == {i \in 0..n : i \notin S}
<1>1. T \in SUBSET Nat /\ T # {}
  OBVIOUS
<1>2. PICK i \in T : \A m \in T : i <= m
  BY <1>1, Least
<1>3. \A j \in 0..(i - 1) : j \in S
  BY <1>2
<1> QED
  BY <1>2, <1>3

\* step[i] takes from a function only its values at numbers smaller than i.
LooksBack(step, n, V) ==
  \A i \in 1..n : \A g, h \in [0..n -> V] :
     (\A j \in 0..(i - 1) : g[j] = h[j]) => step[i][g] = step[i][h]

Defines(step, n, V, c) ==
  \E f \in [0..n -> V] : f[0] = c /\ \A i \in 1..n : f[i] = step[i][f]

\* A function may be defined by its values at smaller arguments.
LEMMA Recursion ==
  ASSUME NEW n \in Nat, NEW V, NEW c \in V, NEW step \in [1..n -> [[0..n -> V] -> V]],
         LooksBack(step, n, V)
  PROVE  Defines(step, n, V, c)
<1> DEFINE Good(f, k) == f[0] = c /\ \A i \in 1..n : i <= k => f[i] = step[i][f]
           S == {k \in Nat : k <= n => \E f \in [0..n -> V] : Good(f, k)}
<1>1. 0 \in S
  <2>1. [i \in 0..n |-> c] \in [0..n -> V] /\ Good([i \in 0..n |-> c], 0)
    OBVIOUS
  <2> QED
    BY <2>1
<1>2. ASSUME NEW m \in 1..n, m - 1 \in S PROVE m \in S
  <2>1. PICK f \in [0..n -> V] : Good(f, m - 1)
    BY <1>2
  <2>2. step[m][f] \in V
    OBVIOUS
  <2> DEFINE g == [f EXCEPT ![m] = step[m][f]]
  <2>3. g \in [0..n -> V] /\ g[m] = step[m][f] /\ \A j \in 0..n : j # m => g[j] = f[j]
    BY <2>2
  <2> HIDE DEF g
  <2>4. ASSUME NEW i \in 1..n, i <= m PROVE g[i] = step[i][g]
    <3>1. \A j \in 0..(i - 1) : g[j] = f[j]
      BY <2>3, <2>4
    <3>2. step[i][g] = step[i][f]
      BY <2>3, <3>1 DEF LooksBack
    <3>3. CASE i = m
      BY <2>3, <3>2, <3>3
    <3>4. CASE i # m
      BY <2>1, <2>3, <2>4, <3>2, <3>4
    <3> QED
      BY <3>3, <3>4
  <2>5. Good(g, m)
    BY <2>1, <2>3, <2>4
  <2> QED
    BY <2>3, <2>5
<1>3. n \in S
  <2> HIDE DEF S
  <2>1. \A m \in 1..n : m - 1 \in S => m \in S
    BY <1>2
  <2>2. \A m \in 0..n : m \in S
    BY <1>1, <2>1, Induct, Zenon
  <2> QED
    BY <2>2
<1> QED
  BY <1>3 DEF Defines

\* A loop: each value is computed from the one before.
Loops(next, n, V, c) ==
  \E f \in [0..n -> V] : f[0] = c /\ \A i \in 1..n : f[i] = next[i][f[i - 1]]

\* There is a function for every loop.
LEMMA Iteration ==
  ASSUME NEW n \in Nat, NEW V, NEW c \in V, NEW next \in [1..n -> [V -> V]]
  PROVE  Loops(next, n, V, c)
<1> DEFINE step == [i \in 1..n |-> [g \in [0..n -> V] |-> next[i][g[i - 1]]]]
<1>1. step \in [1..n -> [[0..n -> V] -> V]]
  OBVIOUS
<1>2. LooksBack(step, n, V)
  BY DEF LooksBack
<1>3. \A i \in 1..n : \A g \in [0..n -> V] : step[i][g] = next[i][g[i - 1]]
  OBVIOUS
<1> HIDE DEF step
<1>4. PICK f \in [0..n -> V] : f[0] = c /\ \A i \in 1..n : f[i] = step[i][f]
  <2>1. Defines(step, n, V, c)
    BY <1>1, <1>2, Recursion
  <2> QED
    BY <2>1 DEF Defines
<1> QED
  BY <1>3, <1>4 DEF Loops

-----------------------------------------------------------------------------
(* The rows of a page.                                                     *)

Smaller(a, b) == IF a < b THEN a ELSE b

\* How many rows the query returns for a cursor: what is left, at most limit + 1.
Left(since, limit) == IF since >= Len(body) THEN 0 ELSE Smaller(limit + 1, Len(body) - since)

\* The query returns the rows that follow the cursor, in order.
LEMMA RowsAfterIs ==
  ASSUME body \in Seq(Nat), NEW since \in Nat, NEW limit \in Nat
  PROVE  /\ Left(since, limit) \in Nat /\ Left(since, limit) <= limit + 1
         /\ since + Left(since, limit) <= Len(body) \/ Left(since, limit) = 0
         /\ RowsAfter(since, limit) = [k \in 1..Left(since, limit) |-> since + k]
<1> DEFINE L == Len(body)
           S == {s \in DOMAIN body : s > since}
           m == Left(since, limit)
<1>1. L \in Nat /\ DOMAIN body = 1..L
  OBVIOUS
<1>2. /\ m \in Nat /\ m <= limit + 1 /\ (since + m <= L \/ m = 0)
      /\ m = IF since >= L THEN 0 ELSE IF limit + 1 < L - since THEN limit + 1 ELSE L - since
  BY <1>1 DEF Left, Smaller
<1>3. S = (since + 1)..L
  BY <1>1
<1> HIDE DEF S, m, L
<1>4. Cardinality(S) = IF since >= L THEN 0 ELSE L - since
  BY <1>1, <1>3, FS_Interval
<1>5. (IF limit + 1 < Cardinality(S) THEN limit + 1 ELSE Cardinality(S)) = m
  BY <1>1, <1>2, <1>4
<1>6. ASSUME NEW s \in S PROVE Cardinality({t \in S : t <= s}) = s - since
  <2>1. {t \in S : t <= s} = (since + 1)..s /\ s \in Nat /\ s > since
    BY <1>1, <1>3
  <2>2. Cardinality((since + 1)..s) = s - since
    BY <2>1, FS_Interval
  <2> QED
    BY <2>1, <2>2
<1>7. ASSUME NEW k \in 1..m
      PROVE  (CHOOSE s \in S : Cardinality({t \in S : t <= s}) = k) = since + k
  <2>1. since + k \in S /\ (\A s \in S : s - since = k <=> s = since + k)
    BY <1>1, <1>2, <1>3
  <2>2. \A s \in S : Cardinality({t \in S : t <= s}) = k <=> s = since + k
    BY <1>6, <2>1
  <2> QED
    BY <2>1, <2>2
<1>8. FirstOf(S, limit + 1) = [k \in 1..m |-> since + k]
  BY <1>5, <1>7, Zenon DEF FirstOf
<1> QED
  BY <1>2, <1>8 DEF RowsAfter, S, m, L

\* The bytes after a cursor, as sums.
LEMMA BytesAfterIs ==
  ASSUME body \in Seq(Nat), NEW since \in Nat
  PROVE  /\ BytesAfter(since) \in [0..Len(body) -> Nat]
         /\ \A i \in 0..Len(body) : i <= since => BytesAfter(since)[i] = 0
         /\ \A i \in 1..Len(body) : i > since => BytesAfter(since)[i] = BytesAfter(since)[i - 1] + body[i]
<1> DEFINE L == Len(body)
           B == BytesAfter(since)
           next == [i \in 1..L |-> [b \in Nat |-> b + IF i > since THEN body[i] ELSE 0]]
<1>1. L \in Nat /\ \A i \in 1..L : body[i] \in Nat
  OBVIOUS
<1>2. next \in [1..L -> [Nat -> Nat]] /\ 0 \in Nat
  BY <1>1
<1>3. \A i \in 1..L : \A b \in Nat : next[i][b] = b + IF i > since THEN body[i] ELSE 0
  OBVIOUS
<1> HIDE DEF next, L
<1>4. Loops(next, L, Nat, 0)
  BY <1>1, <1>2, Iteration
<1>5. PICK f \in [0..L -> Nat] : f[0] = 0 /\ \A i \in 1..L : f[i] = next[i][f[i - 1]]
  BY <1>4 DEF Loops
<1>6. f = [i \in 0..L |-> IF i = 0 THEN 0 ELSE f[i - 1] + IF i > since THEN body[i] ELSE 0]
  <2>1. \A i \in 0..L : f[i] = IF i = 0 THEN 0 ELSE f[i - 1] + IF i > since THEN body[i] ELSE 0
    <3>1. \A i \in 1..L : f[i - 1] \in Nat
      BY <1>1
    <3>2. \A i \in 1..L : f[i] = f[i - 1] + IF i > since THEN body[i] ELSE 0
      BY <1>3, <1>5, <3>1
    <3> QED
      BY <1>1, <1>5, <3>2
  <2> QED
    BY <2>1
<1>7. B = [i \in 0..L |-> IF i = 0 THEN 0 ELSE B[i - 1] + IF i > since THEN body[i] ELSE 0]
  BY <1>6, Zenon DEF BytesAfter, L
<1> HIDE DEF B
<1>8. B[0] = 0 /\ \A i \in 1..L : B[i] = B[i - 1] + IF i > since THEN body[i] ELSE 0
  BY <1>1, <1>7
<1> DEFINE S == {i \in 0..L : B[i] \in Nat /\ (i <= since => B[i] = 0)}
<1>9. 0 \in S /\ \A i \in 1..L : i - 1 \in S => i \in S
  <2>1. 0 \in S
    BY <1>1, <1>8
  <2>2. ASSUME NEW i \in 1..L, i - 1 \in S PROVE i \in S
    <3>1. B[i - 1] \in Nat /\ (i - 1 <= since => B[i - 1] = 0) /\ i \in 0..L
      BY <1>1, <2>2
    <3>2. body[i] \in Nat /\ B[i] = B[i - 1] + IF i > since THEN body[i] ELSE 0
      BY <1>1, <1>8
    <3>3. i <= since => i - 1 <= since /\ ~(i > since)
      OBVIOUS
    <3>4. B[i] \in Nat /\ (i <= since => B[i] = 0)
      BY <3>1, <3>2, <3>3
    <3> QED
      BY <3>1, <3>4
  <2> QED
    BY <2>1, <2>2
<1> HIDE DEF S
<1>10. \A i \in 0..L : i \in S
  BY <1>1, <1>9, Induct, Zenon
<1>11. \A i \in 0..L : B[i] \in Nat /\ (i <= since => B[i] = 0)
  BY <1>10 DEF S
<1>12. B \in [0..L -> Nat]
  BY <1>7, <1>11
<1> QED
  BY <1>1, <1>8, <1>11, <1>12 DEF B, L

\* The states of the row loop.
ScanStates == [n : Nat, bytes : Nat, more : BOOLEAN]

\* What one turn of the row loop does to its state.
LEMMA TurnIs ==
  ASSUME NEW s \in ScanStates, NEW size \in Nat, NEW limit \in Nat
  PROVE  /\ Turn(s, size, limit) \in ScanStates
         /\ s.more => Turn(s, size, limit) = s
         /\ ~s.more /\ (s.n = limit \/ (s.n > 0 /\ s.bytes + size > MaxBytes))
            => /\ Turn(s, size, limit).n = s.n /\ Turn(s, size, limit).bytes = s.bytes
               /\ Turn(s, size, limit).more
         /\ ~s.more /\ ~(s.n = limit \/ (s.n > 0 /\ s.bytes + size > MaxBytes))
            => /\ Turn(s, size, limit).n = s.n + 1 /\ Turn(s, size, limit).bytes = s.bytes + size
               /\ ~Turn(s, size, limit).more
BY PageAssumption DEF Turn, ScanStates

\* The row loop, as its turns.
LEMMA ScanIs ==
  ASSUME body \in Seq(Nat), NEW rows \in Seq(DOMAIN body), NEW limit \in Nat
  PROVE  /\ Scan(rows, limit)[0] = Start
         /\ \A i \in 1..Len(rows) :
              Scan(rows, limit)[i] = Turn(Scan(rows, limit)[i - 1], body[rows[i]], limit)
<1> DEFINE L == Len(rows)
           A == Scan(rows, limit)
           next == [i \in 1..L |-> [s \in ScanStates |-> Turn(s, body[rows[i]], limit)]]
<1>1. L \in Nat /\ \A i \in 1..L : body[rows[i]] \in Nat
  OBVIOUS
<1>2. next \in [1..L -> [ScanStates -> ScanStates]] /\ Start \in ScanStates
  <2>1. \A i \in 1..L : \A s \in ScanStates : Turn(s, body[rows[i]], limit) \in ScanStates
    BY <1>1, TurnIs
  <2>2. Start \in ScanStates
    BY DEF Start, ScanStates
  <2> QED
    BY <2>1, <2>2
<1>3. \A i \in 1..L : \A s \in ScanStates : next[i][s] = Turn(s, body[rows[i]], limit)
  OBVIOUS
<1> HIDE DEF next, L
<1>4. Loops(next, L, ScanStates, Start)
  BY <1>1, <1>2, Iteration
<1>5. PICK f \in [0..L -> ScanStates] : f[0] = Start /\ \A i \in 1..L : f[i] = next[i][f[i - 1]]
  BY <1>4 DEF Loops
<1>6. f = [i \in 0..L |-> IF i = 0 THEN Start ELSE Turn(f[i - 1], body[rows[i]], limit)]
  <2>1. \A i \in 0..L : f[i] = IF i = 0 THEN Start ELSE Turn(f[i - 1], body[rows[i]], limit)
    <3>1. \A i \in 1..L : f[i - 1] \in ScanStates
      <4>1. \A i \in 1..L : i - 1 \in 0..L
        BY <1>1
      <4> QED
        BY <4>1
    <3>2. \A i \in 1..L : f[i] = Turn(f[i - 1], body[rows[i]], limit)
      BY <1>3, <1>5, <3>1
    <3> QED
      BY <1>1, <1>5, <3>2
  <2> QED
    BY <2>1
<1>7. A = [i \in 0..L |-> IF i = 0 THEN Start ELSE Turn(A[i - 1], body[rows[i]], limit)]
  BY <1>6, Zenon DEF Scan, L
<1> HIDE DEF A
<1>8. A[0] = Start /\ \A i \in 1..L : A[i] = Turn(A[i - 1], body[rows[i]], limit)
  BY <1>1, <1>7
<1> QED
  BY <1>8 DEF A, L

\* What the row loop knows after i rows, in state s: it has taken the first s.n of
\* them, and when it has stopped, it was at a bound.
TakenSoFar(s, i, since, limit) ==
  /\ s.n <= i /\ s.n <= limit /\ (i > 0 => s.n > 0)
  /\ ~s.more => s.n = i
  /\ s.bytes = IF s.n = 0 THEN 0 ELSE BytesAfter(since)[since + s.n]
  /\ s.n > 1 => s.bytes <= MaxBytes
  /\ s.more => s.n < i /\ (s.n = limit \/ BytesAfter(since)[since + s.n + 1] > MaxBytes)

\* One turn keeps it.
LEMMA TurnKeepsTaken ==
  ASSUME body \in Seq(Nat), NEW since \in Nat, NEW limit \in Nat \ {0},
         NEW i \in Nat \ {0}, since + i <= Len(body),
         NEW s \in ScanStates, TakenSoFar(s, i - 1, since, limit)
  PROVE  TakenSoFar(Turn(s, body[since + i], limit), i, since, limit)
<1> DEFINE B == BytesAfter(since)
           size == body[since + i]
           t == Turn(s, size, limit)
<1>1. /\ B \in [0..Len(body) -> Nat] /\ B[since] = 0
      /\ B[since + i] = B[since + i - 1] + size
  <2>1. Len(body) \in Nat /\ since + i \in 1..Len(body) /\ since + i > since /\ since \in 0..Len(body)
    OBVIOUS
  <2> QED
    BY <2>1, BytesAfterIs
<1>2. size \in Nat
  OBVIOUS
<1>3. /\ t \in ScanStates
      /\ s.more => t = s
      /\ ~s.more /\ (s.n = limit \/ (s.n > 0 /\ s.bytes + size > MaxBytes))
         => t.n = s.n /\ t.bytes = s.bytes /\ t.more
      /\ ~s.more /\ ~(s.n = limit \/ (s.n > 0 /\ s.bytes + size > MaxBytes))
         => t.n = s.n + 1 /\ t.bytes = s.bytes + size /\ ~t.more
  BY <1>2, TurnIs
<1>4. /\ s.n \in Nat /\ s.bytes \in Nat /\ s.n <= i - 1 /\ s.n <= limit /\ (i > 1 => s.n > 0)
      /\ ~s.more => s.n = i - 1
      /\ s.bytes = IF s.n = 0 THEN 0 ELSE B[since + s.n]
      /\ s.n > 1 => s.bytes <= MaxBytes
      /\ s.more => s.n < i - 1 /\ (s.n = limit \/ B[since + s.n + 1] > MaxBytes)
  BY DEF TakenSoFar, ScanStates
<1>5. MaxBytes \in Nat
  BY PageAssumption
<1> HIDE DEF B, t, size
<1>6. CASE s.more
  <2>1. t = s
    BY <1>3, <1>6
  <2>2. TakenSoFar(s, i, since, limit)
    BY <1>4, <1>6 DEF TakenSoFar, B
  <2> QED
    BY <2>1, <2>2 DEF t, size
<1>7. CASE ~s.more /\ (s.n = limit \/ (s.n > 0 /\ s.bytes + size > MaxBytes))
  <2>1. t.n = s.n /\ t.bytes = s.bytes /\ t.more /\ s.n = i - 1 /\ s.n > 0
    BY <1>3, <1>4, <1>7
  <2>2. s.n # limit => B[since + s.n + 1] > MaxBytes
    <3>1. since + s.n + 1 = since + i /\ since + s.n = since + i - 1
      BY <2>1
    <3> QED
      BY <1>1, <1>2, <1>4, <1>7, <2>1, <3>1
  <2>3. TakenSoFar(t, i, since, limit)
    BY <1>4, <2>1, <2>2 DEF TakenSoFar, B
  <2> QED
    BY <2>3 DEF t, size
<1>8. CASE ~s.more /\ ~(s.n = limit \/ (s.n > 0 /\ s.bytes + size > MaxBytes))
  <2>1. t.n = i /\ t.bytes = s.bytes + size /\ ~t.more /\ s.n = i - 1 /\ i <= limit
    <3>1. t.n = s.n + 1 /\ t.bytes = s.bytes + size /\ ~t.more
      BY <1>3, <1>8, Zenon
    <3>2. s.n = i - 1 /\ s.n \in Nat /\ s.n <= limit /\ s.n # limit
      BY <1>4, <1>8, Zenon
    <3> QED
      BY <3>1, <3>2
  <2>2. t.bytes = B[since + i]
    <3>1. CASE i = 1
      <4>1. B[since + i] = B[since] + size /\ s.bytes = 0
        BY <1>1, <1>4, <3>1
      <4> QED
        BY <1>1, <1>2, <2>1, <4>1
    <3>2. CASE i > 1
      <4>1. since + s.n = since + i - 1 /\ s.n > 0
        BY <2>1, <3>2
      <4> QED
        BY <1>1, <1>4, <2>1, <4>1
    <3> QED
      BY <3>1, <3>2
  <2>3. i > 1 => t.bytes <= MaxBytes
    <3>1. ~(s.n > 0 /\ s.bytes + size > MaxBytes) /\ s.bytes \in Nat
      BY <1>4, <1>8, Zenon
    <3> QED
      BY <1>2, <1>5, <2>1, <3>1
  <2>4. TakenSoFar(t, i, since, limit)
    BY <1>4, <2>1, <2>2, <2>3 DEF TakenSoFar, B
  <2> QED
    BY <2>4 DEF t, size
<1> QED
  BY <1>6, <1>7, <1>8

\* The row loop over the rows after a cursor, at its end.
LEMMA ScanTakes ==
  ASSUME body \in Seq(Nat), NEW since \in Nat, NEW limit \in Nat \ {0}
  PROVE  LET m == Left(since, limit)
             s == Scan(RowsAfter(since, limit), limit)[m]
         IN  s \in ScanStates /\ TakenSoFar(s, m, since, limit)
<1> DEFINE m == Left(since, limit)
           rows == RowsAfter(since, limit)
           A == Scan(rows, limit)
           S == {i \in 0..m : A[i] \in ScanStates /\ TakenSoFar(A[i], i, since, limit)}
<1>1. m \in Nat /\ (since + m <= Len(body) \/ m = 0) /\ rows = [k \in 1..m |-> since + k]
  BY RowsAfterIs
<1>2. rows \in Seq(DOMAIN body) /\ Len(rows) = m
  <2> HIDE DEF m, rows
  <2>1. \A k \in 1..m : since + k \in DOMAIN body
    BY <1>1
  <2>2. rows \in [1..m -> DOMAIN body]
    BY <1>1, <2>1
  <2> QED
    BY <1>1, <2>2
<1> HIDE DEF rows
<1>3. A[0] = Start /\ \A i \in 1..Len(rows) : A[i] = Turn(A[i - 1], body[rows[i]], limit)
  BY <1>2, ScanIs
<1>4. \A i \in 1..m : A[i] = Turn(A[i - 1], body[since + i], limit)
  BY <1>1, <1>2, <1>3
<1> HIDE DEF A, m
<1>5. 0 \in S
  <2>1. Start \in ScanStates /\ TakenSoFar(Start, 0, since, limit)
    BY DEF Start, ScanStates, TakenSoFar
  <2> QED
    BY <1>1, <1>3, <2>1
<1>6. ASSUME NEW i \in 1..m, i - 1 \in S PROVE i \in S
  <2>1. since + i <= Len(body) /\ i \in Nat \ {0} /\ body[since + i] \in Nat
    BY <1>1
  <2>2. A[i - 1] \in ScanStates /\ TakenSoFar(A[i - 1], i - 1, since, limit)
    BY <1>6
  <2>3. TakenSoFar(A[i], i, since, limit)
    BY <1>4, <2>1, <2>2, TurnKeepsTaken
  <2>4. A[i] \in ScanStates
    <3>1. Turn(A[i - 1], body[since + i], limit) \in ScanStates
      BY <2>1, <2>2, TurnIs
    <3> QED
      BY <1>4, <3>1
  <2> QED
    BY <1>1, <2>3, <2>4
<1> HIDE DEF S
<1>7. m \in S
  <2>1. \A i \in 1..m : i - 1 \in S => i \in S
    BY <1>6
  <2>2. \A i \in 0..m : i \in S
    BY <1>1, <1>5, <2>1, Induct, Zenon
  <2> QED
    BY <1>1, <2>2
<1>8. A[m] \in ScanStates /\ TakenSoFar(A[m], m, since, limit)
  BY <1>7 DEF S
<1> QED
  BY <1>8 DEF A, m, rows

\* What a page of n rows is. The numbers speak for themselves: it continues the
\* cursor, it is within the bounds, and it is cut only where one forces it.
PageIs(p, n, since, limit) ==
  /\ n \in Nat /\ p.ops = [k \in 1..n |-> since + k] /\ Len(p.ops) = n
  /\ n <= limit
  /\ n = 0 <=> since >= Len(body)
  /\ n > 0 => since + n <= Len(body)
  /\ n > 1 => BytesAfter(since)[since + n] <= MaxBytes
  /\ p.more <=> since + n < Len(body)
  /\ p.more => n = limit \/ BytesAfter(since)[since + n + 1] > MaxBytes

\* The numbers that follow a cursor are a sequence.
LEMMA FollowSeq ==
  ASSUME NEW n \in Nat, NEW since \in Nat, NEW f, f = [k \in 1..n |-> since + k]
  PROVE  f \in Seq(Nat) /\ Len(f) = n
<1>1. \A k \in 1..n : since + k \in Nat
  OBVIOUS
<1>2. f \in [1..n -> Nat]
  BY <1>1, Zenon
<1>3. f \in Seq(Nat)
  BY <1>2, SeqDef, Zenon
<1>4. Len(f) \in Nat /\ 1..Len(f) = 1..n
  BY <1>2, <1>3, LenProperties, Zenon
<1>5. Len(f) = n
  <2> DEFINE m == Len(f)
  <2>1. m \in Nat /\ 1..m = 1..n
    BY <1>4
  <2> HIDE DEF m
  <2>2. m = n
    BY <2>1
  <2> QED
    BY <2>2 DEF m
<1> QED
  BY <1>3, <1>5

\* The first n of a sequence of numbers.
LEMMA PrefixIs ==
  ASSUME NEW s \in Seq(Nat), NEW n \in Nat, n <= Len(s)
  PROVE  /\ Len(SubSeq(s, 1, n)) = n /\ SubSeq(s, 1, n) \in Seq(Nat)
         /\ \A k \in 1..n : SubSeq(s, 1, n)[k] = s[k]
OBVIOUS

\* What Changes returns.
LEMMA ChangesIs ==
  ASSUME body \in Seq(Nat), NEW since \in Nat, NEW param \in Int
  PROVE  /\ ClampedLimit(param) \in 1..MaxPageLimit
         /\ param \in 1..MaxPageLimit => ClampedLimit(param) = param
         /\ \E n \in Nat : PageIs(Changes(since, param), n, since, ClampedLimit(param))
<1> DEFINE limit == ClampedLimit(param)
           m == Left(since, limit)
           rows == RowsAfter(since, limit)
           s == Scan(rows, limit)[m]
           n == s.n
           p == Changes(since, param)
<1>1. limit \in 1..MaxPageLimit /\ (param \in 1..MaxPageLimit => limit = param)
  BY PageAssumption DEF ClampedLimit
<1>2. limit \in Nat \ {0}
  BY <1>1, PageAssumption
<1> HIDE DEF limit
<1>3. /\ m \in Nat /\ m <= limit + 1 /\ (since + m <= Len(body) \/ m = 0)
      /\ rows = [k \in 1..m |-> since + k]
  BY <1>2, RowsAfterIs
<1>4. Len(rows) = m /\ rows \in Seq(Nat)
  <2> HIDE DEF rows, m
  <2> QED
    BY <1>3, FollowSeq
<1>5. p = [ops |-> SubSeq(rows, 1, n), more |-> s.more]
  BY <1>4, Zenon DEF Changes, limit
<1>6. s \in ScanStates /\ TakenSoFar(s, m, since, limit)
  BY <1>2, ScanTakes
<1>7. m = IF since >= Len(body) THEN 0
          ELSE IF limit + 1 < Len(body) - since THEN limit + 1 ELSE Len(body) - since
  BY DEF Left, Smaller
<1> HIDE DEF s, m, rows, p
<1>8. /\ n \in Nat /\ n <= m /\ n <= limit /\ (m > 0 => n > 0)
      /\ ~s.more => n = m
      /\ n > 0 => s.bytes = BytesAfter(since)[since + n]
      /\ n > 1 => s.bytes <= MaxBytes
      /\ s.more => n < m /\ (n = limit \/ BytesAfter(since)[since + n + 1] > MaxBytes)
  BY <1>6 DEF TakenSoFar, ScanStates
<1>9. p.ops = [k \in 1..n |-> since + k] /\ Len(p.ops) = n
  <2>1. n <= Len(rows) /\ p.ops = SubSeq(rows, 1, n)
    BY <1>4, <1>5, <1>8
  <2>2. /\ Len(SubSeq(rows, 1, n)) = n /\ SubSeq(rows, 1, n) \in Seq(Nat)
        /\ \A k \in 1..n : SubSeq(rows, 1, n)[k] = rows[k]
    <3>1. n \in Nat /\ n <= Len(rows) /\ rows \in Seq(Nat)
      BY <1>4, <1>8, <2>1
    <3> HIDE DEF n
    <3> QED
      BY <3>1, PrefixIs
  <2>3. \A k \in 1..n : rows[k] = since + k
    BY <1>3, <1>8
  <2> DEFINE q == SubSeq(rows, 1, n)
             f == [k \in 1..n |-> since + k]
  <2>4. q \in Seq(Nat) /\ Len(q) = n /\ \A k \in 1..n : q[k] = since + k
    BY <2>2, <2>3, Zenon
  <2>5. \A k \in 1..n : f[k] = since + k
    BY Zenon
  <2>6. f \in Seq(Nat) /\ Len(f) = n
    <3>1. f = [k \in 1..n |-> since + k] /\ n \in Nat
      BY <1>8, Zenon
    <3> HIDE DEF f, n
    <3> QED
      BY <3>1, FollowSeq, Zenon
  <2> HIDE DEF q, f
  <2>7. q = f
    BY <2>4, <2>5, <2>6, SeqEqual, Zenon
  <2> QED
    BY <2>1, <2>4, <2>7 DEF q, f
<1>10. p.more = s.more /\ s.more \in BOOLEAN
  BY <1>5, <1>6 DEF ScanStates
<1>11. p.more <=> since + n < Len(body)
  <2>1. CASE s.more
    BY <1>3, <1>8, <1>10, <2>1
  <2>2. CASE ~s.more
    BY <1>2, <1>7, <1>8, <1>10, <2>2
  <2> QED
    BY <2>1, <2>2
<1>12. n = 0 <=> since >= Len(body)
  BY <1>2, <1>3, <1>7, <1>8
<1>13. PageIs(p, n, since, limit)
  <2>1. n > 0 => since + n <= Len(body)
    BY <1>3, <1>8
  <2>2. n > 1 => BytesAfter(since)[since + n] <= MaxBytes
    BY <1>8
  <2>3. p.more => n = limit \/ BytesAfter(since)[since + n + 1] > MaxBytes
    BY <1>8, <1>10
  <2> QED
    BY <1>8, <1>9, <1>11, <1>12, <2>1, <2>2, <2>3 DEF PageIs
<1> QED
  BY <1>1, <1>8, <1>13 DEF limit, p

-----------------------------------------------------------------------------
(* Lengths in bytes.                                                       *)

\* B has the sums of the sizes of seq.
SumsOf(B, seq, size) ==
  /\ B \in [0..Len(seq) -> Nat] /\ B[0] = 0
  /\ \A i \in 1..Len(seq) : B[i] = B[i - 1] + size[seq[i]]

\* The length of a sequence is a sum.
LEMMA BytesUpToIs ==
  ASSUME NEW E, NEW size \in [E -> Nat], NEW seq \in Seq(E)
  PROVE  SumsOf(BytesUpTo(seq, size), seq, size) /\ Bytes(seq, size) \in Nat
<1> DEFINE L == Len(seq)
           B == BytesUpTo(seq, size)
           next == [i \in 1..L |-> [b \in Nat |-> b + size[seq[i]]]]
<1>1. L \in Nat /\ \A i \in 1..L : size[seq[i]] \in Nat
  OBVIOUS
<1>2. next \in [1..L -> [Nat -> Nat]] /\ 0 \in Nat
  BY <1>1
<1>3. \A i \in 1..L : \A b \in Nat : next[i][b] = b + size[seq[i]]
  OBVIOUS
<1> HIDE DEF next, L
<1>4. Loops(next, L, Nat, 0)
  BY <1>1, <1>2, Iteration
<1>5. PICK f \in [0..L -> Nat] : f[0] = 0 /\ \A i \in 1..L : f[i] = next[i][f[i - 1]]
  BY <1>4 DEF Loops
<1>6. f = [i \in 0..L |-> IF i = 0 THEN 0 ELSE f[i - 1] + size[seq[i]]]
  <2>1. \A i \in 1..L : f[i - 1] \in Nat
    BY <1>1
  <2>2. \A i \in 1..L : f[i] = f[i - 1] + size[seq[i]]
    BY <1>3, <1>5, <2>1
  <2>3. \A i \in 0..L : f[i] = IF i = 0 THEN 0 ELSE f[i - 1] + size[seq[i]]
    BY <1>1, <1>5, <2>2, SMTT(20)
  <2> QED
    BY <2>3
<1>7. B = [i \in 0..L |-> IF i = 0 THEN 0 ELSE B[i - 1] + size[seq[i]]]
  BY <1>6, Zenon DEF BytesUpTo, L
<1> HIDE DEF B
<1>8. B[0] = 0 /\ \A i \in 1..L : B[i] = B[i - 1] + size[seq[i]]
  BY <1>1, <1>7
<1> DEFINE S == {i \in 0..L : B[i] \in Nat}
<1>9. 0 \in S
  BY <1>1, <1>8
<1>10. ASSUME NEW i \in 1..L, i - 1 \in S PROVE i \in S
  <2>1. size[seq[i]] \in Nat /\ B[i] = B[i - 1] + size[seq[i]] /\ B[i - 1] \in Nat
    BY <1>1, <1>8, <1>10
  <2>2. B[i] \in Nat /\ i \in 0..L
    BY <1>1, <2>1
  <2> QED
    BY <2>2
<1>11. \A i \in 0..L : i \in S
  <2> HIDE DEF S
  <2>1. \A i \in 1..L : i - 1 \in S => i \in S
    BY <1>10
  <2> QED
    BY <1>1, <1>9, <2>1, Induct, Zenon
<1>12. \A i \in 0..L : B[i] \in Nat
  BY <1>11
<1>13. B \in [0..L -> Nat] /\ B[L] \in Nat
  BY <1>1, <1>7, <1>12
<1> QED
  BY <1>8, <1>13 DEF B, L, Bytes, SumsOf

\* The length of a concatenation.
LEMMA BytesConcat ==
  ASSUME NEW E, NEW size \in [E -> Nat], NEW s \in Seq(E), NEW t \in Seq(E)
  PROVE  Bytes(s \o t, size) = Bytes(s, size) + Bytes(t, size)
<1> DEFINE m == Len(s)
           n == Len(t)
           u == s \o t
           A == BytesUpTo(s, size)
           B == BytesUpTo(t, size)
           C == BytesUpTo(u, size)
<1>1. /\ u \in Seq(E) /\ Len(u) = m + n /\ m \in Nat /\ n \in Nat
      /\ \A i \in 1..m : u[i] = s[i]
      /\ \A i \in 1..n : u[m + i] = t[i]
  OBVIOUS
<1> HIDE DEF u
<1>2. A[0] = 0 /\ \A i \in 1..m : A[i] = A[i - 1] + size[s[i]]
  <2>1. SumsOf(A, s, size)
    BY BytesUpToIs
  <2> QED
    BY <2>1 DEF SumsOf
<1>3. B[0] = 0 /\ (\A i \in 1..n : B[i] = B[i - 1] + size[t[i]]) /\ B \in [0..n -> Nat]
  <2>1. SumsOf(B, t, size)
    BY BytesUpToIs
  <2> QED
    BY <2>1 DEF SumsOf
<1>4. C[0] = 0 /\ \A i \in 1..(m + n) : C[i] = C[i - 1] + size[u[i]]
  <2>1. SumsOf(C, u, size)
    BY <1>1, BytesUpToIs
  <2> QED
    BY <1>1, <2>1 DEF SumsOf
<1>5. A[m] \in Nat
  BY BytesUpToIs DEF Bytes
<1>8. \A i \in 1..n : size[t[i]] \in Nat
  OBVIOUS
<1> HIDE DEF A, B, C, m, n
<1>6. C[m] = A[m]
  <2> DEFINE S == {i \in 0..m : C[i] = A[i]}
  <2>1. 0 \in S
    BY <1>1, <1>2, <1>4
  <2>2. ASSUME NEW i \in 1..m, i - 1 \in S PROVE i \in S
    <3>1. i \in 1..(m + n) /\ i \in 0..m
      BY <1>1
    <3>2. A[i] = A[i - 1] + size[s[i]] /\ C[i] = C[i - 1] + size[u[i]] /\ u[i] = s[i] /\ C[i - 1] = A[i - 1]
      BY <1>1, <1>2, <1>4, <2>2, <3>1
    <3> QED
      BY <3>1, <3>2
  <2>3. \A i \in 0..m : i \in S
    <3> HIDE DEF S
    <3>1. \A i \in 1..m : i - 1 \in S => i \in S
      BY <2>2
    <3> QED
      BY <1>1, <2>1, <3>1, Induct, Zenon
  <2> QED
    BY <1>1, <2>3
<1>7. C[m + n] = A[m] + B[n]
  <2> DEFINE S == {i \in 0..n : C[m + i] = A[m] + B[i]}
  <2>1. 0 \in S
    BY <1>1, <1>3, <1>5, <1>6
  <2>2. ASSUME NEW i \in 1..n, i - 1 \in S PROVE i \in S
    <3>1. PICK k \in 1..(m + n) : k = m + i
      BY <1>1
    <3>2. i \in 0..n /\ i - 1 \in 0..n /\ m + (i - 1) = k - 1
      BY <1>1, <3>1
    <3>4. B[i] = B[i - 1] + size[t[i]] /\ u[k] = t[i]
      BY <1>1, <1>3, <3>1
    <3>5. C[k] = C[k - 1] + size[u[k]]
      BY <1>4
    <3>6. C[k - 1] = A[m] + B[i - 1]
      BY <2>2, <3>2
    <3>3. size[t[i]] \in Nat /\ B[i - 1] \in Nat
      <4>1. size[t[i]] \in Nat
        BY <1>8
      <4>2. B[i - 1] \in Nat
        BY <1>3, <3>2
      <4> QED
        BY <4>1, <4>2
    <3>7. C[m + i] = A[m] + B[i]
      BY <1>5, <3>1, <3>3, <3>4, <3>5, <3>6
    <3> QED
      BY <3>2, <3>7
  <2>3. \A i \in 0..n : i \in S
    <3> HIDE DEF S
    <3>1. \A i \in 1..n : i - 1 \in S => i \in S
      BY <2>2
    <3> QED
      BY <1>1, <2>1, <3>1, Induct, Zenon
  <2> QED
    BY <1>1, <2>3
<1> QED
  BY <1>1, <1>7 DEF A, B, C, m, n, u, Bytes

\* The sizes of symbols.
LEMMA SymbolSizes ==
  SymbolBytes \in [Symbols -> Nat] /\ \A x \in Symbols : SymbolBytes[x] \in {1, 4}
BY DEF SymbolBytes

\* The sizes of characters.
LEMMA RuneSizes ==
  /\ UnitBytes \in [Runes -> Nat] /\ "a" \in Runes /\ UnitBytes["a"] = 1
  /\ \A u \in Runes : UnitBytes[u] >= 1
<1>1. \A u \in Runes : u = "U+FFFD" \/ u \in Symbols
  BY DEF Runes
<1>2. "a" \in Runes /\ "a" \in Symbols /\ "a" \notin Hex \cup {"pair"} /\ "a" # "U+FFFD"
  BY DEF Runes, Symbols, Hex
<1>3. SymbolBytes["a"] = 1
  BY <1>2 DEF SymbolBytes
<1>4. \A u \in Runes : UnitBytes[u] \in Nat /\ UnitBytes[u] >= 1
  BY <1>1, SymbolSizes DEF UnitBytes
<1>5. UnitBytes["a"] = 1
  BY <1>2, <1>3 DEF UnitBytes
<1>6. UnitBytes = [u \in Runes |-> UnitBytes[u]]
  BY DEF UnitBytes
<1> QED
  BY <1>2, <1>4, <1>5, <1>6

\* The length of nothing.
LEMMA BytesOfNone ==
  ASSUME NEW E, NEW size \in [E -> Nat]
  PROVE  Bytes(<<>>, size) = 0
<1> DEFINE s == <<>>
<1>1. s \in Seq(E) /\ Len(s) = 0
  OBVIOUS
<1> HIDE DEF s
<1>2. SumsOf(BytesUpTo(s, size), s, size)
  BY <1>1, BytesUpToIs
<1>3. Bytes(s, size) = 0
  BY <1>1, <1>2, Zenon DEF SumsOf, Bytes
<1> QED
  BY <1>3 DEF s

\* The length of one element.
LEMMA BytesOfOne ==
  ASSUME NEW E, NEW size \in [E -> Nat], NEW x \in E
  PROVE  Bytes(<<x>>, size) = size[x]
<1> DEFINE s == <<x>>
<1>1. s \in Seq(E) /\ Len(s) = 1 /\ s[1] = x /\ 1 \in 1..Len(s)
  OBVIOUS
<1> HIDE DEF s
<1>2. BytesUpTo(s, size)[0] = 0 /\ BytesUpTo(s, size)[1] = BytesUpTo(s, size)[1 - 1] + size[s[1]]
  <2>1. SumsOf(BytesUpTo(s, size), s, size)
    BY <1>1, BytesUpToIs
  <2> QED
    BY <1>1, <2>1 DEF SumsOf
<1>3. size[x] \in Nat
  OBVIOUS
<1>4. Bytes(s, size) = size[x]
  BY <1>1, <1>2, <1>3 DEF Bytes
<1> QED
  BY <1>4 DEF s

-----------------------------------------------------------------------------
(* Decimals.                                                               *)

\* v has the values of the prefixes of the digits s.
ValuesOf(v, s) ==
  /\ v \in [0..Len(s) -> Nat] /\ v[0] = 0
  /\ \A i \in 1..Len(s) : v[i] = 10 * v[i - 1] + s[i]

\* The value of a sequence of digits, digit by digit.
LEMMA ValueUpToIs ==
  ASSUME NEW s \in Seq(0..9)
  PROVE  ValuesOf(ValueUpTo(s), s) /\ ParseUint(s) \in Nat
<1> DEFINE L == Len(s)
           B == ValueUpTo(s)
           next == [i \in 1..L |-> [b \in Nat |-> 10 * b + s[i]]]
<1>1. L \in Nat /\ \A i \in 1..L : s[i] \in Nat
  OBVIOUS
<1>2. next \in [1..L -> [Nat -> Nat]] /\ 0 \in Nat
  BY <1>1
<1>3. \A i \in 1..L : \A b \in Nat : next[i][b] = 10 * b + s[i]
  OBVIOUS
<1> HIDE DEF next, L
<1>4. Loops(next, L, Nat, 0)
  BY <1>1, <1>2, Iteration
<1>5. PICK f \in [0..L -> Nat] : f[0] = 0 /\ \A i \in 1..L : f[i] = next[i][f[i - 1]]
  BY <1>4 DEF Loops
<1>6. f = [i \in 0..L |-> IF i = 0 THEN 0 ELSE 10 * f[i - 1] + s[i]]
  <2>1. \A i \in 1..L : f[i - 1] \in Nat
    BY <1>1
  <2>2. \A i \in 1..L : f[i] = 10 * f[i - 1] + s[i]
    BY <1>3, <1>5, <2>1
  <2>3. \A i \in 0..L : f[i] = IF i = 0 THEN 0 ELSE 10 * f[i - 1] + s[i]
    BY <1>1, <1>5, <2>2
  <2> QED
    BY <2>3
<1>7. B = [i \in 0..L |-> IF i = 0 THEN 0 ELSE 10 * B[i - 1] + s[i]]
  BY <1>6, Zenon DEF ValueUpTo, L
<1> HIDE DEF B
<1>8. B[0] = 0 /\ \A i \in 1..L : B[i] = 10 * B[i - 1] + s[i]
  BY <1>1, <1>7
<1> DEFINE S == {i \in 0..L : B[i] \in Nat}
<1>9. 0 \in S
  BY <1>1, <1>8
<1>10. ASSUME NEW i \in 1..L, i - 1 \in S PROVE i \in S
  <2>1. s[i] \in Nat /\ B[i] = 10 * B[i - 1] + s[i] /\ B[i - 1] \in Nat
    BY <1>1, <1>8, <1>10
  <2>2. B[i] \in Nat /\ i \in 0..L
    BY <1>1, <2>1, SMTT(20)
  <2> QED
    BY <2>2
<1>11. \A i \in 0..L : i \in S
  <2> HIDE DEF S
  <2>1. \A i \in 1..L : i - 1 \in S => i \in S
    BY <1>10
  <2> QED
    BY <1>1, <1>9, <2>1, Induct, Zenon
<1>12. \A i \in 0..L : B[i] \in Nat
  BY <1>11
<1>13. B \in [0..L -> Nat] /\ B[L] \in Nat
  <2>1. DOMAIN B = 0..L /\ B = [i \in DOMAIN B |-> B[i]]
    BY <1>7, Zenon
  <2>2. B \in [0..L -> Nat]
    BY <1>12, <2>1, Zenon
  <2> QED
    BY <1>1, <1>12, <2>2
<1> QED
  BY <1>8, <1>13 DEF B, L, ParseUint, ValuesOf

\* A digit more.
LEMMA ParseUintAppend ==
  ASSUME NEW s \in Seq(0..9), NEW x \in 0..9
  PROVE  ParseUint(Append(s, x)) = 10 * ParseUint(s) + x
<1> DEFINE n == Len(s)
           t == Append(s, x)
           A == ValueUpTo(s)
           B == ValueUpTo(t)
<1>1. t \in Seq(0..9) /\ Len(t) = n + 1 /\ n \in Nat /\ t[n + 1] = x /\ \A i \in 1..n : t[i] = s[i]
  OBVIOUS
<1> HIDE DEF t
<1>2. A[0] = 0 /\ \A i \in 1..n : A[i] = 10 * A[i - 1] + s[i]
  <2>1. ValuesOf(A, s)
    BY ValueUpToIs
  <2> QED
    BY <2>1 DEF ValuesOf
<1>3. B[0] = 0 /\ \A i \in 1..(n + 1) : B[i] = 10 * B[i - 1] + t[i]
  <2>1. ValuesOf(B, t)
    BY <1>1, ValueUpToIs
  <2> QED
    BY <1>1, <2>1 DEF ValuesOf
<1> HIDE DEF A, B, n
<1> DEFINE S == {i \in 0..n : A[i] = B[i]}
<1>4. 0 \in S
  BY <1>1, <1>2, <1>3
<1>5. ASSUME NEW i \in 1..n, i - 1 \in S PROVE i \in S
  <2>1. i \in 1..(n + 1) /\ i \in 0..n /\ t[i] = s[i] /\ A[i - 1] = B[i - 1]
    BY <1>1, <1>5
  <2>2. A[i] = 10 * A[i - 1] + s[i] /\ B[i] = 10 * B[i - 1] + t[i]
    BY <1>2, <1>3, <2>1
  <2> QED
    BY <2>1, <2>2
<1>6. \A i \in 0..n : i \in S
  <2> HIDE DEF S
  <2>1. \A i \in 1..n : i - 1 \in S => i \in S
    BY <1>5
  <2> QED
    BY <1>1, <1>4, <2>1, Induct, Zenon
<1>7. A[n] = B[n]
  BY <1>1, <1>6
<1>8. B[n + 1] = 10 * B[n] + x
  <2>1. n + 1 \in 1..(n + 1) /\ (n + 1) - 1 = n
    BY <1>1
  <2>2. B[n + 1] = 10 * B[(n + 1) - 1] + t[n + 1]
    BY <1>3, <2>1, Zenon
  <2> QED
    BY <1>1, <2>1, <2>2
<1> QED
  BY <1>1, <1>7, <1>8 DEF A, B, n, t, ParseUint

\* The value of a single digit.
LEMMA ParseUintOfDigit ==
  ASSUME NEW x \in 0..9
  PROVE  ParseUint(<<x>>) = x
<1>1. <<>> \in Seq(0..9) /\ Len(<<>>) = 0 /\ Append(<<>>, x) = <<x>>
  OBVIOUS
<1>2. ParseUint(<<>>) = 0
  <2>1. ValuesOf(ValueUpTo(<<>>), <<>>)
    BY <1>1, ValueUpToIs
  <2>2. ValueUpTo(<<>>)[0] = 0
    BY <2>1 DEF ValuesOf
  <2> QED
    BY <1>1, <2>2 DEF ParseUint
<1>3. ParseUint(Append(<<>>, x)) = 10 * ParseUint(<<>>) + x
  BY <1>1, ParseUintAppend
<1> QED
  BY <1>1, <1>2, <1>3

\* s is the decimal of n: as isCanonicalDecimal wants it, and of that value.
DecimalOf(s, n) ==
  /\ s \in Seq(0..9) /\ s # <<>>
  /\ s[1] = 0 => n = 0 /\ Len(s) = 1
  /\ ParseUint(s) = n

\* FormatUint divides by ten until a digit is left.
LEMMA DigitsUpToIs ==
  ASSUME NEW d \in Nat
  PROVE  \A n \in 0..d : DigitsUpTo(d)[n] = IF n < 10 THEN <<n>> ELSE Append(DigitsUpTo(d)[n \div 10], n % 10)
<1> DEFINE V == Seq(0..9)
           step == [n \in 1..d |-> [f \in [0..d -> V] |->
                      IF n < 10 THEN <<n>> ELSE Append(f[n \div 10], n % 10)]]
           D == DigitsUpTo(d)
<1>1. \A n \in 0..d : n < 10 => <<n>> \in V
  OBVIOUS
<1>2. \A n \in 1..d : n >= 10 => n \div 10 \in 0..(n - 1) /\ n \div 10 \in 0..d /\ n % 10 \in 0..9
  OBVIOUS
<1>3. \A n \in 1..d : \A f \in [0..d -> V] : ~(n < 10) => Append(f[n \div 10], n % 10) \in V
  BY <1>2
<1>4. step \in [1..d -> [[0..d -> V] -> V]] /\ <<0>> \in V
  <2> HIDE DEF V
  <2> QED
    BY <1>1, <1>3
<1>5. \A n \in 1..d : \A f \in [0..d -> V] :
         step[n][f] = IF n < 10 THEN <<n>> ELSE Append(f[n \div 10], n % 10)
  BY Zenon
<1> HIDE DEF step, V
<1>6. LooksBack(step, d, V)
  <2>1. SUFFICES ASSUME NEW n \in 1..d, NEW g \in [0..d -> V], NEW h \in [0..d -> V],
                        \A j \in 0..(n - 1) : g[j] = h[j]
                 PROVE  step[n][g] = step[n][h]
    BY DEF LooksBack
  <2>2. ~(n < 10) => g[n \div 10] = h[n \div 10]
    BY <1>2, <2>1
  <2> QED
    BY <1>5, <2>2, Zenon
<1>7. Defines(step, d, V, <<0>>)
  BY <1>4, <1>6, Recursion
<1>8. PICK f \in [0..d -> V] : f[0] = <<0>> /\ \A n \in 1..d : f[n] = step[n][f]
  BY <1>7 DEF Defines
<1>9. f = [n \in 0..d |-> IF n < 10 THEN <<n>> ELSE Append(f[n \div 10], n % 10)]
  <2>1. \A n \in 1..d : f[n] = IF n < 10 THEN <<n>> ELSE Append(f[n \div 10], n % 10)
    BY <1>5, <1>8, Zenon
  <2>2. f[0] = <<0>> /\ 0 < 10
    BY <1>8
  <2>3. \A n \in 0..d : n = 0 \/ n \in 1..d
    OBVIOUS
  <2>4. \A n \in 0..d : f[n] = IF n < 10 THEN <<n>> ELSE Append(f[n \div 10], n % 10)
    BY <2>1, <2>2, <2>3, Zenon
  <2> QED
    BY <2>4, Zenon
<1>10. D = [n \in 0..d |-> IF n < 10 THEN <<n>> ELSE Append(D[n \div 10], n % 10)]
  BY <1>9, Zenon DEF DigitsUpTo
<1> HIDE DEF D
<1>11. \A n \in 0..d : D[n] = IF n < 10 THEN <<n>> ELSE Append(D[n \div 10], n % 10)
  BY <1>10, Zenon
<1> QED
  BY <1>11, Zenon DEF D

\* What Dec.String writes for a number is its decimal.
LEMMA DecStringIs ==
  ASSUME NEW d \in Nat
  PROVE  DecimalOf(DecString(d), d)
<1> DEFINE D == DigitsUpTo(d)
           S == {n \in 0..d : DecimalOf(D[n], n)}
<1>1. \A n \in 0..d : D[n] = IF n < 10 THEN <<n>> ELSE Append(D[n \div 10], n % 10)
  BY DigitsUpToIs, Zenon
<1> HIDE DEF D
<1>2. ASSUME NEW n \in 0..d, \A j \in 0..(n - 1) : j \in S PROVE n \in S
  <2>1. CASE n < 10
    <3>1. D[n] = <<n>> /\ n \in 0..9
      <4>1. D[n] = <<n>>
        BY <1>1, <2>1, Zenon
      <4>2. n \in 0..9
        BY <2>1
      <4> QED
        BY <4>1, <4>2
    <3>2. ParseUint(<<n>>) = n
      BY <3>1, ParseUintOfDigit
    <3>3. <<n>> \in Seq(0..9) /\ <<n>> # <<>> /\ <<n>>[1] = n /\ Len(<<n>>) = 1
      BY <3>1
    <3>4. DecimalOf(<<n>>, n)
      BY <3>2, <3>3 DEF DecimalOf
    <3> QED
      BY <3>1, <3>4
  <2>2. CASE ~(n < 10)
    <3> DEFINE q == n \div 10
               x == n % 10
               s == D[q]
    <3>1. q \in 0..(n - 1) /\ q > 0 /\ x \in 0..9 /\ 10 * q + x = n
      BY <2>2
    <3>2. D[n] = Append(s, x)
      BY <1>1, <2>2, Zenon
    <3>3. DecimalOf(s, q)
      <4> HIDE DEF q
      <4>1. q \in S
        BY <1>2, <3>1
      <4> QED
        BY <4>1
    <3> HIDE DEF q, x, s
    <3>4. s \in Seq(0..9) /\ s # <<>> /\ s[1] # 0 /\ ParseUint(s) = q
      BY <3>1, <3>3 DEF DecimalOf
    <3>5. ParseUint(Append(s, x)) = n
      BY <3>1, <3>4, ParseUintAppend
    <3>6. Append(s, x) \in Seq(0..9) /\ Append(s, x) # <<>> /\ Append(s, x)[1] = s[1]
      <4>1. Len(s) \in Nat \ {0} /\ 1 \in 1..Len(s)
        BY <3>4
      <4> QED
        BY <3>1, <3>4, <4>1
    <3>7. DecimalOf(Append(s, x), n)
      BY <3>4, <3>5, <3>6 DEF DecimalOf
    <3> QED
      BY <3>2, <3>7
  <2> QED
    BY <2>1, <2>2
<1>3. \A n \in 0..d : n \in S
  <2> HIDE DEF S
  <2>1. \A n \in 0..d : (\A j \in 0..(n - 1) : j \in S) => n \in S
    BY <1>2
  <2> QED
    BY <2>1, InductComplete, Zenon
<1>4. DecimalOf(D[d], d)
  BY <1>3
<1> QED
  BY <1>4 DEF D, DecString

\* A number survives its way over the wire: what Dec.String writes, ParseDec reads
\* back, for every number that fits.
THEOREM DecRoundTrip ==
  ASSUME NEW d \in Nat
  PROVE  ParseDec(DecString(d)) = IF d <= MaxUint64 THEN d ELSE Refused
<1> DEFINE s == DecString(d)
<1>1. /\ s \in Seq(0..9) /\ s # <<>> /\ (s[1] = 0 => d = 0 /\ Len(s) = 1)
      /\ ParseUint(s) = d
  BY DecStringIs DEF DecimalOf
<1> HIDE DEF s
<1>2. isCanonicalDecimal(s)
  <2>1. \A i \in DOMAIN s : s[i] \in 0..9
    BY <1>1
  <2> QED
    BY <1>1, <2>1 DEF isCanonicalDecimal
<1>3. ParseDec(s) = IF d <= MaxUint64 THEN d ELSE Refused
  BY <1>1, <1>2, Zenon DEF ParseDec
<1> QED
  BY <1>3 DEF s

\* Digits without a leading zero do not have the value zero.
LEMMA ParseUintPositive ==
  ASSUME NEW s \in Seq(0..9), s # <<>>, s[1] # 0
  PROVE  ParseUint(s) > 0
<1> DEFINE n == Len(s)
           A == ValueUpTo(s)
           S == {i \in 0..n : i > 0 => A[i] > 0}
<1>1. n \in Nat \ {0} /\ (\A i \in 1..n : s[i] \in 0..9) /\ s[1] > 0
  OBVIOUS
<1>2. A \in [0..n -> Nat] /\ A[0] = 0 /\ \A i \in 1..n : A[i] = 10 * A[i - 1] + s[i]
  <2>1. ValuesOf(A, s)
    BY ValueUpToIs
  <2> QED
    BY <2>1 DEF ValuesOf
<1> HIDE DEF A, n
<1>3. 0 \in S
  BY <1>1
<1>4. ASSUME NEW i \in 1..n, i - 1 \in S PROVE i \in S
  <2>1. A[i] = 10 * A[i - 1] + s[i] /\ i - 1 \in 0..n /\ i \in 0..n /\ s[i] \in 0..9
    BY <1>1, <1>2
  <2>2. A[i - 1] \in Nat
    BY <1>2, <2>1
  <2>3. A[i] > 0
    <3>1. CASE i = 1
      BY <1>1, <2>1, <2>2, <3>1
    <3>2. CASE i # 1
      <4>1. A[i - 1] > 0
        BY <1>4, <3>2
      <4> QED
        BY <2>1, <2>2, <4>1, SMTT(20)
    <3> QED
      BY <3>1, <3>2
  <2> QED
    BY <2>1, <2>3
<1>5. \A i \in 0..n : i \in S
  <2> HIDE DEF S
  <2>1. \A i \in 1..n : i - 1 \in S => i \in S
    BY <1>4
  <2> QED
    BY <1>1, <1>3, <2>1, Induct, Zenon
<1>6. A[n] > 0
  BY <1>1, <1>5
<1> QED
  BY <1>6 DEF A, n, ParseUint

\* Dividing by ten takes the last digit away.
LEMMA DivideByTen ==
  ASSUME NEW n \in Nat, NEW q \in Nat, NEW x \in 0..9, n = 10 * q + x
  PROVE  n \div 10 = q /\ n % 10 = x
OBVIOUS

\* A number has one decimal.
LEMMA DecimalUnique ==
  ASSUME NEW d \in Nat, NEW r \in Seq(0..9), r # <<>>, r[1] = 0 => Len(r) = 1,
         ParseUint(r) = d
  PROVE  r = DecString(d)
<1> DEFINE D == DigitsUpTo(d)
           Canonical(s) == s # <<>> /\ (s[1] = 0 => Len(s) = 1)
           S == {n \in 0..d : \A s \in Seq(0..9) : Canonical(s) /\ ParseUint(s) = n => s = D[n]}
<1>1. \A n \in 0..d : D[n] = IF n < 10 THEN <<n>> ELSE Append(D[n \div 10], n % 10)
  BY DigitsUpToIs, Zenon
<1> HIDE DEF D
<1>2. ASSUME NEW n \in 0..d, \A j \in 0..(n - 1) : j \in S PROVE n \in S
  <2> SUFFICES ASSUME NEW s \in Seq(0..9), Canonical(s), ParseUint(s) = n
               PROVE  s = D[n]
    OBVIOUS
  <2>1. PICK k \in Nat \ {0} : Len(s) = k
    OBVIOUS
  <2>2. CASE k = 1
    <3>1. s = <<s[1]>> /\ s[1] \in 0..9
      BY <2>1, <2>2
    <3>2. ParseUint(<<s[1]>>) = s[1]
      BY <3>1, ParseUintOfDigit
    <3>3. s[1] = n /\ n < 10
      BY <3>1, <3>2
    <3>4. D[n] = <<n>>
      BY <1>1, <3>3, Zenon
    <3> QED
      BY <3>1, <3>3, <3>4
  <2>3. CASE k # 1
    <3>0. PICK t \in Seq(0..9), x \in 0..9 : s = Append(t, x)
      BY <2>1, SequenceEmptyOrAppend
    <3> DEFINE q == ParseUint(t)
    <3>1. t # <<>> /\ t[1] = s[1] /\ s[1] # 0
      <4>1. Len(t) \in Nat /\ Len(s) = Len(t) + 1
        BY <3>0
      <4>2. 1 \in 1..Len(t) /\ Len(s) # 1
        BY <2>1, <2>3, <4>1
      <4> QED
        BY <3>0, <4>1, <4>2
    <3>2. q \in Nat /\ q > 0
      BY <3>1, ValueUpToIs, ParseUintPositive
    <3>3. n = 10 * q + x
      BY <3>0, ParseUintAppend
    <3> HIDE DEF q
    <3>4. q \in 0..(n - 1) /\ ~(n < 10) /\ n \div 10 = q /\ n % 10 = x
      <4>1. q \in 0..(n - 1) /\ ~(n < 10)
        BY <3>2, <3>3
      <4> QED
        <5>1. n \in Nat
          OBVIOUS
        <5>2. n \div 10 = q /\ n % 10 = x
          BY <3>2, <3>3, <5>1, DivideByTen, Zenon
        <5> QED
          BY <4>1, <5>2
    <3>5. t = D[q]
      <4>1. q \in S
        BY <1>2, <3>4
      <4>2. Canonical(t) /\ ParseUint(t) = q
        BY <3>1 DEF q
      <4> QED
        BY <3>1, <4>1, <4>2
    <3>6. D[n] = Append(D[n \div 10], n % 10)
      BY <1>1, <3>4, Zenon
    <3> QED
      BY <3>0, <3>4, <3>5, <3>6
  <2> QED
    BY <2>2, <2>3, Zenon
<1>3. \A n \in 0..d : n \in S
  <2> HIDE DEF S
  <2>1. \A n \in 0..d : (\A j \in 0..(n - 1) : j \in S) => n \in S
    BY <1>2
  <2> QED
    BY <2>1, InductComplete, Zenon
<1>4. d \in S
  BY <1>3
<1>5. r = D[d]
  BY <1>4
<1> QED
  BY <1>5 DEF D, DecString

\* A string that ParseDec accepts is the one that Dec.String writes for its value:
\* no two strings on the wire are the same number.
THEOREM DecCanonical ==
  ASSUME NEW s \in Seq(Int), ParseDec(s) # Refused
  PROVE  DecString(ParseDec(s)) = s
<1>1. isCanonicalDecimal(s) /\ ParseDec(s) = ParseUint(s)
  BY Zenon DEF ParseDec
<1>2. s \in Seq(0..9) /\ s # <<>> /\ (s[1] = 0 => Len(s) = 1)
  BY <1>1 DEF isCanonicalDecimal
<1>3. ParseUint(s) \in Nat
  BY <1>2, ValueUpToIs
<1>4. s = DecString(ParseUint(s))
  BY <1>2, <1>3, DecimalUnique
<1> QED
  BY <1>1, <1>4

-----------------------------------------------------------------------------
(* The decoder of literals.                                                *)

\* A turn of the decoder stays within its input, so that the loop ends.
LEMMA UnquoteAtFits ==
  ASSUME NEW in \in Seq(Symbols), NEW i \in 1..Len(in)
  PROVE  LET turn == UnquoteAt(in, i)
         IN  /\ turn.ok \in BOOLEAN
             /\ turn.size \in 1..(Len(in) + 1 - i)
             /\ turn.ok => turn.out \in Runes
<1> DEFINE turn == UnquoteAt(in, i)
           Fits(t) == /\ t.ok \in BOOLEAN /\ t.size \in 1..(Len(in) + 1 - i)
                      /\ t.ok => t.out \in Runes
<1>1. Len(in) \in Nat /\ DOMAIN in = 1..Len(in)
  OBVIOUS
<1>2. Fits(Malformed)
  BY <1>1 DEF Malformed
<1>3. ASSUME NEW u \in Runes, NEW n \in 1..(Len(in) + 1 - i) PROVE Fits(Decoded(u, n))
  BY DEF Decoded
<1>4. ASSUME NEW k \in 1..5, SymbolAt(in, i + k) # "end" PROVE k + 1 \in 1..(Len(in) + 1 - i)
  BY <1>1, <1>4 DEF SymbolAt
<1>5. SymbolAt(in, i) \in Symbols
  BY <1>1 DEF SymbolAt
<1>6. 1 \in 1..(Len(in) + 1 - i)
  BY <1>1
<1> DEFINE hex == SymbolAt(in, i + 2)
<1>7. Fits(decodeUnicodeEscape(in, i))
  <2>1. CASE hex \notin Hex
    BY <1>2, <2>1 DEF decodeUnicodeEscape
  <2>2. CASE hex \in Hex
    <3>1. 3 \in 1..(Len(in) + 1 - i)
      <4>1. hex # "end"
        BY <2>2 DEF Hex
      <4> QED
        BY <1>4, <4>1
    <3>2. UnitOf[hex] \notin {"high", "low"} => UnitOf[hex] \in Runes
      BY <2>2 DEF UnitOf, Hex, Runes, Symbols
    <3>3. "pair" \in Runes /\ "U+FFFD" \in Runes
      BY DEF Runes, Symbols
    <3>4. SymbolAt(in, i + 5) = "de00" => 6 \in 1..(Len(in) + 1 - i)
      BY <1>4
    <3> HIDE DEF Fits
    <3> QED
      BY <1>3, <2>2, <3>1, <3>2, <3>3, <3>4 DEF decodeUnicodeEscape
  <2> QED
    BY <2>1, <2>2
<1>8. CASE SymbolAt(in, i) \in {"quote", "control"}
  BY <1>2, <1>8 DEF UnquoteAt
<1>9. CASE SymbolAt(in, i) = "backslash"
  <2>1. CASE SymbolAt(in, i + 1) \in {"quote", "backslash"}
    <3>1. 2 \in 1..(Len(in) + 1 - i) /\ SymbolAt(in, i + 1) \in Runes
      <4>1. SymbolAt(in, i + 1) # "end" /\ SymbolAt(in, i + 1) \in Runes
        BY <2>1 DEF Runes, Symbols
      <4> QED
        BY <1>4, <4>1
    <3>2. UnquoteAt(in, i) = Decoded(SymbolAt(in, i + 1), 2)
      BY <1>9, <2>1 DEF UnquoteAt
    <3> HIDE DEF Fits
    <3>3. Fits(UnquoteAt(in, i))
      BY <1>3, <3>1, <3>2, Zenon
    <3> QED
      BY <3>3 DEF Fits
  <2>2. CASE SymbolAt(in, i + 1) = "n"
    <3>1. 2 \in 1..(Len(in) + 1 - i) /\ "control" \in Runes
      <4>1. SymbolAt(in, i + 1) # "end" /\ "control" \in Runes
        BY <2>2 DEF Runes, Symbols
      <4> QED
        BY <1>4, <4>1
    <3>2. UnquoteAt(in, i) = Decoded("control", 2)
      BY <1>9, <2>2 DEF UnquoteAt
    <3> HIDE DEF Fits
    <3>3. Fits(UnquoteAt(in, i))
      BY <1>3, <3>1, <3>2, Zenon
    <3> QED
      BY <3>3 DEF Fits
  <2>3. CASE SymbolAt(in, i + 1) = "u"
    BY <1>7, <1>9, <2>3 DEF UnquoteAt
  <2>4. CASE SymbolAt(in, i + 1) \notin {"quote", "backslash", "n", "u"}
    BY <1>2, <1>9, <2>4 DEF UnquoteAt
  <2> QED
    BY <2>1, <2>2, <2>3, <2>4
<1>10. CASE SymbolAt(in, i) \notin {"quote", "control", "backslash"}
  <2>1. UnquoteAt(in, i) = Decoded(IF SymbolAt(in, i) = "bad byte" THEN "U+FFFD" ELSE SymbolAt(in, i), 1)
    BY <1>10 DEF UnquoteAt
  <2>2. (IF SymbolAt(in, i) = "bad byte" THEN "U+FFFD" ELSE SymbolAt(in, i)) \in Runes
    BY <1>5 DEF Runes, Symbols
  <2> HIDE DEF Fits
  <2>3. Fits(UnquoteAt(in, i))
    BY <1>3, <1>6, <2>1, <2>2
  <2> QED
    BY <2>3 DEF Fits
<1> QED
  BY <1>8, <1>9, <1>10

\* A turn of the decoder looks only ahead.
LEMMA UnquoteAtLooksAhead ==
  ASSUME NEW x \in Seq(Symbols), NEW z \in Seq(Symbols), NEW j \in 1..Len(z)
  PROVE  UnquoteAt(x \o z, Len(x) + j) = UnquoteAt(z, j)
<1> DEFINE in == x \o z
           i == Len(x) + j
<1>1. ASSUME NEW k \in 0..5 PROVE SymbolAt(in, i + k) = SymbolAt(z, j + k)
  <2>1. /\ Len(x) \in Nat /\ Len(z) \in Nat /\ DOMAIN z = 1..Len(z)
        /\ DOMAIN in = 1..(Len(x) + Len(z))
    OBVIOUS
  <2>2. CASE j + k \in 1..Len(z)
    <3>1. i + k \in DOMAIN in /\ in[i + k] = z[j + k]
      BY <2>1, <2>2
    <3> QED
      BY <2>1, <2>2, <3>1, Zenon DEF SymbolAt
  <2>3. CASE j + k \notin 1..Len(z)
    <3>1. i + k \notin DOMAIN in
      BY <2>1, <2>3
    <3> QED
      BY <2>1, <2>3, <3>1, Zenon DEF SymbolAt
  <2> QED
    BY <2>2, <2>3
<1>2. i + 0 = i /\ j + 0 = j
  OBVIOUS
<1>3. /\ SymbolAt(in, i) = SymbolAt(z, j) /\ SymbolAt(in, i + 1) = SymbolAt(z, j + 1)
      /\ SymbolAt(in, i + 2) = SymbolAt(z, j + 2) /\ SymbolAt(in, i + 3) = SymbolAt(z, j + 3)
      /\ SymbolAt(in, i + 4) = SymbolAt(z, j + 4) /\ SymbolAt(in, i + 5) = SymbolAt(z, j + 5)
  <2> HIDE DEF in, i
  <2>1. 0 \in 0..5 /\ 1 \in 0..5 /\ 2 \in 0..5 /\ 3 \in 0..5 /\ 4 \in 0..5 /\ 5 \in 0..5
    OBVIOUS
  <2> QED
    BY <1>1, <1>2, <2>1, Zenon
<1> HIDE DEF in, i
<1>4. decodeUnicodeEscape(in, i) = decodeUnicodeEscape(z, j)
  BY <1>3, Zenon DEF decodeUnicodeEscape
<1>5. UnquoteAt(in, i) = UnquoteAt(z, j)
  BY <1>3, <1>4, Zenon DEF UnquoteAt
<1> QED
  BY <1>5 DEF in, i

Empty == [ok |-> TRUE, out |-> <<>>]

\* The text that one turn puts in front of the text `rest` of what follows.
Prepended(turn, rest) ==
  IF ~turn.ok \/ ~rest.ok THEN NoText ELSE [ok |-> TRUE, out |-> <<turn.out>> \o rest.out]

\* t has the texts of the ends of `in`.
TextsOf(t, in) ==
  /\ t[0] = Empty
  /\ \A k \in 1..Len(in) :
       LET turn == UnquoteAt(in, Len(in) + 1 - k) IN t[k] = Prepended(turn, t[k - turn.size])

\* The decoder's loop, from the end of its input.
LEMMA UnquotedIs ==
  ASSUME NEW in \in Seq(Symbols)
  PROVE  TextsOf(Unquoted(in), in)
<1> DEFINE n == Len(in)
           V == [ok : BOOLEAN, out : Seq(Runes)]
           At(k) == UnquoteAt(in, n + 1 - k)
           step == [k \in 1..n |-> [f \in [0..n -> V] |-> Prepended(At(k), f[k - At(k).size])]]
           T == Unquoted(in)
<1>1. n \in Nat
  OBVIOUS
<1>2. ASSUME NEW k \in 1..n
      PROVE  /\ k - At(k).size \in 0..(k - 1) /\ k - At(k).size \in 0..n
             /\ At(k).ok => At(k).out \in Runes
  <2> DEFINE i == n + 1 - k
  <2>1. i \in 1..Len(in) /\ Len(in) + 1 - i = k
    BY <1>1
  <2> HIDE DEF i
  <2>2. UnquoteAt(in, i).size \in 1..(Len(in) + 1 - i) /\ (UnquoteAt(in, i).ok => UnquoteAt(in, i).out \in Runes)
    BY <2>1, UnquoteAtFits
  <2> DEFINE turn == UnquoteAt(in, i)
  <2>3. turn.size \in 1..k /\ (turn.ok => turn.out \in Runes)
    BY <2>1, <2>2
  <2> HIDE DEF turn
  <2>4. k - turn.size \in 0..(k - 1) /\ k - turn.size \in 0..n
    BY <1>1, <2>3
  <2> QED
    BY <2>3, <2>4 DEF turn, i
<1> HIDE DEF At, n
<1>3. NoText \in V /\ Empty \in V
  BY DEF NoText, Empty
<1>4. ASSUME NEW k \in 1..n, NEW f \in [0..n -> V] PROVE Prepended(At(k), f[k - At(k).size]) \in V
  <2> DEFINE r == f[k - At(k).size]
             turn == At(k)
  <2>1. r \in V
    BY <1>2
  <2>2. turn.ok => turn.out \in Runes
    BY <1>2
  <2> HIDE DEF r, turn
  <2>3. turn.ok => <<turn.out>> \o r.out \in Seq(Runes)
    BY <2>1, <2>2
  <2>4. Prepended(turn, r) \in V
    BY <1>3, <2>3 DEF Prepended
  <2> QED
    BY <2>4 DEF r, turn
<1> HIDE DEF V
<1>5. step \in [1..n -> [[0..n -> V] -> V]]
  BY <1>4
<1>6. \A k \in 1..n : \A f \in [0..n -> V] : step[k][f] = Prepended(At(k), f[k - At(k).size])
  BY Zenon
<1> HIDE DEF step
<1>7. LooksBack(step, n, V)
  <2>1. SUFFICES ASSUME NEW k \in 1..n, NEW g \in [0..n -> V], NEW h \in [0..n -> V],
                        \A j \in 0..(k - 1) : g[j] = h[j]
                 PROVE  step[k][g] = step[k][h]
    BY DEF LooksBack
  <2>2. g[k - At(k).size] = h[k - At(k).size]
    BY <1>2, <2>1, Zenon
  <2> QED
    BY <1>6, <2>2, Zenon
<1>8. Defines(step, n, V, Empty)
  BY <1>1, <1>3, <1>5, <1>7, Recursion
<1>9. PICK f \in [0..n -> V] : f[0] = Empty /\ \A k \in 1..n : f[k] = step[k][f]
  BY <1>8 DEF Defines
<1>10. f = [k \in 0..n |-> IF k = 0 THEN Empty ELSE Prepended(At(k), f[k - At(k).size])]
  <2>1. \A k \in 1..n : f[k] = Prepended(At(k), f[k - At(k).size])
    BY <1>6, <1>9, Zenon
  <2>2. \A k \in 0..n : k = 0 \/ (k \in 1..n /\ k # 0)
    BY <1>1
  <2>3. \A k \in 0..n : f[k] = IF k = 0 THEN Empty ELSE Prepended(At(k), f[k - At(k).size])
    BY <1>9, <2>1, <2>2, Zenon
  <2> QED
    BY <2>3, Zenon
<1>11. T = [k \in 0..n |-> IF k = 0 THEN Empty ELSE Prepended(At(k), T[k - At(k).size])]
  BY <1>10, Zenon DEF Unquoted, n, At, Empty, Prepended
<1> HIDE DEF T
<1>12. T[0] = Empty /\ \A k \in 1..n : T[k] = Prepended(At(k), T[k - At(k).size])
  <2>1. 0 \in 0..n /\ \A k \in 1..n : k \in 0..n /\ k # 0
    BY <1>1
  <2> QED
    BY <1>11, <2>1, Zenon
<1> QED
  BY <1>12, Zenon DEF TextsOf, T, n, At

\* The text of an end of the input does not depend on what stands before it.
LEMMA UnquotedLooksAhead ==
  ASSUME NEW x \in Seq(Symbols), NEW z \in Seq(Symbols)
  PROVE  \A k \in 0..Len(z) : Unquoted(x \o z)[k] = Unquoted(z)[k]
<1> DEFINE n == Len(z)
           in == x \o z
           A == Unquoted(in)
           B == Unquoted(z)
           S == {k \in 0..n : A[k] = B[k]}
<1>1. n \in Nat /\ Len(x) \in Nat /\ in \in Seq(Symbols) /\ Len(in) = Len(x) + n
  OBVIOUS
<1>2. TextsOf(A, in) /\ TextsOf(B, z)
  BY <1>1, UnquotedIs
<1> HIDE DEF A, B, in
<1>3. ASSUME NEW k \in 0..n, \A j \in 0..(k - 1) : j \in S PROVE k \in S
  <2>1. CASE k = 0
    BY <1>2, <2>1 DEF TextsOf
  <2>2. CASE k # 0
    <3> DEFINE i == n + 1 - k
               turn == UnquoteAt(z, i)
    <3>1. i \in 1..Len(z) /\ Len(in) + 1 - k = Len(x) + i /\ k \in 1..Len(z) /\ k \in 1..Len(in) /\ Len(z) + 1 - i = k
      BY <1>1, <2>2
    <3>2. UnquoteAt(in, Len(in) + 1 - k) = turn
      <4> HIDE DEF i
      <4>1. UnquoteAt(x \o z, Len(x) + i) = UnquoteAt(z, i)
        BY <3>1, UnquoteAtLooksAhead
      <4> QED
        BY <3>1, <4>1 DEF in
    <3>3. turn.size \in 1..k
      <4> HIDE DEF i
      <4>1. UnquoteAt(z, i).size \in 1..(Len(z) + 1 - i)
        BY <3>1, UnquoteAtFits
      <4> QED
        BY <3>1, <4>1
    <3>4. A[k] = Prepended(turn, A[k - turn.size])
      BY <1>2, <3>1, <3>2, Zenon DEF TextsOf
    <3>5. B[k] = Prepended(turn, B[k - turn.size])
      BY <1>2, <3>1, Zenon DEF TextsOf
    <3> HIDE DEF turn
    <3>6. k - turn.size \in 0..(k - 1)
      BY <3>3
    <3>7. A[k - turn.size] = B[k - turn.size]
      BY <1>3, <3>6
    <3> QED
      BY <3>4, <3>5, <3>7
  <2> QED
    BY <2>1, <2>2
<1>4. \A k \in 0..n : k \in S
  <2> HIDE DEF S
  <2>1. \A k \in 0..n : (\A j \in 0..(k - 1) : j \in S) => k \in S
    BY <1>3
  <2> QED
    BY <1>1, <2>1, InductComplete, Zenon
<1>5. \A k \in 0..n : A[k] = B[k]
  BY <1>4
<1> QED
  BY <1>5 DEF A, B, n, in

\* The symbols `in` are the literal form of the text w.
Decodes(in, w) ==
  in \in Seq(Symbols) /\ Unquoted(in)[Len(in)] = [ok |-> TRUE, out |-> w]

\* Nothing decodes to nothing.
LEMMA DecodesEmpty == Decodes(<<>>, <<>>)
<1>1. <<>> \in Seq(Symbols) /\ Len(<<>>) = 0
  OBVIOUS
<1>2. TextsOf(Unquoted(<<>>), <<>>)
  BY <1>1, UnquotedIs
<1>3. Unquoted(<<>>)[0] = [ok |-> TRUE, out |-> <<>>]
  BY <1>2, Zenon DEF TextsOf, Empty
<1> QED
  BY <1>1, <1>3 DEF Decodes

\* One turn that consumes exactly x.
LEMMA DecodesTurn ==
  ASSUME NEW x \in Seq(Symbols), x # <<>>, NEW z, NEW w, Decodes(z, w), NEW u,
         UnquoteAt(x \o z, 1) = Decoded(u, Len(x))
  PROVE  Decodes(x \o z, <<u>> \o w)
<1> DEFINE in == x \o z
           n == Len(in)
           A == Unquoted(in)
<1>1. z \in Seq(Symbols) /\ Unquoted(z)[Len(z)] = [ok |-> TRUE, out |-> w]
  BY DEF Decodes
<1>2. in \in Seq(Symbols) /\ Len(x) \in Nat /\ Len(z) \in Nat /\ n = Len(x) + Len(z)
  BY <1>1
<1>3. n \in 1..Len(in) /\ Len(in) + 1 - n = 1 /\ n - Len(x) = Len(z) /\ Len(z) \in 0..Len(z)
  <2>1. Len(x) # 0
    OBVIOUS
  <2> QED
    BY <1>2, <2>1
<1>4. TextsOf(A, in)
  BY <1>2, UnquotedIs
<1>5. A[Len(z)] = Unquoted(z)[Len(z)]
  BY <1>1, <1>3, UnquotedLooksAhead
<1> DEFINE turn == UnquoteAt(in, Len(in) + 1 - n)
<1> HIDE DEF A, in, n
<1>6. A[n] = Prepended(turn, A[n - turn.size])
  BY <1>3, <1>4, Zenon DEF TextsOf
<1>7. turn = Decoded(u, Len(x))
  BY <1>3 DEF in
<1>8. turn.ok /\ turn.out = u /\ turn.size = Len(x)
  BY <1>7 DEF Decoded
<1>9. A[n - turn.size] = [ok |-> TRUE, out |-> w]
  BY <1>1, <1>3, <1>5, <1>8
<1> HIDE DEF turn
<1> DEFINE rest == [ok |-> TRUE, out |-> w]
<1>10. rest.ok /\ rest.out = w
  OBVIOUS
<1> HIDE DEF rest
<1>11. Prepended(turn, rest) = [ok |-> TRUE, out |-> <<u>> \o w]
  BY <1>8, <1>10, Zenon DEF Prepended
<1>12. A[n] = [ok |-> TRUE, out |-> <<u>> \o w]
  BY <1>6, <1>9, <1>11 DEF rest
<1> QED
  BY <1>2, <1>12, Zenon DEF Decodes, A, n, in

-----------------------------------------------------------------------------
(* The literals a client writes.                                           *)

\* The forms of a code unit.
LEMMA EscapesAre ==
  ASSUME NEW u \in Units, NEW e \in Escapes(u)
  PROVE  \/ u \in {"a", "pair"} /\ e = <<u>>
         \/ u \in {"quote", "backslash"} /\ e = <<"backslash", u>>
         \/ u = "control" /\ e = <<"backslash", "n">>
         \/ \E h \in Hex : UnitOf[h] = u /\ e = <<"backslash", "u", h>>
<1>1. CASE \E h \in Hex : UnitOf[h] = u /\ e = <<"backslash", "u", h>>
  BY <1>1
<1>2. CASE ~\E h \in Hex : UnitOf[h] = u /\ e = <<"backslash", "u", h>>
  <2>1. e \in (CASE u \in {"a", "pair"}            -> {<<u>>}
                 [] u \in {"quote", "backslash"}   -> {<<"backslash", u>>}
                 [] u = "control"                  -> {<<"backslash", "n">>}
                 [] OTHER                          -> {})
    BY <1>2, Zenon DEF Escapes
  <2>2. CASE u \in {"a", "pair"}
    BY <2>1, <2>2
  <2>3. CASE u \in {"quote", "backslash"}
    BY <2>1, <2>3
  <2>4. CASE u = "control"
    BY <2>1, <2>4
  <2>5. CASE u \in {"high", "low"}
    BY <2>1, <2>5
  <2> QED
    BY <2>2, <2>3, <2>4, <2>5 DEF Units
<1> QED
  BY <1>1, <1>2

\* They are symbols.
LEMMA EscapeSymbols ==
  ASSUME NEW u \in Units, NEW e \in Escapes(u)
  PROVE  e \in Seq(Symbols)
<1>1. /\ "a" \in Symbols /\ "pair" \in Symbols /\ "quote" \in Symbols /\ "backslash" \in Symbols
      /\ "n" \in Symbols /\ "u" \in Symbols /\ Hex \subseteq Symbols
  BY DEF Symbols
<1>2. CASE u \in {"a", "pair"} /\ e = <<u>>
  BY <1>1, <1>2
<1>3. CASE u \in {"quote", "backslash"} /\ e = <<"backslash", u>>
  BY <1>1, <1>3
<1>4. CASE u = "control" /\ e = <<"backslash", "n">>
  BY <1>1, <1>4
<1>5. CASE \E h \in Hex : UnitOf[h] = u /\ e = <<"backslash", "u", h>>
  BY <1>1, <1>5
<1> QED
  BY <1>2, <1>3, <1>4, <1>5, EscapesAre

\* A literal that has grown by one unit.
LEMMA ExtendedIs ==
  ASSUME NEW X, NEW u, NEW y \in Extended(X, u)
  PROVE  \E l \in X, e \in Escapes(u) : y = l \o e
BY SMT DEF Extended

\* The literals so far, unit by unit.
LEMMA LiteralsUpToIs ==
  ASSUME NEW units \in Seq(Units)
  PROVE  /\ LiteralsUpTo(units)[0] = {<<"quote">>}
         /\ \A i \in 1..Len(units) :
              LiteralsUpTo(units)[i] = Extended(LiteralsUpTo(units)[i - 1], units[i])
         /\ \A i \in 0..Len(units) : LiteralsUpTo(units)[i] \subseteq Seq(Symbols)
<1> DEFINE L == Len(units)
           V == SUBSET Seq(Symbols)
           A == LiteralsUpTo(units)
           next == [i \in 1..L |-> [X \in V |-> Extended(X, units[i])]]
<1>1. L \in Nat /\ \A i \in 1..L : units[i] \in Units
  OBVIOUS
<1>2. \A u \in Units : Escapes(u) \subseteq Seq(Symbols)
  BY EscapeSymbols
<1>3. ASSUME NEW i \in 1..L, NEW X \in V PROVE Extended(X, units[i]) \in V
  <2>1. \A l \in X, e \in Escapes(units[i]) : l \o e \in Seq(Symbols)
    BY <1>1, <1>2
  <2>2. ASSUME NEW y \in Extended(X, units[i]) PROVE y \in Seq(Symbols)
    <3>1. PICK l \in X, e \in Escapes(units[i]) : y = l \o e
      BY <2>2, ExtendedIs
    <3> QED
      BY <2>1, <3>1
  <2>3. Extended(X, units[i]) \subseteq Seq(Symbols)
    BY <2>2
  <2> QED
    BY <2>3, Zenon
<1>4. {<<"quote">>} \in V
  BY DEF Symbols
<1> HIDE DEF V, L
<1>5. next \in [1..L -> [V -> V]]
  BY <1>3
<1>6. \A i \in 1..L : \A X \in V : next[i][X] = Extended(X, units[i])
  BY Zenon
<1> HIDE DEF next
<1>7. Loops(next, L, V, {<<"quote">>})
  BY <1>1, <1>4, <1>5, Iteration
<1>8. PICK f \in [0..L -> V] : f[0] = {<<"quote">>} /\ \A i \in 1..L : f[i] = next[i][f[i - 1]]
  BY <1>7 DEF Loops
<1>9. f = [i \in 0..L |-> IF i = 0 THEN {<<"quote">>} ELSE Extended(f[i - 1], units[i])]
  <2>1. \A i \in 1..L : i - 1 \in 0..L
    BY <1>1
  <2>2. \A i \in 1..L : f[i - 1] \in V
    BY <2>1
  <2>3. \A i \in 1..L : f[i] = Extended(f[i - 1], units[i])
    BY <1>6, <1>8, <2>2, Zenon
  <2>4. \A i \in 0..L : i = 0 \/ (i \in 1..L /\ i # 0)
    BY <1>1
  <2>5. \A i \in 0..L : f[i] = IF i = 0 THEN {<<"quote">>} ELSE Extended(f[i - 1], units[i])
    BY <1>8, <2>3, <2>4, Zenon
  <2> QED
    BY <2>5, Zenon
<1>10. A = [i \in 0..L |-> IF i = 0 THEN {<<"quote">>} ELSE Extended(A[i - 1], units[i])]
  BY <1>9, Zenon DEF LiteralsUpTo, L
<1> HIDE DEF A
<1>11. A[0] = {<<"quote">>} /\ \A i \in 1..L : A[i] = Extended(A[i - 1], units[i])
  <2>1. 0 \in 0..L /\ \A i \in 1..L : i \in 0..L /\ i # 0
    BY <1>1
  <2> QED
    BY <1>10, <2>1, Zenon
<1> DEFINE S == {i \in 0..L : A[i] \in V}
<1>12. 0 \in S
  <2>1. 0 \in 0..L
    BY <1>1
  <2>2. A[0] \in V
    BY <1>4, <1>11, Zenon
  <2> QED
    BY <2>1, <2>2
<1>13. ASSUME NEW i \in 1..L, i - 1 \in S PROVE i \in S
  <2>1. A[i - 1] \in V
    BY <1>13
  <2>2. A[i] \in V
    BY <1>3, <1>11, <2>1, Zenon
  <2>3. i \in 0..L
    BY <1>1
  <2> QED
    BY <2>2, <2>3
<1>14. \A i \in 0..L : i \in S
  <2> HIDE DEF S
  <2>1. \A i \in 1..L : i - 1 \in S => i \in S
    BY <1>13
  <2> QED
    BY <1>1, <1>12, <2>1, Induct, Zenon
<1>15. \A i \in 0..L : A[i] \subseteq Seq(Symbols)
  BY <1>14 DEF V
<1> QED
  BY <1>11, <1>15, Zenon DEF A, L

\* The text so far, unit by unit.
LEMMA Utf8UpToIs ==
  ASSUME NEW units \in Seq(Units)
  PROVE  /\ Utf8UpTo(units)[0] = <<>>
         /\ \A i \in 1..Len(units) : Utf8UpTo(units)[i] = Utf8UpTo(units)[i - 1] \o Utf8At(units, i)
         /\ \A i \in 1..Len(units) : Utf8At(units, i) \in Seq(Runes)
         /\ \A i \in 0..Len(units) : Utf8UpTo(units)[i] \in Seq(Runes)
<1> DEFINE L == Len(units)
           V == Seq(Runes)
           A == Utf8UpTo(units)
           next == [i \in 1..L |-> [t \in V |-> t \o Utf8At(units, i)]]
<1>1. L \in Nat /\ \A i \in 1..L : units[i] \in Units
  OBVIOUS
<1>2. \A i \in 1..L : Utf8At(units, i) \in V
  <2> SUFFICES ASSUME NEW i \in 1..L PROVE Utf8At(units, i) \in V
    OBVIOUS
  <2>1. units[i] \notin {"high", "low"} => units[i] \in Runes
    BY <1>1 DEF Units, Runes, Symbols
  <2>2. "pair" \in Runes /\ "U+FFFD" \in Runes
    BY DEF Runes, Symbols
  <2>3. <<>> \in V /\ <<"pair">> \in V /\ <<"U+FFFD">> \in V
    BY <2>2
  <2>4. units[i] \notin {"high", "low"} => <<units[i]>> \in V
    BY <2>1
  <2> HIDE DEF V
  <2> QED
    BY <2>3, <2>4 DEF Utf8At
<1>3. ASSUME NEW i \in 1..L, NEW t \in V PROVE t \o Utf8At(units, i) \in V
  BY <1>2
<1>4. <<>> \in V
  OBVIOUS
<1> HIDE DEF V, L
<1>5. next \in [1..L -> [V -> V]]
  BY <1>3
<1>6. \A i \in 1..L : \A t \in V : next[i][t] = t \o Utf8At(units, i)
  BY Zenon
<1> HIDE DEF next
<1>7. Loops(next, L, V, <<>>)
  BY <1>1, <1>4, <1>5, Iteration
<1>8. PICK f \in [0..L -> V] : f[0] = <<>> /\ \A i \in 1..L : f[i] = next[i][f[i - 1]]
  BY <1>7 DEF Loops
<1>9. f = [i \in 0..L |-> IF i = 0 THEN <<>> ELSE f[i - 1] \o Utf8At(units, i)]
  <2>1. \A i \in 1..L : i - 1 \in 0..L
    BY <1>1
  <2>2. \A i \in 1..L : f[i - 1] \in V
    BY <2>1
  <2>3. \A i \in 1..L : f[i] = f[i - 1] \o Utf8At(units, i)
    BY <1>6, <1>8, <2>2, Zenon
  <2>4. \A i \in 0..L : i = 0 \/ (i \in 1..L /\ i # 0)
    BY <1>1
  <2>5. \A i \in 0..L : f[i] = IF i = 0 THEN <<>> ELSE f[i - 1] \o Utf8At(units, i)
    BY <1>8, <2>3, <2>4, Zenon
  <2> QED
    BY <2>5, Zenon
<1>10. A = [i \in 0..L |-> IF i = 0 THEN <<>> ELSE A[i - 1] \o Utf8At(units, i)]
  BY <1>9, Zenon DEF Utf8UpTo, L
<1> HIDE DEF A
<1>11. A[0] = <<>> /\ \A i \in 1..L : A[i] = A[i - 1] \o Utf8At(units, i)
  <2>1. 0 \in 0..L /\ \A i \in 1..L : i \in 0..L /\ i # 0
    BY <1>1
  <2> QED
    BY <1>10, <2>1, Zenon
<1> DEFINE S == {i \in 0..L : A[i] \in V}
<1>12. 0 \in S
  <2>1. 0 \in 0..L
    BY <1>1
  <2>2. A[0] \in V
    BY <1>4, <1>11, Zenon
  <2> QED
    BY <2>1, <2>2
<1>13. ASSUME NEW i \in 1..L, i - 1 \in S PROVE i \in S
  <2>1. A[i - 1] \in V
    BY <1>13
  <2>2. A[i] \in V
    BY <1>3, <1>11, <2>1, Zenon
  <2>3. i \in 0..L
    BY <1>1
  <2> QED
    BY <2>2, <2>3
<1>14. \A i \in 0..L : i \in S
  <2> HIDE DEF S
  <2>1. \A i \in 1..L : i - 1 \in S => i \in S
    BY <1>13
  <2> QED
    BY <1>1, <1>12, <2>1, Induct, Zenon
<1>15. \A i \in 0..L : A[i] \in V
  BY <1>14
<1> QED
  BY <1>2, <1>11, <1>15, Zenon DEF A, L, V

\* The input z begins with the escape of a low surrogate.
StartsLow(z) ==
  SymbolAt(z, 1) = "backslash" /\ SymbolAt(z, 2) = "u" /\ SymbolAt(z, 3) = "de00"

\* What stands in the text for a code unit on its own.
RuneOf(u) == IF u \in {"high", "low"} THEN "U+FFFD" ELSE u

\* How an input begins: with a backslash and b; with the escape of h, before z.
Escaped(in, b) == SymbolAt(in, 1) = "backslash" /\ SymbolAt(in, 2) = b

EscapedHex(in, h, z) ==
  /\ Escaped(in, "u") /\ SymbolAt(in, 3) = h
  /\ SymbolAt(in, 4) = SymbolAt(z, 1) /\ SymbolAt(in, 5) = SymbolAt(z, 2)
  /\ SymbolAt(in, 6) = SymbolAt(z, 3)

\* How an input begins that starts with a form of one symbol.
LEMMA FormOfOne ==
  ASSUME NEW a \in Symbols, NEW z \in Seq(Symbols), NEW e, e = <<a>>
  PROVE  SymbolAt(e \o z, 1) = a
<1> DEFINE y == e \o z
<1>1. y \in Seq(Symbols) /\ Len(y) = 1 + Len(z) /\ y[1] = a
  OBVIOUS
<1> HIDE DEF y
<1>2. 1 \in DOMAIN y
  BY <1>1
<1>3. SymbolAt(y, 1) = a
  BY <1>1, <1>2, Zenon DEF SymbolAt
<1> QED
  BY <1>3 DEF y

\* The same for two symbols.
LEMMA FormOfTwo ==
  ASSUME NEW b \in Symbols, NEW z \in Seq(Symbols), NEW e, e = <<"backslash", b>>
  PROVE  Escaped(e \o z, b)
<1> DEFINE y == e \o z
<1>1. "backslash" \in Symbols
  BY DEF Symbols
<1>2. y \in Seq(Symbols) /\ Len(y) = 2 + Len(z) /\ y[1] = "backslash" /\ y[2] = b
  BY <1>1
<1> HIDE DEF y
<1>3. 1 \in DOMAIN y /\ 2 \in DOMAIN y
  BY <1>2
<1>4. SymbolAt(y, 1) = "backslash" /\ SymbolAt(y, 2) = b
  BY <1>2, <1>3, Zenon DEF SymbolAt
<1> QED
  BY <1>4 DEF y, Escaped

\* The same for the escape of four digits.
LEMMA FormOfThree ==
  ASSUME NEW h \in Hex, NEW z \in Seq(Symbols), NEW e, e = <<"backslash", "u", h>>
  PROVE  /\ e \in Seq(Symbols) /\ Len(e) = 3 /\ e \o z \in Seq(Symbols)
         /\ EscapedHex(e \o z, h, z)
<1> DEFINE y == e \o z
<1>1. "backslash" \in Symbols /\ "u" \in Symbols /\ h \in Symbols
  BY DEF Symbols
<1>2. e \in Seq(Symbols) /\ Len(e) = 3
  BY <1>1
<1>3. y \in Seq(Symbols) /\ Len(y) = 3 + Len(z) /\ y[1] = "backslash" /\ y[2] = "u" /\ y[3] = h
  BY <1>1
<1>4. \A k \in 1..Len(z) : y[3 + k] = z[k]
  OBVIOUS
<1> HIDE DEF y
<1>5. SymbolAt(y, 1) = "backslash" /\ SymbolAt(y, 2) = "u" /\ SymbolAt(y, 3) = h
  <2>1. 1 \in DOMAIN y /\ 2 \in DOMAIN y /\ 3 \in DOMAIN y
    BY <1>3
  <2> QED
    BY <1>3, <2>1, Zenon DEF SymbolAt
<1>6. ASSUME NEW k \in 1..3 PROVE SymbolAt(y, 3 + k) = SymbolAt(z, k)
  <2>1. DOMAIN y = 1..(3 + Len(z)) /\ DOMAIN z = 1..Len(z) /\ Len(z) \in Nat
    BY <1>3
  <2>2. CASE k \in 1..Len(z)
    <3>1. 3 + k \in DOMAIN y /\ k \in DOMAIN z /\ y[3 + k] = z[k]
      BY <1>4, <2>1, <2>2
    <3> QED
      BY <3>1, Zenon DEF SymbolAt
  <2>3. CASE k \notin 1..Len(z)
    <3>1. 3 + k \notin DOMAIN y /\ k \notin DOMAIN z
      BY <2>1, <2>3
    <3> QED
      BY <3>1, Zenon DEF SymbolAt
  <2> QED
    BY <2>2, <2>3
<1>7. SymbolAt(y, 4) = SymbolAt(z, 1) /\ SymbolAt(y, 5) = SymbolAt(z, 2) /\ SymbolAt(y, 6) = SymbolAt(z, 3)
  <2>1. 1 \in 1..3 /\ 2 \in 1..3 /\ 3 \in 1..3 /\ 3 + 1 = 4 /\ 3 + 2 = 5 /\ 3 + 3 = 6
    OBVIOUS
  <2> QED
    BY <1>6, <2>1
<1> QED
  BY <1>2, <1>3, <1>5, <1>7 DEF y, EscapedHex, Escaped

\* Only the form of a low surrogate starts like one.
LEMMA OnlyLowStartsLow ==
  ASSUME NEW u \in Units, NEW e \in Escapes(u), NEW z \in Seq(Symbols), StartsLow(e \o z)
  PROVE  u = "low"
<1>1. "n" \in Symbols /\ (u \notin {"high", "low"} => u \in Symbols)
  BY DEF Symbols, Units
<1>2. CASE u \in {"a", "pair"} /\ e = <<u>>
  <2>1. SymbolAt(e \o z, 1) = u
    BY <1>1, <1>2, FormOfOne
  <2> QED
    BY <1>2, <2>1 DEF StartsLow
<1>3. CASE u \in {"quote", "backslash"} /\ e = <<"backslash", u>>
  <2>1. Escaped(e \o z, u)
    BY <1>1, <1>3, FormOfTwo
  <2> QED
    BY <1>3, <2>1 DEF StartsLow, Escaped
<1>4. CASE u = "control" /\ e = <<"backslash", "n">>
  <2>1. Escaped(e \o z, "n")
    BY <1>1, <1>4, FormOfTwo
  <2> QED
    BY <2>1 DEF StartsLow, Escaped
<1>5. CASE \E h \in Hex : UnitOf[h] = u /\ e = <<"backslash", "u", h>>
  <2>1. PICK h \in Hex : UnitOf[h] = u /\ e = <<"backslash", "u", h>>
    BY <1>5
  <2>2. EscapedHex(e \o z, h, z)
    BY <2>1, FormOfThree
  <2>3. h = "de00"
    BY <2>2 DEF StartsLow, EscapedHex
  <2> QED
    BY <2>1, <2>3 DEF UnitOf, Hex
<1> QED
  BY <1>2, <1>3, <1>4, <1>5, EscapesAre

\* Every form of a code unit decodes to the unit, a surrogate on its own to U+FFFD.
LEMMA EscapeDecodes ==
  ASSUME NEW u \in Units, NEW e \in Escapes(u), NEW z, NEW w, Decodes(z, w),
         u = "high" => ~StartsLow(z)
  PROVE  Decodes(e \o z, <<RuneOf(u)>> \o w)
<1>1. "n" \in Symbols /\ "backslash" \in Symbols /\ (u \notin {"high", "low"} => u \in Symbols)
  BY DEF Symbols, Units
<1>2. z \in Seq(Symbols)
  BY DEF Decodes
<1>3. SUFFICES /\ e \in Seq(Symbols) /\ e # <<>>
               /\ UnquoteAt(e \o z, 1) = Decoded(RuneOf(u), Len(e))
  BY DecodesTurn
<1>4. 1 + 1 = 2 /\ 1 + 2 = 3 /\ 1 + 3 = 4 /\ 1 + 4 = 5 /\ 1 + 5 = 6
  OBVIOUS
<1> DEFINE in == e \o z
<1>5. CASE u \in {"a", "pair"} /\ e = <<u>>
  <2>1. SymbolAt(in, 1) = u
    BY <1>1, <1>2, <1>5, FormOfOne
  <2>2. e \in Seq(Symbols) /\ e # <<>> /\ Len(e) = 1 /\ RuneOf(u) = u
    BY <1>1, <1>5 DEF RuneOf
  <2> HIDE DEF in
  <2>3. UnquoteAt(in, 1) = Decoded(u, 1)
    BY <1>5, <2>1 DEF UnquoteAt
  <2> QED
    BY <2>2, <2>3 DEF in
<1>6. CASE u \in {"quote", "backslash"} /\ e = <<"backslash", u>>
  <2>1. Escaped(in, u)
    BY <1>1, <1>2, <1>6, FormOfTwo
  <2>2. e \in Seq(Symbols) /\ e # <<>> /\ Len(e) = 2 /\ RuneOf(u) = u
    BY <1>1, <1>6 DEF RuneOf
  <2> HIDE DEF in
  <2>3. UnquoteAt(in, 1) = Decoded(u, 2)
    BY <1>4, <1>6, <2>1 DEF UnquoteAt, Escaped
  <2> QED
    BY <2>2, <2>3 DEF in
<1>7. CASE u = "control" /\ e = <<"backslash", "n">>
  <2>1. Escaped(in, "n")
    BY <1>1, <1>2, <1>7, FormOfTwo
  <2>2. e \in Seq(Symbols) /\ e # <<>> /\ Len(e) = 2 /\ RuneOf(u) = u
    BY <1>1, <1>7 DEF RuneOf
  <2> HIDE DEF in
  <2>3. UnquoteAt(in, 1) = Decoded("control", 2)
    BY <1>4, <1>7, <2>1 DEF UnquoteAt, Escaped
  <2> QED
    BY <1>7, <2>2, <2>3 DEF in
<1>8. CASE \E h \in Hex : UnitOf[h] = u /\ e = <<"backslash", "u", h>>
  <2>1. PICK h \in Hex : UnitOf[h] = u /\ e = <<"backslash", "u", h>>
    BY <1>8
  <2>2. e \in Seq(Symbols) /\ Len(e) = 3 /\ EscapedHex(in, h, z)
    BY <1>2, <2>1, FormOfThree
  <2>3. e # <<>>
    BY <2>2
  <2>4. h = "d83d" => u = "high"
    BY <2>1 DEF UnitOf, Hex
  <2> HIDE DEF in
  <2>5. /\ SymbolAt(in, 1) = "backslash" /\ SymbolAt(in, 1 + 1) = "u" /\ SymbolAt(in, 1 + 2) = h
        /\ SymbolAt(in, 1 + 3) = SymbolAt(z, 1) /\ SymbolAt(in, 1 + 4) = SymbolAt(z, 2)
        /\ SymbolAt(in, 1 + 5) = SymbolAt(z, 3)
    BY <1>4, <2>2 DEF EscapedHex, Escaped
  <2>6. decodeUnicodeEscape(in, 1) = Decoded(RuneOf(u), 3)
    <3>1. CASE u \notin {"high", "low"}
      BY <2>1, <2>5, <3>1, Zenon DEF decodeUnicodeEscape, RuneOf
    <3>2. CASE u \in {"high", "low"}
      <4>1. ~(/\ h = "d83d" /\ SymbolAt(z, 3) = "de00"
              /\ SymbolAt(z, 1) = "backslash" /\ SymbolAt(z, 2) = "u")
        BY <2>4 DEF StartsLow
      <4> QED
        BY <2>1, <2>5, <3>2, <4>1, Zenon DEF decodeUnicodeEscape, RuneOf
    <3> QED
      BY <3>1, <3>2
  <2>7. UnquoteAt(in, 1) = decodeUnicodeEscape(in, 1)
    BY <2>5 DEF UnquoteAt
  <2> QED
    BY <2>2, <2>3, <2>6, <2>7 DEF in
<1> QED
  BY <1>5, <1>6, <1>7, <1>8, EscapesAre

\* Concatenation of symbols is associative.
LEMMA SymbolsAssociate ==
  ASSUME NEW s \in Seq(Symbols), NEW t \in Seq(Symbols), NEW v \in Seq(Symbols)
  PROVE  (s \o t) \o v = s \o (t \o v)
BY ConcatAssociative

\* Concatenation of symbols.
LEMMA SymbolsConcat ==
  ASSUME NEW s \in Seq(Symbols), NEW t \in Seq(Symbols), NEW v \in Seq(Symbols)
  PROVE  /\ (s \o t) \o v = s \o (t \o v)
         /\ s \o t \in Seq(Symbols) /\ Len(s \o t) = Len(s) + Len(t)
BY ConcatAssociative, ConcatProperties

\* Concatenation of characters.
LEMMA RunesConcat ==
  ASSUME NEW s \in Seq(Runes), NEW t \in Seq(Runes), NEW v \in Seq(Runes)
  PROVE  /\ (s \o t) \o v = s \o (t \o v)
         /\ s \o t \in Seq(Runes) /\ Len(s \o t) = Len(s) + Len(t)
BY ConcatAssociative, ConcatProperties

HighEscape == <<"backslash", "u", "d83d">>
LowEscape  == <<"backslash", "u", "de00">>

\* The forms of two surrogates that belong together decode to one character.
LEMMA PairDecodes ==
  ASSUME NEW z, NEW w, Decodes(z, w)
  PROVE  Decodes(HighEscape \o (LowEscape \o z), <<"pair">> \o w)
<1> DEFINE x == HighEscape \o LowEscape
           y == LowEscape \o z
           in == HighEscape \o y
<1>1. "d83d" \in Hex /\ "de00" \in Hex /\ UnitOf["d83d"] = "high"
  BY DEF Hex, UnitOf
<1>2. z \in Seq(Symbols)
  BY DEF Decodes
<1>3. LowEscape \in Seq(Symbols) /\ Len(LowEscape) = 3 /\ y \in Seq(Symbols) /\ EscapedHex(y, "de00", z)
  <2> DEFINE e == LowEscape
  <2>1. e = <<"backslash", "u", "de00">>
    BY DEF LowEscape
  <2> HIDE DEF e
  <2>2. e \in Seq(Symbols) /\ Len(e) = 3 /\ e \o z \in Seq(Symbols) /\ EscapedHex(e \o z, "de00", z)
    BY <1>1, <1>2, <2>1, FormOfThree
  <2> QED
    BY <2>2 DEF e
<1> HIDE DEF y
<1>4. HighEscape \in Seq(Symbols) /\ Len(HighEscape) = 3 /\ EscapedHex(in, "d83d", y)
  <2> DEFINE e == HighEscape
  <2>1. e = <<"backslash", "u", "d83d">>
    BY DEF HighEscape
  <2> HIDE DEF e
  <2>2. e \in Seq(Symbols) /\ Len(e) = 3 /\ EscapedHex(e \o y, "d83d", y)
    BY <1>1, <1>3, <2>1, FormOfThree
  <2> QED
    BY <2>2 DEF e
<1>5. x \in Seq(Symbols) /\ Len(x) = 6 /\ x # <<>> /\ x \o z = in
  <2> DEFINE g == HighEscape
             h == LowEscape
  <2>1. g \in Seq(Symbols) /\ h \in Seq(Symbols) /\ z \in Seq(Symbols) /\ Len(g) = 3 /\ Len(h) = 3
    BY <1>2, <1>3, <1>4
  <2> HIDE DEF g, h
  <2>2. (g \o h) \o z = g \o (h \o z)
    BY <2>1, SymbolsAssociate
  <2>3. g \o h \in Seq(Symbols) /\ Len(g \o h) = 6
    <3>1. g \o h \in Seq(Symbols) /\ Len(g \o h) = Len(g) + Len(h)
      BY <2>1, ConcatProperties
    <3> QED
      BY <2>1, <3>1
  <2>4. g \o h # <<>>
    BY <2>3
  <2> QED
    BY <2>2, <2>3, <2>4 DEF g, h, y
<1> HIDE DEF in, x
<1>7. /\ SymbolAt(in, 1) = "backslash" /\ SymbolAt(in, 1 + 1) = "u" /\ SymbolAt(in, 1 + 2) = "d83d"
      /\ SymbolAt(in, 1 + 3) = "backslash" /\ SymbolAt(in, 1 + 4) = "u" /\ SymbolAt(in, 1 + 5) = "de00"
  <2>1. 1 + 1 = 2 /\ 1 + 2 = 3 /\ 1 + 3 = 4 /\ 1 + 4 = 5 /\ 1 + 5 = 6
    OBVIOUS
  <2> QED
    BY <1>3, <1>4, <2>1 DEF EscapedHex, Escaped
<1>8. decodeUnicodeEscape(in, 1) = Decoded("pair", 6)
  BY <1>1, <1>7, Zenon DEF decodeUnicodeEscape
<1>9. UnquoteAt(in, 1) = decodeUnicodeEscape(in, 1)
  BY <1>7 DEF UnquoteAt
<1>10. UnquoteAt(x \o z, 1) = Decoded("pair", Len(x))
  BY <1>5, <1>8, <1>9
<1>11. Decodes(x \o z, <<"pair">> \o w)
  BY <1>5, <1>10, DecodesTurn
<1> QED
  BY <1>5, <1>11 DEF in, y

\* The literal l, which lacks its closing quote, decodes to t when z follows it.
Reads(l, z, t) == \E y \in Seq(Symbols) : l = <<"quote">> \o y /\ Decodes(y \o z, t)

\* The literal l, which lacks its closing quote, stands for the text t, and keeps
\* standing for it whatever follows. Only after a high surrogate, as its last unit u,
\* must the escape of a low one not follow: that would make them a pair.
Writes(l, t, u) ==
  \A z \in Seq(Symbols), w \in Seq(Runes) :
    Decodes(z, w) /\ (u = "high" => ~StartsLow(z)) => Reads(l, z, t \o w)

\* In the middle of a pair: the text already has it, the literal only its first half.
WritesHigh(l, t) ==
  \E x \in Seq(Symbols), s \in Seq(Runes) : \E u :
    l = x \o HighEscape /\ t = s \o <<"pair">> /\ Writes(x, s, u)

\* The forms of the surrogates.
LEMMA SurrogateEscapes ==
  /\ HighEscape \in Escapes("high") /\ HighEscape \in Seq(Symbols)
  /\ LowEscape \in Seq(Symbols)
  /\ \A e \in Escapes("high") : e = HighEscape
  /\ \A e \in Escapes("low") : e = LowEscape
<1>1. "high" \in Units /\ "low" \in Units
  BY DEF Units
<1>2. /\ "d83d" \in Hex /\ UnitOf["d83d"] = "high" /\ "de00" \in Hex
      /\ \A h \in Hex : (UnitOf[h] = "high" => h = "d83d") /\ (UnitOf[h] = "low" => h = "de00")
  BY DEF Hex, UnitOf
<1>3. HighEscape \in Escapes("high")
  BY <1>2, Zenon DEF Escapes, HighEscape
<1>4. "backslash" \in Symbols /\ "u" \in Symbols /\ "d83d" \in Symbols /\ "de00" \in Symbols
  BY DEF Symbols, Hex
<1>5. HighEscape \in Seq(Symbols) /\ LowEscape \in Seq(Symbols)
  BY <1>4 DEF HighEscape, LowEscape
<1>6. ASSUME NEW e \in Escapes("high") PROVE e = HighEscape
  <2>1. \E h \in Hex : UnitOf[h] = "high" /\ e = <<"backslash", "u", h>>
    BY <1>1, EscapesAre
  <2> QED
    BY <1>2, <2>1, Zenon DEF HighEscape
<1>7. ASSUME NEW e \in Escapes("low") PROVE e = LowEscape
  <2>1. \E h \in Hex : UnitOf[h] = "low" /\ e = <<"backslash", "u", h>>
    BY <1>1, EscapesAre
  <2> QED
    BY <1>2, <2>1, Zenon DEF LowEscape
<1> QED
  BY <1>3, <1>5, <1>6, <1>7

\* An escape e that turns the rest z, of text w, into a longer rest of text r \o w.
Turns(e, r, z, w) ==
  e \in Seq(Symbols) /\ r \in Seq(Runes) /\ e \o z \in Seq(Symbols) /\ Decodes(e \o z, r \o w)

\* A literal that is followed by an escape.
LEMMA WritesThen ==
  ASSUME NEW l, NEW t \in Seq(Runes), NEW u, Writes(l, t, u),
         NEW e, NEW r, NEW z \in Seq(Symbols), NEW w \in Seq(Runes), Turns(e, r, z, w),
         u = "high" => ~StartsLow(e \o z)
  PROVE  Reads(l \o e, z, (t \o r) \o w)
<1>1. e \in Seq(Symbols) /\ r \in Seq(Runes) /\ e \o z \in Seq(Symbols) /\ Decodes(e \o z, r \o w)
  BY DEF Turns
<1>2. r \o w \in Seq(Runes)
  BY <1>1, RunesConcat
<1>3. PICK y \in Seq(Symbols) : l = <<"quote">> \o y /\ Decodes(y \o (e \o z), t \o (r \o w))
  BY <1>1, <1>2, Zenon DEF Writes, Reads
<1>4. t \o (r \o w) = (t \o r) \o w
  BY <1>1, RunesConcat
<1>5. y \o (e \o z) = (y \o e) \o z /\ y \o e \in Seq(Symbols)
  BY <1>1, <1>3, SymbolsConcat
<1> DEFINE q == <<"quote">>
<1>6. q \in Seq(Symbols)
  <2>1. "quote" \in Symbols
    BY DEF Symbols
  <2> QED
    BY <2>1
<1>7. l \o e = (q \o y) \o e
  BY <1>3
<1> HIDE DEF q
<1>8. (q \o y) \o e = q \o (y \o e)
  BY <1>1, <1>3, <1>6, SymbolsConcat
<1>9. l \o e = <<"quote">> \o (y \o e)
  BY <1>7, <1>8 DEF q
<1>10. Decodes((y \o e) \o z, (t \o r) \o w)
  BY <1>3, <1>4, <1>5
<1> QED
  BY <1>5, <1>9, <1>10, Zenon DEF Reads

\* A literal that grows by a unit that is not the second half of a pair.
LEMMA WritesUnit ==
  ASSUME NEW l, NEW t \in Seq(Runes), NEW p, Writes(l, t, p),
         NEW u \in Units, NEW e \in Escapes(u), ~(p = "high" /\ u = "low")
  PROVE  Writes(l \o e, t \o <<RuneOf(u)>>, u)
<1> DEFINE r == <<RuneOf(u)>>
<1> SUFFICES ASSUME NEW z \in Seq(Symbols), NEW w \in Seq(Runes),
                    Decodes(z, w), u = "high" => ~StartsLow(z)
             PROVE  Reads(l \o e, z, (t \o r) \o w)
  BY Zenon DEF Writes
<1>1. r \in Seq(Runes)
  <2>1. RuneOf(u) \in Runes
    BY DEF RuneOf, Units, Runes, Symbols
  <2> QED
    BY <2>1
<1>2. Decodes(e \o z, r \o w)
  BY EscapeDecodes
<1>3. e \in Seq(Symbols) /\ e \o z \in Seq(Symbols)
  BY <1>2, EscapeSymbols DEF Decodes
<1>4. p = "high" => ~StartsLow(e \o z)
  BY OnlyLowStartsLow
<1> HIDE DEF r
<1>5. Turns(e, r, z, w)
  BY <1>1, <1>2, <1>3 DEF Turns
<1> QED
  BY <1>4, <1>5, WritesThen

\* A literal that grows by the second half of a pair.
LEMMA WritesPair ==
  ASSUME NEW x \in Seq(Symbols), NEW s \in Seq(Runes), NEW p, Writes(x, s, p)
  PROVE  Writes((x \o HighEscape) \o LowEscape, s \o <<"pair">>, "low")
<1> DEFINE r == <<"pair">>
           l == (x \o HighEscape) \o LowEscape
           e == HighEscape \o LowEscape
<1>1. HighEscape \in Seq(Symbols) /\ LowEscape \in Seq(Symbols) /\ HighEscape \in Escapes("high")
  BY SurrogateEscapes
<1>2. l = x \o e /\ e \in Seq(Symbols)
  BY <1>1, SymbolsConcat
<1>3. r \in Seq(Runes)
  <2>1. "pair" \in Runes
    BY DEF Runes, Symbols
  <2> QED
    BY <2>1
<1> HIDE DEF l
<1> SUFFICES ASSUME NEW z \in Seq(Symbols), NEW w \in Seq(Runes), Decodes(z, w)
             PROVE  Reads(l, z, (s \o r) \o w)
  BY Zenon DEF Writes, l
<1>4. HighEscape \o (LowEscape \o z) = e \o z /\ LowEscape \o z \in Seq(Symbols)
  <2> DEFINE g == HighEscape
             h == LowEscape
  <2>1. g \in Seq(Symbols) /\ h \in Seq(Symbols)
    BY <1>1
  <2> HIDE DEF g, h
  <2>2. (g \o h) \o z = g \o (h \o z)
    BY <2>1, SymbolsAssociate
  <2>3. h \o z \in Seq(Symbols)
    BY <2>1, SymbolsConcat
  <2> QED
    BY <2>2, <2>3 DEF g, h
<1>5. Decodes(e \o z, r \o w)
  BY <1>4, PairDecodes
<1>6. ~StartsLow(e \o z)
  <2>1. "high" \in Units
    BY DEF Units
  <2>2. ~StartsLow(HighEscape \o (LowEscape \o z))
    BY <1>1, <1>4, <2>1, OnlyLowStartsLow
  <2> QED
    BY <1>4, <2>2
<1> HIDE DEF r, e
<1>7. Turns(e, r, z, w)
  BY <1>2, <1>3, <1>5 DEF Turns, Decodes
<1> QED
  BY <1>2, <1>6, <1>7, WritesThen

\* The unit at i is the first half of a pair.
InPair(units, i) == SymbolAt(units, i) = "high" /\ SymbolAt(units, i + 1) = "low"

\* Each unit begins a pair, ends one, or stands on its own.
LEMMA UnitCases ==
  ASSUME NEW units \in Seq(Units), NEW i \in 1..Len(units)
  PROVE  /\ SymbolAt(units, i) = units[i]
         /\ \/ /\ InPair(units, i) /\ ~InPair(units, i - 1) /\ units[i] = "high"
               /\ Utf8At(units, i) = <<"pair">>
            \/ /\ ~InPair(units, i) /\ InPair(units, i - 1) /\ units[i] = "low"
               /\ Utf8At(units, i) = <<>>
            \/ /\ ~InPair(units, i) /\ ~InPair(units, i - 1)
               /\ ~(SymbolAt(units, i - 1) = "high" /\ units[i] = "low")
               /\ Utf8At(units, i) = <<RuneOf(units[i])>>
<1>1. SymbolAt(units, i) = units[i]
  <2>1. i \in DOMAIN units
    OBVIOUS
  <2> QED
    BY <2>1, Zenon DEF SymbolAt
<1>2. i - 1 + 1 = i
  OBVIOUS
<1>3. InPair(units, i - 1) <=> SymbolAt(units, i - 1) = "high" /\ units[i] = "low"
  BY <1>1, <1>2 DEF InPair
<1>4. InPair(units, i) <=> units[i] = "high" /\ SymbolAt(units, i + 1) = "low"
  BY <1>1 DEF InPair
<1>5. CASE InPair(units, i)
  <2>1. Utf8At(units, i) = <<"pair">>
    BY <1>4, <1>5, Zenon DEF Utf8At
  <2> QED
    BY <1>1, <1>3, <1>4, <1>5, <2>1
<1>6. CASE ~InPair(units, i) /\ InPair(units, i - 1)
  <2>1. Utf8At(units, i) = <<>>
    BY <1>3, <1>4, <1>6, Zenon DEF Utf8At
  <2> QED
    BY <1>1, <1>3, <1>6, <2>1
<1>7. CASE ~InPair(units, i) /\ ~InPair(units, i - 1)
  <2>1. Utf8At(units, i) = <<RuneOf(units[i])>>
    BY <1>3, <1>4, <1>7, Zenon DEF Utf8At, RuneOf
  <2> QED
    BY <1>1, <1>3, <1>7, <2>1, Zenon
<1> QED
  BY <1>5, <1>6, <1>7

\* What a literal of the first i units stands for.
Written(units, i, l, t) ==
  IF InPair(units, i) THEN WritesHigh(l, t) ELSE Writes(l, t, SymbolAt(units, i))

\* A literal that grows by a unit stands for the text that does.
LEMMA WrittenStep ==
  ASSUME NEW units \in Seq(Units), NEW i \in 1..Len(units),
         NEW l \in Seq(Symbols), NEW t \in Seq(Runes), Written(units, i - 1, l, t),
         NEW e \in Escapes(units[i])
  PROVE  Written(units, i, l \o e, t \o Utf8At(units, i))
<1> DEFINE u == units[i]
           p == SymbolAt(units, i - 1)
<1>1. u \in Units /\ SymbolAt(units, i) = u
  BY UnitCases
<1>2. CASE InPair(units, i) /\ ~InPair(units, i - 1) /\ u = "high" /\ Utf8At(units, i) = <<"pair">>
  <2>1. Writes(l, t, p)
    BY <1>2 DEF Written
  <2>2. e = HighEscape
    BY <1>2, SurrogateEscapes
  <2>3. WritesHigh(l \o e, t \o Utf8At(units, i))
    BY <1>2, <2>1, <2>2, Zenon DEF WritesHigh
  <2> QED
    BY <1>2, <2>3 DEF Written
<1>3. CASE ~InPair(units, i) /\ InPair(units, i - 1) /\ u = "low" /\ Utf8At(units, i) = <<>>
  <2>1. WritesHigh(l, t)
    BY <1>3 DEF Written
  <2>2. PICK x \in Seq(Symbols), s \in Seq(Runes) : \E v :
          l = x \o HighEscape /\ t = s \o <<"pair">> /\ Writes(x, s, v)
    BY <2>1, Zenon DEF WritesHigh
  <2>3. e = LowEscape
    BY <1>3, SurrogateEscapes
  <2>4. Writes(l \o e, t, "low")
    BY <2>2, <2>3, WritesPair
  <2>5. t \o <<>> = t
    OBVIOUS
  <2> QED
    BY <1>1, <1>3, <2>4, <2>5 DEF Written
<1>4. CASE /\ ~InPair(units, i) /\ ~InPair(units, i - 1) /\ ~(p = "high" /\ u = "low")
           /\ Utf8At(units, i) = <<RuneOf(u)>>
  <2>1. Writes(l, t, p)
    BY <1>4 DEF Written
  <2> HIDE DEF p, u
  <2>2. e \in Escapes(u)
    BY DEF u
  <2>3. Writes(l \o e, t \o <<RuneOf(u)>>, u)
    BY <1>1, <1>4, <2>1, <2>2, WritesUnit
  <2> QED
    BY <1>1, <1>4, <2>3 DEF Written
<1> QED
  BY <1>2, <1>3, <1>4, UnitCases

\* Every literal so far stands for the text so far.
LEMMA LiteralsStandFor ==
  ASSUME NEW units \in Seq(Units)
  PROVE  \A i \in 0..Len(units) :
           \A l \in LiteralsUpTo(units)[i] : Written(units, i, l, Utf8UpTo(units)[i])
<1> DEFINE L == Len(units)
           A == LiteralsUpTo(units)
           T == Utf8UpTo(units)
           S == {i \in 0..L : \A l \in A[i] : Written(units, i, l, T[i])}
<1>1. L \in Nat
  OBVIOUS
<1>2. /\ A[0] = {<<"quote">>} /\ \A i \in 1..L : A[i] = Extended(A[i - 1], units[i])
      /\ \A i \in 0..L : A[i] \subseteq Seq(Symbols)
  BY LiteralsUpToIs
<1>3. /\ T[0] = <<>> /\ \A i \in 1..L : T[i] = T[i - 1] \o Utf8At(units, i)
      /\ \A i \in 0..L : T[i] \in Seq(Runes)
  BY Utf8UpToIs
<1> HIDE DEF A, T
<1>4. 0 \in S
  <2>1. ~InPair(units, 0)
    <3>1. 0 \notin DOMAIN units
      OBVIOUS
    <3>2. SymbolAt(units, 0) = "end"
      BY <3>1, Zenon DEF SymbolAt
    <3> QED
      BY <3>2 DEF InPair
  <2> DEFINE q == <<"quote">>
  <2>2. ASSUME NEW z \in Seq(Symbols), NEW w \in Seq(Runes), Decodes(z, w)
        PROVE  Reads(q, z, <<>> \o w)
    <3>1. <<>> \o z = z /\ <<>> \o w = w /\ q = <<"quote">> \o <<>> /\ <<>> \in Seq(Symbols)
      OBVIOUS
    <3> HIDE DEF q
    <3>2. Decodes(<<>> \o z, <<>> \o w)
      BY <2>2, <3>1
    <3> QED
      BY <3>1, <3>2, Zenon DEF Reads
  <2>3. Writes(q, <<>>, SymbolAt(units, 0))
    BY <2>2, Zenon DEF Writes
  <2> HIDE DEF q
  <2>4. Written(units, 0, q, <<>>)
    BY <2>1, <2>3 DEF Written
  <2>5. 0 \in 0..L
    BY <1>1
  <2> QED
    BY <1>2, <1>3, <2>4, <2>5, Zenon DEF q
<1>5. ASSUME NEW i \in 1..L, i - 1 \in S PROVE i \in S
  <2>1. i \in 0..L /\ i - 1 \in 0..L
    BY <1>1
  <2>2. ASSUME NEW y \in A[i] PROVE Written(units, i, y, T[i])
    <3>1. PICK l \in A[i - 1], e \in Escapes(units[i]) : y = l \o e
      <4> DEFINE X == A[i - 1]
                 u == units[i]
      <4>1. y \in Extended(X, u)
        BY <1>2, <2>2, Zenon
      <4> HIDE DEF X, u
      <4>2. \E l \in X, e \in Escapes(u) : y = l \o e
        BY <4>1, ExtendedIs
      <4> QED
        BY <4>2, Zenon DEF X, u
    <3>2. l \in Seq(Symbols) /\ T[i - 1] \in Seq(Runes)
      BY <1>2, <1>3, <2>1, <3>1, Zenon
    <3>3. Written(units, i - 1, l, T[i - 1])
      BY <1>5, <3>1, Zenon
    <3>4. Written(units, i, l \o e, T[i - 1] \o Utf8At(units, i))
      BY <3>1, <3>2, <3>3, WrittenStep
    <3> QED
      BY <1>3, <3>1, <3>4
  <2> QED
    BY <2>1, <2>2, Zenon
<1>6. \A i \in 0..L : i \in S
  <2> HIDE DEF S, L
  <2>1. \A i \in 1..L : i - 1 \in S => i \in S
    BY <1>5
  <2> QED
    BY <1>1, <1>4, <2>1, Induct, Zenon
<1> QED
  BY <1>6, Zenon DEF A, T, L, S

\* The last unit does not begin a pair: the whole literal is decoded to the text.
LEMMA LiteralDecodes ==
  ASSUME NEW units \in Seq(Units), NEW l \in LiteralsUpTo(units)[Len(units)]
  PROVE  Reads(l, <<>>, Utf8(units))
<1> DEFINE L == Len(units)
           t == Utf8UpTo(units)[L]
<1>1. L \in 0..L /\ L + 1 \notin DOMAIN units
  OBVIOUS
<1>2. SymbolAt(units, L + 1) = "end"
  BY <1>1, Zenon DEF SymbolAt
<1>3. ~InPair(units, L)
  BY <1>2 DEF InPair
<1>4. Written(units, L, l, t)
  BY <1>1, LiteralsStandFor
<1>5. t \in Seq(Runes)
  BY <1>1, Utf8UpToIs
<1> HIDE DEF t
<1>6. Writes(l, t, SymbolAt(units, L))
  BY <1>3, <1>4 DEF Written
<1>7. <<>> \in Seq(Symbols) /\ <<>> \in Seq(Runes) /\ t \o <<>> = t
  BY <1>5
<1>8. ~StartsLow(<<>>)
  <2>1. 1 \notin DOMAIN <<>>
    OBVIOUS
  <2>2. SymbolAt(<<>>, 1) = "end"
    BY <2>1, Zenon DEF SymbolAt
  <2> QED
    BY <2>2 DEF StartsLow
<1>9. Reads(l, <<>>, t \o <<>>)
  BY <1>6, <1>7, <1>8, DecodesEmpty, Zenon DEF Writes
<1> QED
  BY <1>7, <1>9 DEF t, Utf8

\* UnquoteJSONString gives back the text that JSON.stringify was given, in whatever
\* form it wrote each code unit, with U+FFFD for a surrogate that has no partner: what
\* the client hashes is what the hub hashes.
THEOREM UnquoteInverts ==
  ASSUME NEW units \in Seq(Units), NEW literal \in Literals(units)
  PROVE  UnquoteJSONString(literal) = [ok |-> TRUE, out |-> Utf8(units)]
<1>1. PICK l \in LiteralsUpTo(units)[Len(units)] : literal = Append(l, "quote")
  BY Zenon DEF Literals
<1>2. PICK y \in Seq(Symbols) : l = <<"quote">> \o y /\ Decodes(y \o <<>>, Utf8(units))
  BY <1>1, LiteralDecodes DEF Reads
<1>3. y \o <<>> = y
  BY <1>2
<1>4. Unquoted(y)[Len(y)] = [ok |-> TRUE, out |-> Utf8(units)]
  BY <1>2, <1>3 DEF Decodes
<1> DEFINE n == Len(literal)
<1>5. /\ literal \in Seq(Symbols) /\ n = Len(y) + 2 /\ Len(y) \in Nat /\ literal[1] = "quote"
      /\ literal[n] = "quote" /\ SubSeq(literal, 2, n - 1) = y
  <2>1. "quote" \in Symbols
    BY DEF Symbols
  <2>2. l \in Seq(Symbols) /\ Len(l) = 1 + Len(y) /\ l[1] = "quote" /\ \A k \in 1..Len(y) : l[1 + k] = y[k]
    BY <1>2, <2>1
  <2>3. /\ literal \in Seq(Symbols) /\ n = Len(l) + 1 /\ literal[n] = "quote"
        /\ \A k \in 1..Len(l) : literal[k] = l[k]
    BY <1>1, <2>1, <2>2
  <2>4. Len(y) \in Nat
    OBVIOUS
  <2>5. n = Len(y) + 2 /\ literal[1] = "quote" /\ n - 1 = Len(y) + 1
    BY <2>2, <2>3, <2>4
  <2>6. \A k \in 1..Len(y) : literal[1 + k] = y[k]
    BY <2>2, <2>3, <2>4
  <2> HIDE DEF n
  <2> DEFINE in == SubSeq(literal, 2, n - 1)
  <2>7. in \in Seq(Symbols) /\ Len(in) = Len(y) /\ \A k \in 1..Len(y) : in[k] = literal[1 + k]
    BY <2>3, <2>4, <2>5 DEF n
  <2> HIDE DEF in
  <2>8. in = y
    BY <2>6, <2>7
  <2> QED
    BY <2>3, <2>4, <2>5, <2>8 DEF in
<1> HIDE DEF n
<1>6. ~(n < 2) /\ n - 2 = Len(y)
  BY <1>5
<1>7. UnquoteJSONString(literal) = Unquoted(y)[n - 2]
  BY <1>5, <1>6, Zenon DEF UnquoteJSONString, n
<1> QED
  BY <1>4, <1>6, <1>7

-----------------------------------------------------------------------------
(* The limit on a literal.                                                 *)

\* No form of a code unit takes more than six bytes.
LEMMA EscapeBytes ==
  ASSUME NEW u \in Units, NEW e \in Escapes(u)
  PROVE  Bytes(e, SymbolBytes) \in Nat /\ Bytes(e, SymbolBytes) <= 6
<1> DEFINE B(s) == Bytes(s, SymbolBytes)
<1>1. /\ SymbolBytes \in [Symbols -> Nat] /\ \A x \in Symbols : SymbolBytes[x] \in {1, 4}
      /\ "backslash" \in Symbols /\ "n" \in Symbols /\ "u" \in Symbols /\ Hex \subseteq Symbols
      /\ (u \notin {"high", "low"} => u \in Symbols)
  BY SymbolSizes DEF Symbols, Units
<1>2. /\ SymbolBytes["backslash"] = 1 /\ SymbolBytes["u"] = 1
      /\ \A h \in Hex : SymbolBytes[h] = 4
  BY <1>1 DEF SymbolBytes, Hex
<1>3. ASSUME NEW x \in Symbols PROVE <<x>> \in Seq(Symbols) /\ B(<<x>>) = SymbolBytes[x]
  <2>1. <<x>> \in Seq(Symbols)
    OBVIOUS
  <2> QED
    BY <1>1, <2>1, BytesOfOne
<1>4. ASSUME NEW s \in Seq(Symbols), NEW t \in Seq(Symbols) PROVE B(s \o t) = B(s) + B(t)
  BY <1>1, BytesConcat
<1> DEFINE b == <<"backslash">>
           v == <<"u">>
<1>5. b \in Seq(Symbols) /\ B(b) = 1 /\ v \in Seq(Symbols) /\ B(v) = 1
  BY <1>1, <1>2, <1>3
<1> HIDE DEF B
<1>6. CASE u \in {"a", "pair"} /\ e = <<u>>
  BY <1>1, <1>3, <1>6 DEF B
<1>7. CASE \E x \in Symbols : e = <<"backslash", x>>
  <2>1. PICK x \in Symbols : e = <<"backslash", x>>
    BY <1>7
  <2> DEFINE c == <<x>>
  <2>2. e = b \o c
    BY <2>1
  <2>3. c \in Seq(Symbols) /\ B(c) \in {1, 4}
    BY <1>1, <1>3
  <2> HIDE DEF b, c
  <2>4. B(b \o c) = B(b) + B(c)
    BY <1>4, <1>5, <2>3
  <2> QED
    BY <1>5, <2>2, <2>3, <2>4 DEF B
<1>8. CASE \E h \in Hex : e = <<"backslash", "u", h>>
  <2>1. PICK h \in Hex : e = <<"backslash", "u", h>>
    BY <1>8
  <2> DEFINE c == <<h>>
  <2>2. e = b \o (v \o c)
    BY <2>1
  <2>3. c \in Seq(Symbols) /\ B(c) = 4
    BY <1>1, <1>2, <1>3
  <2> HIDE DEF b, c, v
  <2>4. v \o c \in Seq(Symbols)
    BY <1>5, <2>3, SymbolsConcat
  <2>5. B(b \o (v \o c)) = B(b) + B(v \o c) /\ B(v \o c) = B(v) + B(c)
    BY <1>4, <1>5, <2>3, <2>4
  <2> QED
    BY <1>5, <2>2, <2>3, <2>5 DEF B
<1> QED
  BY <1>1, <1>6, <1>7, <1>8, EscapesAre

\* How long a literal of the first i units may be when their text has n bytes. The
\* four bytes of a pair are in the text before the second half is in the literal.
Within(units, i, b, n) == b + (IF InPair(units, i) THEN 6 ELSE 0) <= 1 + 6 * n

\* A unit keeps to it.
LEMMA WithinStep ==
  ASSUME NEW units \in Seq(Units), NEW i \in 1..Len(units), NEW b \in Nat, NEW n \in Nat,
         Within(units, i - 1, b, n), NEW c \in Nat, c <= 6
  PROVE  /\ Bytes(Utf8At(units, i), UnitBytes) \in Nat
         /\ Within(units, i, b + c, n + Bytes(Utf8At(units, i), UnitBytes))
<1> DEFINE d == Bytes(Utf8At(units, i), UnitBytes)
           r == RuneOf(units[i])
<1>1. /\ UnitBytes \in [Runes -> Nat] /\ "pair" \in Runes /\ UnitBytes["pair"] = 4
      /\ \A x \in Runes : UnitBytes[x] >= 1
  <2>1. "pair" \in Runes /\ UnitBytes["pair"] = 4
    BY DEF UnitBytes, SymbolBytes, Runes, Symbols, Hex
  <2> QED
    BY <2>1, RuneSizes
<1>2. r \in Runes
  <2>1. units[i] \in Units
    OBVIOUS
  <2> QED
    BY <2>1 DEF RuneOf, Units, Runes, Symbols
<1> HIDE DEF r
<1>3. CASE /\ InPair(units, i) /\ ~InPair(units, i - 1) /\ Utf8At(units, i) = <<"pair">>
  <2>1. d = 4
    BY <1>1, <1>3, BytesOfOne
  <2> HIDE DEF d
  <2> QED
    BY <1>3, <2>1 DEF Within, d
<1>4. CASE ~InPair(units, i) /\ InPair(units, i - 1) /\ Utf8At(units, i) = <<>>
  <2>1. Bytes(<<>>, UnitBytes) = 0
    BY <1>1, BytesOfNone
  <2>2. d = 0
    BY <1>4, <2>1
  <2> HIDE DEF d
  <2> QED
    BY <1>4, <2>2 DEF Within, d
<1>5. CASE ~InPair(units, i) /\ ~InPair(units, i - 1) /\ Utf8At(units, i) = <<r>>
  <2>1. d = UnitBytes[r]
    BY <1>1, <1>2, <1>5, BytesOfOne
  <2>2. d \in Nat /\ d >= 1
    BY <1>1, <1>2, <2>1
  <2> HIDE DEF d
  <2> QED
    BY <1>5, <2>2 DEF Within, d
<1> QED
  BY <1>3, <1>4, <1>5, UnitCases DEF r

\* Every literal so far is within six times the bytes of the text so far.
LEMMA LiteralsWithin ==
  ASSUME NEW units \in Seq(Units)
  PROVE  \A i \in 0..Len(units) :
           /\ Bytes(Utf8UpTo(units)[i], UnitBytes) \in Nat
           /\ \A l \in LiteralsUpTo(units)[i] :
                /\ Bytes(l, SymbolBytes) \in Nat
                /\ Within(units, i, Bytes(l, SymbolBytes), Bytes(Utf8UpTo(units)[i], UnitBytes))
<1> DEFINE L == Len(units)
           A == LiteralsUpTo(units)
           T == Utf8UpTo(units)
           B(l) == Bytes(l, SymbolBytes)
           N(t) == Bytes(t, UnitBytes)
           S == {i \in 0..L : \A l \in A[i] : Within(units, i, B(l), N(T[i]))}
<1>1. L \in Nat
  OBVIOUS
<1>2. /\ A[0] = {<<"quote">>} /\ \A i \in 1..L : A[i] = Extended(A[i - 1], units[i])
      /\ \A i \in 0..L : A[i] \subseteq Seq(Symbols)
  BY LiteralsUpToIs
<1>3. /\ T[0] = <<>> /\ \A i \in 1..L : T[i] = T[i - 1] \o Utf8At(units, i)
      /\ \A i \in 1..L : Utf8At(units, i) \in Seq(Runes)
      /\ \A i \in 0..L : T[i] \in Seq(Runes)
  BY Utf8UpToIs
<1>4. SymbolBytes \in [Symbols -> Nat] /\ UnitBytes \in [Runes -> Nat]
  BY SymbolSizes, RuneSizes
<1>5. ASSUME NEW s \in Seq(Symbols), NEW t \in Seq(Symbols)
      PROVE  B(s) \in Nat /\ B(s \o t) = B(s) + B(t)
  BY <1>4, BytesConcat, BytesUpToIs
<1>6. ASSUME NEW s \in Seq(Runes), NEW t \in Seq(Runes)
      PROVE  N(s) \in Nat /\ N(s \o t) = N(s) + N(t)
  BY <1>4, BytesConcat, BytesUpToIs
<1>7. B(<<"quote">>) = 1 /\ N(<<>>) = 0
  <2>1. "quote" \in Symbols /\ SymbolBytes["quote"] = 1
    BY DEF Symbols, SymbolBytes, Hex
  <2> QED
    BY <1>4, <2>1, BytesOfOne, BytesOfNone
<1>8. \A i \in 0..L : N(T[i]) \in Nat
  BY <1>3, <1>6
<1>9. \A i \in 0..L : \A l \in A[i] : B(l) \in Nat
  BY <1>2, <1>5
<1> HIDE DEF A, T, B, N
<1>10. 0 \in S
  <2>1. ~InPair(units, 0)
    <3>1. 0 \notin DOMAIN units
      OBVIOUS
    <3>2. SymbolAt(units, 0) = "end"
      BY <3>1, Zenon DEF SymbolAt
    <3> QED
      BY <3>2 DEF InPair
  <2>2. Within(units, 0, 1, 0)
    BY <2>1 DEF Within
  <2>3. 0 \in 0..L
    BY <1>1
  <2> QED
    BY <1>2, <1>3, <1>7, <2>2, <2>3, Zenon
<1>11. ASSUME NEW i \in 1..L, i - 1 \in S PROVE i \in S
  <2>1. i \in 0..L /\ i - 1 \in 0..L
    BY <1>1
  <2>2. ASSUME NEW y \in A[i] PROVE Within(units, i, B(y), N(T[i]))
    <3>1. PICK l \in A[i - 1], e \in Escapes(units[i]) : y = l \o e
      <4> DEFINE X == A[i - 1]
                 u == units[i]
      <4>1. y \in Extended(X, u)
        BY <1>2, <2>2, Zenon
      <4> HIDE DEF X, u
      <4>2. \E l \in X, e \in Escapes(u) : y = l \o e
        BY <4>1, ExtendedIs
      <4> QED
        BY <4>2, Zenon DEF X, u
    <3>2. l \in Seq(Symbols) /\ T[i - 1] \in Seq(Runes) /\ Utf8At(units, i) \in Seq(Runes)
      BY <1>2, <1>3, <2>1, <3>1, Zenon
    <3>3. units[i] \in Units
      OBVIOUS
    <3>4. e \in Seq(Symbols) /\ B(e) \in Nat /\ B(e) <= 6
      BY <3>1, <3>3, EscapeSymbols, EscapeBytes DEF B
    <3>5. B(l) \in Nat /\ N(T[i - 1]) \in Nat /\ Within(units, i - 1, B(l), N(T[i - 1]))
      BY <1>8, <1>9, <1>11, <2>1, <3>1, Zenon
    <3>6. Within(units, i, B(l) + B(e), N(T[i - 1]) + N(Utf8At(units, i)))
      BY <3>4, <3>5, WithinStep DEF N
    <3>7. B(y) = B(l) + B(e)
      BY <1>5, <3>1, <3>2, <3>4
    <3>8. N(T[i]) = N(T[i - 1]) + N(Utf8At(units, i))
      BY <1>3, <1>6, <3>2
    <3> QED
      BY <3>6, <3>7, <3>8
  <2> QED
    BY <2>1, <2>2, Zenon
<1>12. \A i \in 0..L : i \in S
  <2> HIDE DEF S, L
  <2>1. \A i \in 1..L : i - 1 \in S => i \in S
    BY <1>11
  <2> QED
    BY <1>1, <1>10, <2>1, Induct, Zenon
<1> QED
  BY <1>8, <1>9, <1>12, Zenon DEF A, T, L, S, B, N

\* A literal is at most six times as long as its text, and two quotes: the limit on
\* the literal, which is checked before the body is decoded, never refuses a body that
\* the limit on the text allows.
THEOREM LiteralFits ==
  ASSUME NEW units \in Seq(Units), NEW literal \in Literals(units)
  PROVE  Bytes(literal, SymbolBytes) <= 6 * Bytes(Utf8(units), UnitBytes) + 2
<1> DEFINE L == Len(units)
           n == Bytes(Utf8(units), UnitBytes)
<1>1. PICK l \in LiteralsUpTo(units)[L] : literal = Append(l, "quote")
  BY Zenon DEF Literals
<1>2. L \in 0..L
  OBVIOUS
<1> DEFINE b == Bytes(l, SymbolBytes)
<1>3. n \in Nat /\ b \in Nat /\ Within(units, L, b, n)
  BY <1>1, <1>2, LiteralsWithin DEF Utf8
<1>4. l \in Seq(Symbols)
  BY <1>1, <1>2, LiteralsUpToIs
<1>5. SymbolBytes \in [Symbols -> Nat] /\ "quote" \in Symbols /\ SymbolBytes["quote"] = 1
  BY SymbolSizes DEF Symbols, SymbolBytes, Hex
<1> DEFINE q == <<"quote">>
<1>6. q \in Seq(Symbols) /\ literal = l \o q
  BY <1>1, <1>4, <1>5
<1>7. Bytes(q, SymbolBytes) = 1
  BY <1>5, BytesOfOne
<1> HIDE DEF q
<1>8. Bytes(literal, SymbolBytes) = b + 1
  BY <1>4, <1>5, <1>6, <1>7, BytesConcat
<1> HIDE DEF b, n
<1>9. b <= 1 + 6 * n
  BY <1>3 DEF Within
<1>10. b + 1 <= 6 * n + 2
  BY <1>3, <1>9
<1> QED
  BY <1>8, <1>10 DEF n

-----------------------------------------------------------------------------
(* What conforming clients send.                                           *)

\* One plain character is a text of one byte.
LEMMA PlainText ==
  ASSUME NEW t, t = <<"a">>
  PROVE  t \in Seq(Units) /\ Bytes(Utf8(t), UnitBytes) <= MaxBodyBytes
<1>1. t \in Seq(Units) /\ Len(t) = 1 /\ t[1] = "a"
  <2>1. "a" \in Units
    BY DEF Units
  <2> QED
    BY <2>1
<1>2. Utf8At(t, 1) = <<"a">>
  BY <1>1, Zenon DEF Utf8At
<1>3. Utf8UpTo(t)[1] = <<>> \o <<"a">>
  <2>1. 1 \in 1..Len(t) /\ 1 - 1 = 0
    BY <1>1
  <2>2. Utf8UpTo(t)[1] = Utf8UpTo(t)[0] \o Utf8At(t, 1) /\ Utf8UpTo(t)[0] = <<>>
    BY <1>1, <2>1, Utf8UpToIs
  <2> QED
    BY <1>2, <2>2
<1>4. Utf8(t) = <<"a">>
  <2>1. <<>> \o <<"a">> = <<"a">>
    OBVIOUS
  <2> QED
    BY <1>1, <1>3, <2>1 DEF Utf8
<1>5. "a" \in Runes /\ UnitBytes \in [Runes -> Nat] /\ UnitBytes["a"] = 1
  BY RuneSizes
<1>6. Bytes(<<"a">>, UnitBytes) = 1
  BY <1>5, BytesOfOne
<1> QED
  BY <1>1, <1>4, <1>6, WireAssumption

\* The ops a client makes: a text that fits, any literal for it, a revision that fits.
FromClient(op) ==
  \E units \in Seq(Units), rev \in 1..MaxUint64 :
    /\ Bytes(Utf8(units), UnitBytes) <= MaxBodyBytes
    /\ \E literal \in Literals(units) : op = ClientOp(units, literal, rev)

\* Every op in Conforming is one.
LEMMA ConformingIs ==
  ASSUME NEW op \in Conforming
  PROVE  FromClient(op)
<1>1. PICK t, rev : /\ (t \in Texts /\ rev = 1) \/ (t = <<"a">> /\ rev \in Revs)
                    /\ op \in {ClientOp(t, l, rev) : l \in Literals(t)}
  BY Zenon DEF Conforming
<1>2. t \in Seq(Units) /\ Bytes(Utf8(t), UnitBytes) <= MaxBodyBytes
  BY <1>1, PlainText, RelayAssumption
<1>3. rev \in 1..MaxUint64
  <2>1. rev = 1 \/ rev \in Revs
    BY <1>1, Zenon
  <2>2. 1 \in 1..MaxUint64
    BY WireAssumption
  <2> QED
    BY <2>1, <2>2, RelayAssumption, Zenon
<1>4. PICK literal \in Literals(t) : op = ClientOp(t, literal, rev)
  BY <1>1, Zenon
<1> QED
  BY <1>2, <1>3, <1>4, Zenon DEF FromClient

\* A literal is a sequence of symbols.
LEMMA LiteralSymbols ==
  ASSUME NEW units \in Seq(Units), NEW literal \in Literals(units)
  PROVE  literal \in Seq(Symbols)
<1>1. PICK l \in LiteralsUpTo(units)[Len(units)] : literal = Append(l, "quote")
  BY Zenon DEF Literals
<1>2. Len(units) \in 0..Len(units)
  OBVIOUS
<1>3. l \in Seq(Symbols)
  BY <1>1, <1>2, LiteralsUpToIs
<1>4. "quote" \in Symbols
  BY DEF Symbols
<1> QED
  BY <1>1, <1>3, <1>4

\* So is that of whatever is sent.
LEMMA LiteralsAreSymbols ==
  ASSUME NEW op \in Conforming \cup Junk
  PROVE  op.literal \in Seq(Symbols)
<1>1. CASE op \in Conforming
  <2>1. PICK units \in Seq(Units), rev \in 1..MaxUint64 :
          \E literal \in Literals(units) : op = ClientOp(units, literal, rev)
    BY <1>1, ConformingIs, Zenon DEF FromClient
  <2>2. PICK literal \in Literals(units) : op = ClientOp(units, literal, rev)
    BY <2>1
  <2>3. op.literal = literal
    BY <2>2, Zenon DEF ClientOp
  <2> QED
    BY <2>2, <2>3, LiteralSymbols
<1>2. CASE op \in Junk
  BY <1>2, RelayAssumption
<1> QED
  BY <1>1, <1>2

\* A stored row has a size.
LEMMA RowSizeNat ==
  ASSUME NEW literal \in Seq(Symbols)
  PROVE  RowSize(literal) \in Nat
<1> DEFINE b == Bytes(literal, SymbolBytes)
<1>1. b \in Nat
  BY SymbolSizes, BytesUpToIs
<1> HIDE DEF b
<1>2. Grain \in Nat /\ Grain >= 1
  BY RelayAssumption
<1>3. b + Grain - 1 \in Nat
  BY <1>1, <1>2
<1>4. (b + Grain - 1) \div Grain \in Nat
  BY <1>2, <1>3
<1> QED
  BY <1>4 DEF RowSize, b

\* No check of ParseOp refuses an op that a client makes of a text that fits.
LEMMA ClientOpAccepted ==
  ASSUME NEW units \in Seq(Units), NEW literal \in Literals(units), NEW rev \in 1..MaxUint64,
         Bytes(Utf8(units), UnitBytes) <= MaxBodyBytes
  PROVE  ParseOp(ClientOp(units, literal, rev)) = "ok"
<1> DEFINE op == ClientOp(units, literal, rev)
           t == Utf8(units)
<1>1. /\ op.wrapper = TRUE /\ op.literal = literal /\ op.valid = TRUE /\ op.digest = t
      /\ op.fields = TRUE /\ op.kind = "observation" /\ op.id = "id" /\ op.dev = 1
      /\ op.rev = DecString(rev) /\ op.local = DecString(rev)
  BY Zenon DEF ClientOp
<1>2. UnquoteJSONString(literal) = [ok |-> TRUE, out |-> t]
  BY UnquoteInverts
<1> DEFINE text == UnquoteJSONString(literal)
<1>3. text.ok = TRUE /\ text.out = t
  BY <1>2
<1>4. SymbolAt(literal, 1) = "quote"
  <2>1. ~(Len(literal) < 2) /\ literal[1] = "quote"
    <3> SUFFICES ASSUME Len(literal) < 2 \/ literal[1] # "quote" PROVE FALSE
      OBVIOUS
    <3>1. text = NoText
      BY Zenon DEF UnquoteJSONString
    <3>2. NoText.ok = FALSE
      BY DEF NoText
    <3> HIDE DEF text
    <3> QED
      BY <1>3, <3>1, <3>2
  <2>2. literal \in Seq(Symbols)
    BY LiteralSymbols
  <2>3. 1 \in DOMAIN literal
    BY <2>1, <2>2
  <2> QED
    BY <2>1, <2>3, Zenon DEF SymbolAt
<1>5. ~(Bytes(literal, SymbolBytes) > MaxBodyLiteral)
  <2> DEFINE b == Bytes(literal, SymbolBytes)
             n == Bytes(t, UnitBytes)
  <2>1. b <= 6 * n + 2
    BY LiteralFits
  <2>2. b \in Nat
    BY LiteralSymbols, SymbolSizes, BytesUpToIs
  <2>3. n \in Nat
    <3>1. Len(units) \in 0..Len(units)
      OBVIOUS
    <3> QED
      BY <3>1, LiteralsWithin DEF Utf8
  <2> HIDE DEF b, n
  <2>4. n <= MaxBodyBytes /\ MaxBodyBytes \in Nat
    BY WireAssumption DEF n
  <2>5. ~(b > 6 * MaxBodyBytes + 2)
    BY <2>1, <2>2, <2>3, <2>4
  <2> QED
    BY <2>5 DEF b, MaxBodyLiteral
<1>6. ~(Bytes(t, UnitBytes) > MaxBodyBytes)
  <2> DEFINE n == Bytes(t, UnitBytes)
  <2>1. Len(units) \in 0..Len(units)
    OBVIOUS
  <2>2. n \in Nat
    BY <2>1, LiteralsWithin DEF Utf8
  <2>3. n <= MaxBodyBytes /\ MaxBodyBytes \in Nat
    BY WireAssumption
  <2> HIDE DEF n
  <2>4. ~(n > MaxBodyBytes)
    BY <2>2, <2>3
  <2> QED
    BY <2>4 DEF n
<1>7. ParseDec(op.rev) = rev /\ rev # Refused /\ rev # 0
  <2>1. rev \in Nat /\ rev <= MaxUint64 /\ rev # Refused /\ rev # 0
    BY WireAssumption DEF Refused
  <2>2. ParseDec(DecString(rev)) = rev
    BY <2>1, DecRoundTrip
  <2> QED
    BY <1>1, <2>1, <2>2
<1>8. ParseDecPositive(op.rev) # Refused /\ ParseDec(op.local) # Refused
  BY <1>1, <1>7, Zenon DEF ParseDecPositive
<1>9. op.dev \in 1..MaxDeviceIDLen
  BY <1>1, WireAssumption
<1>10. op.kind \in validKinds /\ op.id # ""
  BY <1>1 DEF validKinds
<1> HIDE DEF op, t, text
<1>11. parseBody(op) = "ok"
  BY <1>1, <1>8, <1>9, <1>10, Zenon DEF parseBody
<1>12. ParseOp(op) = parseBody(op)
  BY <1>1, <1>3, <1>4, <1>5, <1>6, Zenon DEF ParseOp, text
<1> QED
  BY <1>11, <1>12 DEF op

\* "this rejects only what the hub cannot store or route, never anything a conforming
\* client could legitimately produce", the comment on ParseOp in wrapper.go: no op of a
\* conforming client is refused, for texts of any length and literals in any form.
THEOREM ConformingAccepted ==
  ASSUME NEW op \in Conforming
  PROVE  ParseOp(op) = "ok"
<1>1. PICK units \in Seq(Units), rev \in 1..MaxUint64 :
        /\ Bytes(Utf8(units), UnitBytes) <= MaxBodyBytes
        /\ \E literal \in Literals(units) : op = ClientOp(units, literal, rev)
  BY ConformingIs, Zenon DEF FromClient
<1>2. PICK literal \in Literals(units) : op = ClientOp(units, literal, rev)
  BY <1>1
<1> QED
  BY <1>1, <1>2, ClientOpAccepted

-----------------------------------------------------------------------------
(* The relay.                                                              *)

\* The outbox holds what came up.
OutboxOK == outbox = NoOp \/ outbox \in Conforming \cup Junk

RInv == TypeOK /\ OutboxOK

\* The invariant holds at the start.
LEMMA RInvInit ==
  ASSUME RInit PROVE RInv
<1>1. <<>> \in Seq(Nat) /\ Len(<<>>) = 0
  OBVIOUS
<1> QED
  BY <1>1, PageAssumption DEF RInit, Init, RInv, TypeOK, OutboxOK

\* A stored op keeps it.
LEMMA HandlePushKeepsInv ==
  ASSUME RInv, HandlePush PROVE RInv'
<1> DEFINE size == RowSize(outbox.literal)
<1>1. size \in Nat
  BY LiteralsAreSymbols, RowSizeNat DEF RInv, OutboxOK, HandlePush
<1>2. Push(size) /\ outbox' = NoOp
  BY DEF HandlePush
<1> HIDE DEF size
<1>3. body \in Seq(Nat) /\ Len(body) \in Nat /\ cursor \in 0..Len(body) /\ MaxRows \in Nat
  BY PageAssumption DEF RInv, TypeOK
<1>4. Len(body) < MaxRows /\ body' = Append(body, size) /\ cursor' = cursor
  BY <1>2 DEF Push
<1>5. body' \in Seq(Nat) /\ Len(body') = Len(body) + 1
  BY <1>1, <1>3, <1>4
<1>6. cursor' \in 0..Len(body') /\ Len(body') <= MaxRows
  BY <1>3, <1>4, <1>5
<1>7. TypeOK'
  BY <1>5, <1>6 DEF TypeOK
<1>8. OutboxOK'
  BY <1>2, Zenon DEF OutboxOK
<1> QED
  BY <1>7, <1>8 DEF RInv

\* So does a page that is applied.
LEMMA FetchKeepsType ==
  ASSUME TypeOK, NEW param \in Limits, Fetch(param) PROVE TypeOK'
<1> DEFINE p == Changes(cursor, param)
<1>1. body \in Seq(Nat) /\ cursor \in Nat /\ param \in Int /\ Len(body) <= MaxRows
  BY PageAssumption DEF TypeOK
<1>2. PICK n \in Nat : PageIs(p, n, cursor, ClampedLimit(param))
  BY <1>1, ChangesIs
<1>3. p.ops # <<>> /\ cursor' = p.ops[Len(p.ops)] /\ body' = body
  BY Zenon DEF Fetch
<1> HIDE DEF p
<1>4. p.ops = [k \in 1..n |-> cursor + k] /\ Len(p.ops) = n /\ (n > 0 => cursor + n <= Len(body))
  BY <1>2 DEF PageIs
<1>5. n > 0
  BY <1>3, <1>4
<1>6. cursor' = cursor + n
  BY <1>3, <1>4, <1>5
<1>7. cursor' \in 0..Len(body)
  BY <1>1, <1>4, <1>5, <1>6
<1> QED
  BY <1>1, <1>3, <1>7 DEF TypeOK

\* Every step keeps the invariant.
LEMMA RInvStep ==
  ASSUME RInv, [RNext]_rvars PROVE RInv'
<1>1. CASE Compose
  BY <1>1 DEF Compose, RInv, TypeOK, OutboxOK
<1>2. CASE HandlePush
  BY <1>2, HandlePushKeepsInv
<1>3. CASE Drop
  BY <1>3, Zenon DEF Drop, RInv, TypeOK, OutboxOK
<1>4. CASE Pull
  <2>1. PICK param \in Limits : Fetch(param)
    BY <1>4 DEF Pull
  <2>2. TypeOK'
    BY <2>1, FetchKeepsType DEF RInv
  <2>3. OutboxOK'
    BY <1>4, Zenon DEF Pull, RInv, OutboxOK
  <2> QED
    BY <2>2, <2>3 DEF RInv
<1>5. CASE UNCHANGED rvars
  BY <1>5, Zenon DEF rvars, RInv, TypeOK, OutboxOK
<1> QED
  BY <1>1, <1>2, <1>3, <1>4, <1>5 DEF RNext

\* The log and the cursor stay well formed: no page moves the cursor past the log,
\* and whatever passes validation has a body of some length to store.
THEOREM RelayTypeOK == RSpec => []TypeOK
<1>1. RInit => RInv
  BY RInvInit
<1>2. RInv /\ [RNext]_rvars => RInv'
  BY RInvStep
<1>3. RInv => TypeOK
  BY DEF RInv
<1> QED
  BY <1>1, <1>2, <1>3, PTL DEF RSpec

\* What a well formed log is owed.
LEMMA ContractHolds ==
  ASSUME TypeOK PROVE PageContract
<1> SUFFICES ASSUME NEW since \in 0..(MaxRows + 1), NEW param \in Limits
             PROVE  LET p == Changes(since, param)
                        n == Len(p.ops)
                        bytes(k) == BytesAfter(since)[since + k]
                    IN  /\ \A i \in 1..n : p.ops[i] = since + i
                        /\ n <= MaxPageLimit /\ (param \in 1..MaxPageLimit => n <= param)
                        /\ n = 0 <=> since >= Len(body)
                        /\ n > 1 => bytes(n) <= MaxBytes
                        /\ p.more <=> since + n < Len(body)
                        /\ p.more => n = ClampedLimit(param) \/ bytes(n + 1) > MaxBytes
  BY Zenon DEF PageContract
<1> DEFINE p == Changes(since, param)
           limit == ClampedLimit(param)
<1>1. body \in Seq(Nat) /\ since \in Nat /\ param \in Int /\ MaxPageLimit \in Nat
  BY PageAssumption DEF TypeOK
<1>2. limit \in 1..MaxPageLimit /\ (param \in 1..MaxPageLimit => limit = param)
  BY <1>1, ChangesIs
<1>3. PICK n \in Nat : PageIs(p, n, since, limit)
  BY <1>1, ChangesIs
<1> HIDE DEF p, limit
<1>4. /\ p.ops = [k \in 1..n |-> since + k] /\ Len(p.ops) = n /\ n <= limit
      /\ n = 0 <=> since >= Len(body)
      /\ n > 1 => BytesAfter(since)[since + n] <= MaxBytes
      /\ p.more <=> since + n < Len(body)
      /\ p.more => n = limit \/ BytesAfter(since)[since + n + 1] > MaxBytes
  BY <1>3 DEF PageIs
<1>5. \A i \in 1..n : p.ops[i] = since + i
  BY <1>4
<1>6. n <= MaxPageLimit /\ (param \in 1..MaxPageLimit => n <= param)
  BY <1>1, <1>2, <1>4
<1>7. since + n + 1 = since + (n + 1)
  BY <1>1
<1> QED
  BY <1>4, <1>5, <1>6, <1>7, Zenon DEF p, limit

\* Every page that store.Changes cuts, for whatever cursor and limit it is asked
\* and whatever sizes the rows have, is what PageContract says.
THEOREM RelayPageContract == RSpec => []PageContract
<1>1. TypeOK => PageContract
  BY ContractHolds
<1> QED
  BY <1>1, RelayTypeOK, PTL

\* A client that has not caught up is never stuck: the hub accepts the cursor as the
\* client writes it, and the page it answers with is not empty and continues the
\* cursor, so that the client advances. CatchesUp rests on this.
THEOREM PullNeverStalls ==
  ASSUME TypeOK, cursor < Len(body), NEW param \in Limits
  PROVE  LET page == Changes(cursor, param)
         IN  /\ Accepts(DecString(cursor))
             /\ page.ops # <<>> /\ requireContiguous(page)
             /\ page.ops[Len(page.ops)] > cursor
<1> DEFINE p == Changes(cursor, param)
<1>1. body \in Seq(Nat) /\ cursor \in Nat /\ param \in Int /\ Len(body) <= MaxRows
  BY PageAssumption DEF TypeOK
<1>2. PICK n \in Nat : PageIs(p, n, cursor, ClampedLimit(param))
  BY <1>1, ChangesIs
<1>3. Accepts(DecString(cursor))
  <2>1. cursor <= MaxInt64 /\ cursor <= MaxUint64 /\ ~(cursor > MaxInt64)
    BY <1>1, PageAssumption, WireAssumption
  <2>2. ParseDec(DecString(cursor)) = cursor
    BY <1>1, <2>1, DecRoundTrip
  <2>3. Int64(cursor) = cursor /\ cursor # Refused
    BY <1>1, <2>1 DEF Int64, Refused
  <2> QED
    BY <2>2, <2>3 DEF Accepts
<1> HIDE DEF p
<1>4. p.ops = [k \in 1..n |-> cursor + k] /\ Len(p.ops) = n /\ n > 0
  BY <1>1, <1>2 DEF PageIs
<1>5. p.ops # <<>> /\ p.ops[Len(p.ops)] > cursor
  BY <1>1, <1>4
<1>6. requireContiguous(p)
  BY <1>4 DEF requireContiguous
<1> QED
  BY <1>3, <1>5, <1>6, Zenon DEF p

\* Between composing an op and storing it, there is room for it.
Room == outbox # NoOp => Len(body) < MaxRows

\* There is room at the start, and every step leaves it.
LEMMA RoomHolds == RSpec => []Room
<1>1. RInit => Room
  BY Zenon DEF RInit, Room
<1>2. Room /\ [RNext]_rvars => Room'
  <2> SUFFICES ASSUME Room, [RNext]_rvars PROVE Room'
    OBVIOUS
  <2>1. CASE Compose
    BY <2>1, Zenon DEF Compose, Room
  <2>2. CASE HandlePush \/ Drop
    BY <2>2, Zenon DEF HandlePush, Drop, Room
  <2>3. CASE Pull
    BY <2>3, Zenon DEF Pull, Fetch, Room
  <2>4. CASE UNCHANGED rvars
    BY <2>4, Zenon DEF rvars, Room
  <2> QED
    BY <2>1, <2>2, <2>3, <2>4 DEF RNext
<1> QED
  BY <1>1, <1>2, PTL DEF RSpec

\* The head of the outbox can be stored, or is junk that is given up on.
CanMove ==
  outbox # NoOp => \/ ParseOp(outbox) = "ok" /\ Len(body) < MaxRows
                   \/ outbox \in Junk /\ ParseOp(outbox) # "ok"

\* No op is ever stuck at the head of the outbox: whenever there is one, the guard of
\* HandlePush or that of Drop holds, the latter only for what no client makes. This is
\* the safety half of OutboxDrains.
THEOREM OutboxNeverStuck == RSpec => []CanMove
<1>1. RInv /\ Room => CanMove
  <2> SUFFICES ASSUME RInv, Room, outbox # NoOp
               PROVE  \/ ParseOp(outbox) = "ok" /\ Len(body) < MaxRows
                      \/ outbox \in Junk /\ ParseOp(outbox) # "ok"
    BY Zenon DEF CanMove
  <2>1. Len(body) < MaxRows
    BY Zenon DEF Room
  <2>2. CASE outbox \in Conforming
    BY <2>1, <2>2, ConformingAccepted
  <2>3. CASE outbox \in Junk
    BY <2>1, <2>3
  <2> QED
    BY <2>2, <2>3, Zenon DEF RInv, OutboxOK
<1>2. RInit => RInv
  BY RInvInit
<1>3. RInv /\ [RNext]_rvars => RInv'
  BY RInvStep
<1> QED
  BY <1>1, <1>2, <1>3, RoomHolds, PTL DEF RSpec
=============================================================================
