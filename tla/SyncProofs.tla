----------------------------- MODULE SyncProofs -----------------------------
(***************************************************************************)
(* Proofs about SyncSystem, for any number of devices and memories, any    *)
(* batch and page limit, any number of late requests and of epochs.        *)
(*                                                                         *)
(* What a device may believe of the hub depends on the exchange under way: *)
(* a page that was cut out of the log before it is applied, an answer that *)
(* acknowledges rows before they are stamped, a push that is handled after *)
(* its client gave up on it. ClientInv relates each of them to the log as  *)
(* long as it belongs to the hub's epoch; a new epoch is one that no       *)
(* device and no page can have met. BatchInv says that whatever is on its  *)
(* way to the hub was written on some device, and names no memory twice.   *)
(***************************************************************************)
EXTENDS SyncSystem, FunctionTheorems, FiniteSetTheorems, SequenceTheorems, TLAPS

Unique(s) == \A i, j \in DOMAIN s : s[i] = s[j] => i = j

\* The memories S are all kept by the devices they were written on.
Kept(S) == \A m \in S : m \in Elems(mine[Author[m]])

\* The sequence t is s with more behind it.
Grows(s, t) == Len(s) <= Len(t) /\ \A i \in 1..Len(s) : t[i] = s[i]

OwnInv == \A d \in Devices : Unique(mine[d]) /\ \A m \in Elems(mine[d]) : Author[m] = d

HubInv == NoDuplicates /\ Kept(Elems(log))

BatchInv ==
  /\ \A d \in Devices : call[d].kind \in {"push", "acked"} =>
       Unique(call[d].ops) /\ Kept(Elems(call[d].ops))
  /\ \A r \in late : Unique(r.ops) /\ Kept(Elems(r.ops))

\* A device that has met no epoch yet has nothing from a hub, and has sent nothing.
FreshOK(d) == known[d] = 0 => /\ cursor[d] = 0 /\ synced[d] = {}
                              /\ call[d].kind \notin {"push", "acked"}

\* What a device that follows the hub's epoch has applied, stamped and been told.
FollowsOK(d) == known[d] = epoch =>
  /\ cursor[d] <= Len(log)
  /\ \A i \in 1..cursor[d] : log[i] \in got[d] \cup Elems(mine[d])
  /\ synced[d] \subseteq Elems(log)
  /\ call[d].kind = "acked" => Elems(call[d].ops) \subseteq Elems(log)

\* A page of the hub's epoch continues the cursor of the device it is sent to.
PageOK(d) == call[d].kind = "page" =>
  /\ call[d].epoch <= minted
  /\ call[d].epoch = epoch =>
       \A i \in 1..Len(call[d].ops) :
         cursor[d] + i <= Len(log) /\ call[d].ops[i] = log[cursor[d] + i]

ClientInv == \A d \in Devices : FreshOK(d) /\ FollowsOK(d) /\ PageOK(d)

SyncInv == TypeOK /\ OwnInv /\ HubInv /\ BatchInv /\ ClientInv

-----------------------------------------------------------------------------
(* Sequences                                                               *)

\* Ranks number the places of a finite set of them from 1 to their count: two
\* places have two ranks, and so each rank is taken.
LEMMA RanksAreTaken ==
  ASSUME NEW P \in SUBSET Nat, IsFiniteSet(P)
  PROVE  /\ Cardinality(P) \in Nat
         /\ \A i \in P : Rank(i, P) \in 1..Cardinality(P)
         /\ \A i, j \in P : Rank(i, P) = Rank(j, P) => i = j
         /\ \A k \in 1..Cardinality(P) : \E i \in P : Rank(i, P) = k
<1> DEFINE Upto(i) == {j \in P : j <= i}
           f == [i \in P |-> Rank(i, P)]
<1>1. Cardinality(P) \in Nat
  BY FS_CardinalityType
<1>2. ASSUME NEW i \in P
      PROVE  IsFiniteSet(Upto(i)) /\ Rank(i, P) \in 1..Cardinality(P)
  <2>1. Upto(i) \in SUBSET P /\ i \in Upto(i)
    OBVIOUS
  <2>2. IsFiniteSet(Upto(i)) /\ Cardinality(Upto(i)) <= Cardinality(P)
    BY <2>1, FS_Subset
  <2>3. Cardinality(Upto(i)) \in Nat /\ Cardinality(Upto(i)) # 0
    BY <2>1, <2>2, FS_CardinalityType, FS_EmptySet
  <2> QED
    BY <1>1, <2>2, <2>3 DEF Rank
<1>3. ASSUME NEW i \in P, NEW j \in P, i < j PROVE Rank(i, P) # Rank(j, P)
  <2>0. /\ j <= j /\ ~(j <= i)
        /\ \A x \in P : x <= i => x <= j
    BY <1>3
  <2>1. Upto(i) \in SUBSET Upto(j) /\ j \in Upto(j) /\ j \notin Upto(i)
    BY <2>0
  <2>2. IsFiniteSet(Upto(j))
    BY <1>2
  <2> QED
    BY <2>1, <2>2, FS_Subset DEF Rank
<1>4. \A i, j \in P : Rank(i, P) = Rank(j, P) => i = j
  BY <1>3
<1>5. f \in Injection(P, 1..Cardinality(P))
  BY <1>2, <1>4 DEF Injection, IsInjective
<1>6. IsFiniteSet(1..Cardinality(P)) /\ Cardinality(1..Cardinality(P)) = Cardinality(P)
  BY <1>1, FS_Interval
<1>7. f \in Surjection(P, 1..Cardinality(P))
  BY <1>5, <1>6, FS_Injection
<1> QED
  BY <1>1, <1>2, <1>4, <1>7 DEF Surjection

\* Without keeps exactly the elements that are not in S, and no more often than
\* they were there.
LEMMA WithoutFacts ==
  ASSUME NEW X, NEW s \in Seq(X), NEW S
  PROVE  /\ Without(s, S) \in Seq(X)
         /\ Elems(Without(s, S)) = Elems(s) \ S
         /\ Unique(s) => Unique(Without(s, S))
<1> DEFINE P == Places(s, S)
           w == Without(s, S)
           n == Cardinality(P)
           At(k) == CHOOSE i \in P : Rank(i, P) = k
<1>1. P \in SUBSET (1..Len(s)) /\ P \in SUBSET Nat /\ DOMAIN s = 1..Len(s) /\ Len(s) \in Nat
  BY DEF Places
<1>2. IsFiniteSet(P)
  <2>1. IsFiniteSet(1..Len(s))
    BY <1>1, FS_Interval
  <2> QED
    BY <1>1, <2>1, FS_Subset
<1>3. /\ n \in Nat
      /\ \A i \in P : Rank(i, P) \in 1..n
      /\ \A i, j \in P : Rank(i, P) = Rank(j, P) => i = j
      /\ \A k \in 1..n : \E i \in P : Rank(i, P) = k
  BY <1>1, <1>2, RanksAreTaken
<1>4. \A k \in 1..n : At(k) \in P /\ Rank(At(k), P) = k
  BY <1>3
<1>5. w = [k \in 1..n |-> s[At(k)]]
  BY DEF Without
<1>6. \A i \in P : i \in DOMAIN s /\ s[i] \in X /\ s[i] \notin S
  BY DEF Places
<1>7. \A i \in DOMAIN s : s[i] \notin S => i \in P
  BY DEF Places
<1> HIDE DEF P, w, n, At
<1>8. w \in [1..n -> X] /\ DOMAIN w = 1..n /\ \A k \in 1..n : w[k] = s[At(k)]
  BY <1>4, <1>5, <1>6
<1>9. w \in Seq(X)
  BY <1>3, <1>8, SeqDef
<1>10. Elems(w) = Elems(s) \ S
  <2>1. ASSUME NEW k \in 1..n PROVE w[k] \in Elems(s) \ S
    BY <1>4, <1>6, <1>8 DEF Elems
  <2>2. ASSUME NEW i \in DOMAIN s, s[i] \notin S PROVE s[i] \in Elems(w)
    <3>1. i \in P /\ Rank(i, P) \in 1..n
      BY <2>2, <1>3, <1>7
    <3>2. At(Rank(i, P)) = i
      BY <3>1, <1>3, <1>4
    <3> QED
      BY <3>1, <3>2, <1>8 DEF Elems
  <2> QED
    BY <2>1, <2>2, <1>8 DEF Elems
<1>11. ASSUME Unique(s) PROVE Unique(w)
  BY <1>11, <1>3, <1>4, <1>6, <1>8 DEF Unique
<1> QED
  BY <1>9, <1>10, <1>11 DEF w

\* A batch or a page is the beginning of what there is.
LEMMA AtMostFacts ==
  ASSUME NEW X, NEW s \in Seq(X), NEW n \in Nat
  PROVE  /\ AtMost(n, s) \in Seq(X)
         /\ Len(AtMost(n, s)) <= Len(s) /\ Len(AtMost(n, s)) \in Nat
         /\ \A i \in 1..Len(AtMost(n, s)) : AtMost(n, s)[i] = s[i]
         /\ Elems(AtMost(n, s)) \subseteq Elems(s)
         /\ Unique(s) => Unique(AtMost(n, s))
<1> DEFINE l == IF n < Len(s) THEN n ELSE Len(s)
           a == AtMost(n, s)
<1>1. l \in Nat /\ l <= Len(s) /\ Len(s) \in Nat /\ DOMAIN s = 1..Len(s)
  OBVIOUS
<1>2. a = SubSeq(s, 1, l) /\ \A i \in 1..l : s[i] \in X
  BY <1>1, ElementOfSeq DEF AtMost
<1> HIDE DEF l
<1>3. a \in Seq(X) /\ Len(a) = l /\ \A i \in 1..l : a[i] = s[i]
  BY <1>1, <1>2, SubSeqProperties
<1>4. DOMAIN a = 1..l /\ \A i \in 1..l : i \in DOMAIN s
  BY <1>1, <1>3
<1> HIDE DEF a
<1>5. Elems(a) \subseteq Elems(s)
  BY <1>3, <1>4 DEF Elems
<1>6. Unique(s) => Unique(a)
  BY <1>3, <1>4 DEF Unique
<1> QED
  BY <1>1, <1>3, <1>5, <1>6 DEF a

\* Store.Push on a log without duplicates, of a batch without duplicates: the log
\* grows by what it did not hold, and holds each memory once.
LEMMA PushFacts ==
  ASSUME NEW b \in Seq(Memories), Unique(b), log \in Seq(Memories), Unique(log)
  PROVE  /\ Push(b) \in Seq(Memories) /\ Unique(Push(b)) /\ Grows(log, Push(b))
         /\ Elems(Push(b)) = Elems(log) \cup Elems(b)
<1> DEFINE w == Without(b, Elems(log))
           p == Push(b)
<1>1. w \in Seq(Memories) /\ Elems(w) = Elems(b) \ Elems(log) /\ Unique(w)
  BY WithoutFacts
<1>2. p = log \o w
  BY DEF Push
<1> HIDE DEF w
<1>3. /\ p \in Seq(Memories) /\ Len(p) = Len(log) + Len(w)
      /\ \A i \in 1..Len(log) : p[i] = log[i]
      /\ \A i \in 1..Len(w) : p[Len(log) + i] = w[i]
  BY <1>1, <1>2, ConcatProperties
<1>4. /\ Len(log) \in Nat /\ Len(w) \in Nat /\ DOMAIN p = 1..Len(p)
      /\ DOMAIN log = 1..Len(log) /\ DOMAIN w = 1..Len(w)
  BY <1>1, <1>3
<1> HIDE DEF p
<1>5. \A i \in DOMAIN p : \/ i \in DOMAIN log /\ p[i] = log[i]
                          \/ i - Len(log) \in DOMAIN w /\ p[i] = w[i - Len(log)]
  <2> SUFFICES ASSUME NEW i \in DOMAIN p, i \notin DOMAIN log
               PROVE  i - Len(log) \in DOMAIN w /\ p[i] = w[i - Len(log)]
    BY <1>3, <1>4
  <2>1. i - Len(log) \in 1..Len(w) /\ Len(log) + (i - Len(log)) = i
    BY <1>3, <1>4
  <2> QED
    BY <2>1, <1>3, <1>4
<1>6. Elems(p) = Elems(log) \cup Elems(b)
  <2>1. Elems(p) \subseteq Elems(log) \cup Elems(w)
    BY <1>5 DEF Elems
  <2>2. Elems(log) \subseteq Elems(p)
    BY <1>3, <1>4 DEF Elems
  <2>3. Elems(w) \subseteq Elems(p)
    <3>1. \A i \in 1..Len(w) : Len(log) + i \in DOMAIN p
      BY <1>3, <1>4
    <3> QED
      BY <3>1, <1>3, <1>4 DEF Elems
  <2> QED
    BY <2>1, <2>2, <2>3, <1>1
<1>7. Unique(p)
  <2> SUFFICES ASSUME NEW i \in DOMAIN p, NEW j \in DOMAIN p, p[i] = p[j] PROVE i = j
    BY DEF Unique
  <2>1. \A x \in DOMAIN log, y \in DOMAIN w : log[x] # w[y]
    BY <1>1 DEF Elems
  <2>2. i \in Int /\ j \in Int
    BY <1>4
  <2> QED
    BY <2>1, <2>2, <1>1, <1>4, <1>5 DEF Unique
<1> QED
  BY <1>3, <1>4, <1>6, <1>7 DEF Grows, p

-----------------------------------------------------------------------------
(* The hub's steps                                                         *)

\* The fields that a call of each kind has.
LEMMA CallShape ==
  ASSUME NEW c \in Call
  PROVE  /\ c.kind \in {"none", "pull", "push", "acked", "page"}
         /\ c.kind \in {"push", "acked"} => c \in [kind : {"push", "acked"}, ops : Seq(Memories)]
         /\ c.kind = "page" => c \in [kind : {"page"}, epoch : 1..MaxEpochs, ops : Seq(Memories)]
BY DEF Call

\* A log that grows by pushes takes nothing from a device or from a page.
LEMMA GrowthKeepsClient ==
  ASSUME SyncInv, NEW d \in Devices, log' \in Seq(Memories), Grows(log, log'),
         UNCHANGED <<epoch, minted, clientVars>>, call'[d] = call[d]
  PROVE  (FreshOK(d) /\ FollowsOK(d) /\ PageOK(d))'
<1>a. /\ FreshOK(d) /\ FollowsOK(d) /\ PageOK(d) /\ cursor[d] \in Nat /\ call[d] \in Call
      /\ log \in Seq(Memories)
  BY DEF SyncInv, ClientInv, TypeOK
<1>b. Len(log) \in Nat /\ Len(log') \in Nat /\ Elems(log) \subseteq Elems(log')
  BY <1>a DEF Grows, Elems
<1>1. FreshOK(d)'
  BY <1>a DEF FreshOK, clientVars
<1>2. FollowsOK(d)'
  BY <1>a, <1>b DEF FollowsOK, Grows, clientVars
<1>3. PageOK(d)'
  <2> SUFFICES ASSUME call[d].kind = "page", call[d].epoch = epoch,
                      NEW i \in 1..Len(call[d].ops)
               PROVE  cursor[d] + i <= Len(log') /\ call[d].ops[i] = log'[cursor[d] + i]
    BY <1>a DEF PageOK, clientVars
  <2>1. call[d].ops \in Seq(Memories)
    BY <1>a, CallShape
  <2>2. cursor[d] + i <= Len(log) /\ call[d].ops[i] = log[cursor[d] + i]
    BY <1>a DEF PageOK
  <2>3. cursor[d] + i \in 1..Len(log)
    BY <2>1, <2>2, <1>a, <1>b
  <2> QED
    BY <2>2, <2>3, <1>b DEF Grows
<1> QED
  BY <1>1, <1>2, <1>3

\* A push of a batch that devices keep, from a call or late.
LEMMA PushKeepsHub ==
  ASSUME SyncInv, NEW b \in Seq(Memories), Unique(b), Kept(Elems(b)), log' = Push(b),
         UNCHANGED mine
  PROVE  /\ log' \in Seq(Memories) /\ Grows(log, log') /\ HubInv'
         /\ Elems(b) \subseteq Elems(log')
<1>1. log \in Seq(Memories) /\ Unique(log) /\ Kept(Elems(log))
  BY DEF SyncInv, TypeOK, HubInv, NoDuplicates, Unique
<1>2. /\ log' \in Seq(Memories) /\ Grows(log, log') /\ Unique(log')
      /\ Elems(log') = Elems(log) \cup Elems(b)
  BY <1>1, PushFacts
<1>3. Kept(Elems(log))' /\ Kept(Elems(log'))
  BY <1>1, <1>2 DEF Kept
<1> QED
  BY <1>2, <1>3 DEF HubInv, NoDuplicates, Unique, Kept

LEMMA HandlePushKeepsInv ==
  ASSUME SyncInv, NEW d \in Devices, HandlePush(d)
  PROVE  SyncInv'
<1> DEFINE b == call[d].ops
<1>a. /\ call[d].kind = "push" /\ log' = Push(b) /\ call' = [call EXCEPT ![d].kind = "acked"]
      /\ UNCHANGED <<epoch, minted, user, flaky, late, clientVars>>
  BY DEF HandlePush, netVars
<1>b. call \in [Devices -> Call] /\ call[d] \in [kind : {"push", "acked"}, ops : Seq(Memories)]
  BY <1>a, CallShape DEF SyncInv, TypeOK
<1>c. b \in Seq(Memories) /\ Unique(b) /\ Kept(Elems(b)) /\ known[d] # 0 /\ UNCHANGED mine
  BY <1>a, <1>b DEF SyncInv, BatchInv, ClientInv, FreshOK, clientVars
<1>d. /\ log' \in Seq(Memories) /\ Grows(log, log') /\ HubInv'
      /\ Elems(b) \subseteq Elems(log')
  BY <1>a, <1>c, PushKeepsHub
<1>e. /\ call'[d] \in [kind : {"push", "acked"}, ops : Seq(Memories)]
      /\ call'[d].kind = "acked" /\ call'[d].ops = b
      /\ call' \in [Devices -> Call]
      /\ \A e \in Devices : e # d => call'[e] = call[e]
  BY <1>a, <1>b DEF Call
<1>1. TypeOK'
  BY <1>a, <1>d, <1>e DEF SyncInv, TypeOK, clientVars
<1>2. OwnInv'
  BY <1>a DEF SyncInv, OwnInv, clientVars
<1>3. BatchInv'
  BY <1>a, <1>c, <1>e DEF SyncInv, BatchInv, Kept
<1>4. ASSUME NEW e \in Devices, e # d PROVE (FreshOK(e) /\ FollowsOK(e) /\ PageOK(e))'
  BY <1>4, <1>a, <1>d, <1>e, GrowthKeepsClient
<1>5. FreshOK(d)' /\ PageOK(d)'
  BY <1>a, <1>c, <1>e DEF FreshOK, PageOK, clientVars
<1>6. FollowsOK(d)'
  <2>1. FollowsOK(d) /\ cursor[d] \in Nat /\ log \in Seq(Memories)
    BY DEF SyncInv, ClientInv, TypeOK
  <2>2. Len(log) \in Nat /\ Len(log') \in Nat /\ Elems(log) \subseteq Elems(log')
    BY <2>1, <1>d DEF Grows, Elems
  <2>3. /\ known'[d] = known[d] /\ epoch' = epoch /\ cursor'[d] = cursor[d] /\ got'[d] = got[d]
        /\ mine'[d] = mine[d] /\ synced'[d] = synced[d]
    BY <1>a DEF clientVars
  <2>4. Len(log) <= Len(log') /\ \A i \in 1..Len(log) : log'[i] = log[i]
    BY <1>d DEF Grows
  <2>5. ASSUME known[d] = epoch
        PROVE  /\ cursor[d] <= Len(log') /\ synced[d] \subseteq Elems(log')
               /\ \A i \in 1..cursor[d] : log'[i] \in got[d] \cup Elems(mine[d])
    <3>1. /\ cursor[d] <= Len(log) /\ synced[d] \subseteq Elems(log)
          /\ \A i \in 1..cursor[d] : log[i] \in got[d] \cup Elems(mine[d])
      BY <2>1, <2>5 DEF FollowsOK
    <3>2. \A i \in 1..cursor[d] : i \in 1..Len(log)
      BY <2>1, <2>2, <3>1
    <3>3. \A i \in 1..cursor[d] : log'[i] \in got[d] \cup Elems(mine[d])
      BY <2>4, <3>1, <3>2
    <3> QED
      BY <2>1, <2>2, <2>4, <3>1, <3>3
  <2>6. Elems(call'[d].ops) \subseteq Elems(log')
    BY <1>d, <1>e
  <2> QED
    BY <2>3, <2>5, <2>6 DEF FollowsOK
<1> QED
  BY <1>1, <1>2, <1>3, <1>4, <1>5, <1>6, <1>d DEF SyncInv, ClientInv

LEMMA HandleLatePushKeepsInv ==
  ASSUME SyncInv, NEW r \in late, HandleLatePush(r)
  PROVE  SyncInv'
<1>a. /\ late' = late \ {r} /\ (log' = log \/ log' = Push(r.ops))
      /\ UNCHANGED <<epoch, minted, user, flaky, clientVars, call>>
  BY DEF HandleLatePush
<1>b. r.ops \in Seq(Memories) /\ Unique(r.ops) /\ Kept(Elems(r.ops)) /\ UNCHANGED mine
  BY <1>a DEF SyncInv, TypeOK, BatchInv, clientVars
<1>c. log' \in Seq(Memories) /\ Grows(log, log') /\ HubInv'
  <2>1. CASE log' = log
    BY <2>1, <1>b DEF SyncInv, TypeOK, Grows, HubInv, NoDuplicates, Kept
  <2>2. CASE log' = Push(r.ops)
    BY <2>2, <1>b, PushKeepsHub
  <2> QED
    BY <1>a, <2>1, <2>2
<1>1. TypeOK'
  BY <1>a, <1>c DEF SyncInv, TypeOK, clientVars
<1>2. OwnInv'
  BY <1>a DEF SyncInv, OwnInv, clientVars
<1>3. BatchInv'
  BY <1>a, <1>b DEF SyncInv, BatchInv, Kept
<1>4. ClientInv'
  BY <1>a, <1>c, GrowthKeepsClient DEF ClientInv
<1> QED
  BY <1>1, <1>2, <1>3, <1>4, <1>c DEF SyncInv

\* A new epoch, with the log or without it: nobody follows it yet, and no page of
\* it is under way.
LEMMA NewEpochKeepsInv ==
  ASSUME SyncInv, BumpEpoch \/ Wipe
  PROVE  SyncInv'
<1>a. /\ minted < MaxEpochs /\ minted' = minted + 1 /\ epoch' = minted + 1
      /\ user' \in {user, minted + 1} /\ (log' = log \/ log' = <<>>)
      /\ UNCHANGED <<netVars, clientVars, call>>
  BY DEF BumpEpoch, Wipe
<1>b. /\ UNCHANGED <<flaky, late, mine, synced, got, cursor, known, paired, call>>
      /\ minted \in 1..MaxEpochs /\ MaxEpochs \in Nat
  BY <1>a, SyncAssumption DEF netVars, clientVars, SyncInv, TypeOK
<1>c. minted' \in 1..MaxEpochs /\ \A e \in 0..minted : e \in 0..minted' /\ e # epoch'
  BY <1>a, <1>b
<1>d. \A e \in 1..minted : e \in 1..minted'
  BY <1>a, <1>b
<1>1. TypeOK'
  <2>1. log' \in Seq(Memories)
    BY <1>a, EmptySeq DEF SyncInv, TypeOK
  <2>2. epoch' \in 1..minted' /\ user' \in 1..minted'
    BY <1>a, <1>b, <1>d DEF SyncInv, TypeOK
  <2>3. /\ late' \subseteq [ops : Seq(Memories), user : 1..minted']
        /\ known' \in [Devices -> 0..minted'] /\ paired' \in [Devices -> 1..minted']
    <3>1. /\ late \subseteq [ops : Seq(Memories), user : 1..minted]
          /\ known \in [Devices -> 0..minted] /\ paired \in [Devices -> 1..minted]
      BY DEF SyncInv, TypeOK
    <3>2. 1..minted \subseteq 1..minted' /\ 0..minted \subseteq 0..minted'
      BY <1>c, <1>d
    <3>3. [ops : Seq(Memories), user : 1..minted] \subseteq [ops : Seq(Memories), user : 1..minted']
      BY <3>2
    <3> QED
      BY <3>1, <3>2, <3>3, <1>b
  <2> QED
    BY <2>1, <2>2, <2>3, <1>b, <1>c DEF SyncInv, TypeOK
<1>2. OwnInv' /\ BatchInv'
  BY <1>b DEF SyncInv, OwnInv, BatchInv, Kept
<1>3. HubInv'
  BY <1>a, <1>b DEF SyncInv, HubInv, NoDuplicates, Kept, Elems
<1>4. ASSUME NEW d \in Devices PROVE (FreshOK(d) /\ FollowsOK(d) /\ PageOK(d))'
  <2>1. FreshOK(d) /\ PageOK(d) /\ known[d] \in 0..minted /\ call[d] \in Call
    BY DEF SyncInv, ClientInv, TypeOK
  <2>2. FreshOK(d)' /\ FollowsOK(d)'
    BY <2>1, <1>b, <1>c DEF FreshOK, FollowsOK
  <2>3. PageOK(d)'
    <3> SUFFICES ASSUME call[d].kind = "page"
                 PROVE  call[d].epoch <= minted' /\ call[d].epoch # epoch'
      BY <1>b DEF PageOK
    <3>1. call[d].epoch <= minted /\ call[d].epoch \in 1..MaxEpochs
      BY <2>1, CallShape DEF PageOK
    <3> QED
      BY <3>1, <1>a, <1>b
  <2> QED
    BY <2>2, <2>3
<1> QED
  BY <1>1, <1>2, <1>3, <1>4 DEF SyncInv, ClientInv

-----------------------------------------------------------------------------
(* The client's and the network's steps                                    *)

\* A step that only moves a device's call, and perhaps leaves a late request.
LEMMA CallMoves ==
  ASSUME SyncInv, NEW d \in Devices, NEW c \in Call, call' = [call EXCEPT ![d] = c],
         UNCHANGED <<hubVars, flaky, clientVars>>,
         c.kind # "acked",
         c.kind = "push" => Unique(c.ops) /\ Kept(Elems(c.ops)) /\ known[d] # 0,
         c.kind = "page" => /\ c.epoch = epoch
                            /\ \A i \in 1..Len(c.ops) : cursor[d] + i <= Len(log)
                                                       /\ c.ops[i] = log[cursor[d] + i],
         \A r \in late' : /\ r \in [ops : Seq(Memories), user : 1..minted]
                          /\ Unique(r.ops) /\ Kept(Elems(r.ops))
  PROVE  SyncInv'
<1>a. UNCHANGED <<log, epoch, minted, user, mine, synced, got, cursor, known, paired>>
  BY DEF hubVars, clientVars
<1>b. call \in [Devices -> Call] /\ epoch \in 1..minted /\ minted \in 1..MaxEpochs
  BY DEF SyncInv, TypeOK
<1>c. call' \in [Devices -> Call] /\ call'[d] = c /\ \A e \in Devices \ {d} : call'[e] = call[e]
  BY <1>b
<1>1. TypeOK'
  BY <1>a, <1>c DEF SyncInv, TypeOK
<1>2. OwnInv' /\ HubInv'
  BY <1>a DEF SyncInv, OwnInv, HubInv, NoDuplicates, Kept
<1>3. BatchInv'
  BY <1>a, <1>c DEF SyncInv, BatchInv, Kept
<1>4. ASSUME NEW e \in Devices \ {d} PROVE (FreshOK(e) /\ FollowsOK(e) /\ PageOK(e))'
  BY <1>a, <1>c DEF SyncInv, ClientInv, FreshOK, FollowsOK, PageOK
<1>5. (FreshOK(d) /\ FollowsOK(d))'
  BY <1>a, <1>c DEF SyncInv, ClientInv, FreshOK, FollowsOK
<1>6. PageOK(d)'
  BY <1>a, <1>b, <1>c DEF PageOK
<1> QED
  BY <1>1, <1>2, <1>3, <1>4, <1>5, <1>6 DEF SyncInv, ClientInv

\* What is late already.
LEMMA LateStays ==
  ASSUME SyncInv
  PROVE  \A r \in late : /\ r \in [ops : Seq(Memories), user : 1..minted]
                         /\ Unique(r.ops) /\ Kept(Elems(r.ops))
BY DEF SyncInv, TypeOK, BatchInv

\* The flusher sends rows of its own database, each once.
LEMMA SendPushKeepsInv ==
  ASSUME SyncInv, NEW d \in Devices, SendPush(d)
  PROVE  SyncInv'
<1> DEFINE b == AtMost(BatchLimit, Outbox(d))
           c == [kind |-> "push", ops |-> b]
<1>1. /\ mine[d] \in Seq(Memories) /\ Unique(mine[d])
      /\ \A m \in Elems(mine[d]) : Author[m] = d
  BY DEF SyncInv, TypeOK, OwnInv
<1>2. /\ Outbox(d) \in Seq(Memories) /\ Unique(Outbox(d))
      /\ Elems(Outbox(d)) \subseteq Elems(mine[d])
  BY <1>1, WithoutFacts DEF Outbox
<1>3. b \in Seq(Memories) /\ Unique(b) /\ Elems(b) \subseteq Elems(mine[d])
  BY <1>2, AtMostFacts, SyncAssumption
<1>4. Kept(Elems(b))
  BY <1>1, <1>3 DEF Kept
<1>5. call' = [call EXCEPT ![d] = c] /\ known[d] # 0 /\ UNCHANGED <<hubVars, netVars, clientVars>>
  BY DEF SendPush
<1> HIDE DEF b
<1>6. c \in Call /\ c.kind = "push" /\ c.ops = b
  BY <1>3 DEF Call
<1> HIDE DEF c
<1> QED
  BY <1>3, <1>4, <1>5, <1>6, LateStays, CallMoves DEF netVars

\* A page is a piece of the log behind the device's cursor.
LEMMA HandleChangesKeepsInv ==
  ASSUME SyncInv, NEW d \in Devices, HandleChanges(d)
  PROVE  SyncInv'
<1> DEFINE t == SubSeq(log, cursor[d] + 1, Len(log))
           b == AtMost(PageLimit, t)
           c == [kind |-> "page", epoch |-> epoch, ops |-> b]
<1>1. /\ log \in Seq(Memories) /\ Len(log) \in Nat /\ cursor[d] \in Nat
      /\ epoch \in 1..minted /\ minted \in 1..MaxEpochs /\ MaxEpochs \in Nat
  BY SyncAssumption DEF SyncInv, TypeOK
<1>2. \A i \in (cursor[d] + 1)..Len(log) : log[i] \in Memories
  BY <1>1, ElementOfSeq
<1>3. /\ t \in Seq(Memories)
      /\ Len(t) = IF cursor[d] + 1 <= Len(log) THEN Len(log) - (cursor[d] + 1) + 1 ELSE 0
      /\ \A i \in 1..(Len(log) - (cursor[d] + 1) + 1) : t[i] = log[(cursor[d] + 1) + i - 1]
  BY <1>1, <1>2, SubSeqProperties
<1> HIDE DEF t
<1>4. \A i \in 1..Len(t) : cursor[d] + i <= Len(log) /\ t[i] = log[cursor[d] + i]
  <2> SUFFICES ASSUME NEW i \in 1..Len(t)
               PROVE  cursor[d] + i <= Len(log) /\ t[i] = log[cursor[d] + i]
    OBVIOUS
  <2>1. /\ i \in 1..(Len(log) - (cursor[d] + 1) + 1) /\ cursor[d] + i <= Len(log)
        /\ (cursor[d] + 1) + i - 1 = cursor[d] + i
    BY <1>1, <1>3
  <2> QED
    BY <2>1, <1>3
<1>5. b \in Seq(Memories) /\ Len(b) <= Len(t) /\ Len(b) \in Nat /\ \A i \in 1..Len(b) : b[i] = t[i]
  BY <1>3, AtMostFacts, SyncAssumption
<1>6. \A i \in 1..Len(b) : cursor[d] + i <= Len(log) /\ b[i] = log[cursor[d] + i]
  BY <1>3, <1>4, <1>5
<1>7. call' = [call EXCEPT ![d] = c] /\ UNCHANGED <<hubVars, netVars, clientVars>>
  BY DEF HandleChanges, t
<1> HIDE DEF b
<1>8. c \in Call /\ c.kind = "page" /\ c.ops = b /\ c.epoch = epoch
  BY <1>1, <1>5 DEF Call
<1> HIDE DEF c
<1> QED
  BY <1>6, <1>7, <1>8, LateStays, CallMoves DEF netVars

\* A call begins, is refused, or is given up: as a late request if it was a push.
LEMMA CallEndsKeepsInv ==
  ASSUME SyncInv, NEW d \in Devices, SendPull(d) \/ Refuse(d) \/ GiveUp(d)
  PROVE  SyncInv'
<1>1. NoCall \in Call /\ NoCall.kind = "none" /\ [kind |-> "pull"] \in Call
  BY DEF NoCall, Call
<1>2. CASE SendPull(d) \/ Refuse(d)
  <2>1. PICK c \in {NoCall, [kind |-> "pull"]} :
          call' = [call EXCEPT ![d] = c] /\ UNCHANGED <<hubVars, netVars, clientVars>>
    BY <1>2 DEF SendPull, Refuse
  <2>2. c.kind \in {"none", "pull"} /\ c \in Call
    BY <1>1
  <2> QED
    BY <2>1, <2>2, LateStays, CallMoves DEF netVars
<1>3. CASE GiveUp(d)
  <2>1. call' = [call EXCEPT ![d] = NoCall] /\ UNCHANGED <<hubVars, flaky, clientVars>>
    BY <1>3 DEF GiveUp
  <2>2. ASSUME NEW r \in late'
        PROVE  /\ r \in [ops : Seq(Memories), user : 1..minted]
               /\ Unique(r.ops) /\ Kept(Elems(r.ops))
    <3>1. CASE r \in late
      BY <3>1, LateStays
    <3>2. CASE call[d].kind = "push" /\ r = [ops |-> call[d].ops, user |-> paired[d]]
      <4>1. call[d].ops \in Seq(Memories) /\ Unique(call[d].ops) /\ Kept(Elems(call[d].ops))
        BY <3>2, CallShape DEF SyncInv, TypeOK, BatchInv
      <4>2. paired[d] \in 1..minted
        BY DEF SyncInv, TypeOK
      <4> QED
        BY <3>2, <4>1, <4>2
    <3> QED
      BY <1>3, <3>1, <3>2 DEF GiveUp
  <2> QED
    BY <1>1, <2>1, <2>2, CallMoves
<1> QED
  BY <1>2, <1>3

\* A step of one device's client that ends its call and leaves its rows alone.
LEMMA ClientMoves ==
  ASSUME SyncInv, NEW d \in Devices, call' = [call EXCEPT ![d] = NoCall],
         UNCHANGED <<hubVars, netVars, mine, paired>>,
         NEW sy \in SUBSET Memories, synced' = [synced EXCEPT ![d] = sy],
         NEW g \in SUBSET Memories, got' = [got EXCEPT ![d] = g],
         NEW cu \in Nat, cursor' = [cursor EXCEPT ![d] = cu],
         NEW kn \in 1..minted, known' = [known EXCEPT ![d] = kn],
         kn = epoch => /\ cu <= Len(log) /\ sy \subseteq Elems(log)
                       /\ \A i \in 1..cu : log[i] \in g \cup Elems(mine[d])
  PROVE  SyncInv'
<1>a. UNCHANGED <<log, epoch, minted, user, flaky, late, mine, paired>>
  BY DEF hubVars, netVars
<1>b. /\ call \in [Devices -> Call] /\ synced \in [Devices -> SUBSET Memories]
      /\ got \in [Devices -> SUBSET Memories] /\ cursor \in [Devices -> Nat]
      /\ known \in [Devices -> 0..minted] /\ minted \in Nat
  BY SyncAssumption DEF SyncInv, TypeOK
<1>c. NoCall \in Call /\ NoCall.kind = "none" /\ kn \in 0..minted /\ kn # 0
  BY <1>b DEF NoCall, Call
<1>d. /\ call'[d] = NoCall /\ synced'[d] = sy /\ got'[d] = g /\ cursor'[d] = cu /\ known'[d] = kn
      /\ \A e \in Devices \ {d} : /\ call'[e] = call[e] /\ synced'[e] = synced[e]
                                  /\ got'[e] = got[e] /\ cursor'[e] = cursor[e]
                                  /\ known'[e] = known[e]
  BY <1>b
<1>1. TypeOK'
  BY <1>a, <1>b, <1>c DEF SyncInv, TypeOK
<1>2. OwnInv' /\ HubInv'
  BY <1>a DEF SyncInv, OwnInv, HubInv, NoDuplicates, Kept
<1>3. BatchInv'
  BY <1>a, <1>c, <1>d DEF SyncInv, BatchInv, Kept
<1>4. ASSUME NEW e \in Devices \ {d} PROVE (FreshOK(e) /\ FollowsOK(e) /\ PageOK(e))'
  BY <1>a, <1>d DEF SyncInv, ClientInv, FreshOK, FollowsOK, PageOK
<1>5. (FreshOK(d) /\ FollowsOK(d) /\ PageOK(d))'
  BY <1>a, <1>c, <1>d DEF FreshOK, FollowsOK, PageOK
<1> QED
  BY <1>1, <1>2, <1>3, <1>4, <1>5 DEF SyncInv, ClientInv

\* The acknowledged rows are stamped: the log holds them, if it is still the log
\* that the device follows.
LEMMA RecvAcksKeepsInv ==
  ASSUME SyncInv, NEW d \in Devices, RecvAcks(d)
  PROVE  SyncInv'
<1> DEFINE sy == synced[d] \cup Elems(call[d].ops)
           g == got[d]
           cu == cursor[d]
           kn == known[d]
<1>1. /\ call[d].kind = "acked" /\ synced' = [synced EXCEPT ![d] = sy]
      /\ call' = [call EXCEPT ![d] = NoCall]
      /\ UNCHANGED <<hubVars, netVars, mine, got, cursor, known, paired>>
  BY DEF RecvAcks
<1>2. /\ synced[d] \in SUBSET Memories /\ got[d] \in SUBSET Memories /\ cursor[d] \in Nat
      /\ known[d] \in 0..minted /\ minted \in Nat /\ call[d].ops \in Seq(Memories)
      /\ got \in [Devices -> SUBSET Memories] /\ cursor \in [Devices -> Nat]
      /\ known \in [Devices -> 0..minted]
  BY <1>1, CallShape, SyncAssumption DEF SyncInv, TypeOK
<1>3. sy \in SUBSET Memories
  BY <1>2 DEF Elems
<1>4. FreshOK(d) /\ FollowsOK(d)
  BY DEF SyncInv, ClientInv
<1>5. kn \in 1..minted
  BY <1>1, <1>2, <1>4 DEF FreshOK
<1>6. kn = epoch =>
        /\ cu <= Len(log) /\ sy \subseteq Elems(log)
        /\ \A i \in 1..cu : log[i] \in g \cup Elems(mine[d])
  BY <1>1, <1>4 DEF FollowsOK
<1>7. /\ got' = [got EXCEPT ![d] = g] /\ cursor' = [cursor EXCEPT ![d] = cu]
      /\ known' = [known EXCEPT ![d] = kn]
  BY <1>1, <1>2
<1>8. /\ g \in SUBSET Memories /\ cu \in Nat /\ UNCHANGED <<hubVars, netVars, mine, paired>>
      /\ call' = [call EXCEPT ![d] = NoCall] /\ synced' = [synced EXCEPT ![d] = sy]
  BY <1>1, <1>2
<1> HIDE DEF sy, g, cu, kn
<1> QED
  BY <1>3, <1>5, <1>6, <1>7, <1>8, ClientMoves

\* A page is applied behind the cursor it was cut for, or voids it.
LEMMA RecvPageKeepsInv ==
  ASSUME SyncInv, NEW d \in Devices, RecvPage(d)
  PROVE  SyncInv'
<1> DEFINE b == call[d].ops
           kn == call[d].epoch
<1>1. /\ call[d].kind = "page" /\ known' = [known EXCEPT ![d] = kn]
      /\ call' = [call EXCEPT ![d] = NoCall]
      /\ UNCHANGED <<hubVars, netVars, mine, paired>>
  BY DEF RecvPage
<1>2. /\ synced[d] \in SUBSET Memories /\ got[d] \in SUBSET Memories /\ cursor[d] \in Nat
      /\ b \in Seq(Memories) /\ kn \in 1..MaxEpochs /\ MaxEpochs \in Nat /\ minted \in Nat
      /\ synced \in [Devices -> SUBSET Memories] /\ got \in [Devices -> SUBSET Memories]
      /\ log \in Seq(Memories) /\ Len(log) \in Nat
  BY <1>1, CallShape, SyncAssumption DEF SyncInv, TypeOK
<1>3. FreshOK(d) /\ FollowsOK(d) /\ PageOK(d)
  BY DEF SyncInv, ClientInv
<1>4. kn \in 1..minted
  BY <1>1, <1>2, <1>3 DEF PageOK
<1>5. CASE known[d] \in {0, kn}
  <2> DEFINE g == got[d] \cup {m \in Elems(b) : Author[m] # d}
             cu == cursor[d] + Len(b)
  <2>1. /\ got' = [got EXCEPT ![d] = g] /\ cursor' = [cursor EXCEPT ![d] = cu]
        /\ synced' = [synced EXCEPT ![d] = synced[d]]
    BY <1>2, <1>5 DEF RecvPage
  <2>2. g \in SUBSET Memories /\ cu \in Nat /\ Len(b) \in Nat
    BY <1>2 DEF Elems
  <2>3. ASSUME kn = epoch
        PROVE  /\ cu <= Len(log) /\ synced[d] \subseteq Elems(log)
               /\ \A i \in 1..cu : log[i] \in g \cup Elems(mine[d])
    <3>1. \A i \in 1..Len(b) : cursor[d] + i <= Len(log) /\ b[i] = log[cursor[d] + i]
      BY <1>1, <1>3, <2>3 DEF PageOK
    <3>2. /\ cursor[d] <= Len(log) /\ synced[d] \subseteq Elems(log)
          /\ \A i \in 1..cursor[d] : log[i] \in got[d] \cup Elems(mine[d])
      <4>1. CASE known[d] = kn
        BY <4>1, <2>3, <1>3 DEF FollowsOK
      <4>2. CASE known[d] = 0
        BY <4>2, <1>2, <1>3 DEF FreshOK
      <4> QED
        BY <1>5, <4>1, <4>2
    <3>3. cu <= Len(log)
      <4>1. CASE Len(b) = 0
        BY <4>1, <3>2, <1>2
      <4>2. CASE Len(b) # 0
        BY <4>2, <3>1, <2>2
      <4> QED
        BY <4>1, <4>2
    <3>4. ASSUME NEW i \in 1..cu PROVE log[i] \in g \cup Elems(mine[d])
      <4>1. CASE i <= cursor[d]
        BY <4>1, <3>2, <1>2
      <4>2. CASE i > cursor[d]
        <5>1. i - cursor[d] \in 1..Len(b) /\ cursor[d] + (i - cursor[d]) = i
          BY <4>2, <1>2, <2>2
        <5>2. log[i] = b[i - cursor[d]] /\ log[i] \in Elems(b)
          BY <5>1, <3>1, <1>2, SMTT(20) DEF Elems
        <5>3. Author[log[i]] = d => log[i] \in Elems(mine[d])
          <6>1. i \in DOMAIN log
            BY <3>3, <1>2, <2>2
          <6> QED
            BY <6>1 DEF SyncInv, HubInv, Kept, Elems
        <5> QED
          BY <5>2, <5>3
      <4> QED
        BY <4>1, <4>2, <1>2, <2>2
    <3> QED
      BY <3>2, <3>3, <3>4
  <2> HIDE DEF g, cu, b, kn
  <2> QED
    BY <1>1, <1>2, <1>4, <2>1, <2>2, <2>3, ClientMoves
<1>6. CASE known[d] \notin {0, kn}
  <2>1. /\ got' = [got EXCEPT ![d] = got[d]] /\ cursor' = [cursor EXCEPT ![d] = 0]
        /\ synced' = [synced EXCEPT ![d] = {}]
    BY <1>2, <1>6 DEF RecvPage
  <2>2. 0 <= Len(log) /\ {} \subseteq Elems(log) /\ 1..0 = {} /\ 0 \in Nat /\ {} \in SUBSET Memories
    BY <1>2
  <2> HIDE DEF b, kn
  <2> QED
    BY <1>1, <1>2, <1>4, <2>1, <2>2, ClientMoves
<1> QED
  BY <1>5, <1>6

\* A memory is written once, on its author's device.
LEMMA RememberKeepsInv ==
  ASSUME SyncInv, NEW d \in Devices, NEW m \in Memories, Remember(d, m)
  PROVE  SyncInv'
<1> DEFINE s == mine[d]
           t == Append(s, m)
<1>1. /\ Author[m] = d /\ m \notin Elems(s) /\ mine' = [mine EXCEPT ![d] = t]
      /\ UNCHANGED <<log, epoch, minted, user, flaky, late, synced, got, cursor, known, paired, call>>
  BY DEF Remember, hubVars, netVars
<1>2. mine \in [Devices -> Seq(Memories)] /\ s \in Seq(Memories)
  BY DEF SyncInv, TypeOK
<1>3. /\ t \in Seq(Memories) /\ Len(t) = Len(s) + 1 /\ Len(s) \in Nat
      /\ t[Len(s) + 1] = m /\ (\A i \in 1..Len(s) : t[i] = s[i])
      /\ DOMAIN t = 1..(Len(s) + 1) /\ DOMAIN s = 1..Len(s)
  BY <1>2
<1> HIDE DEF t
<1>4. Elems(t) = Elems(s) \cup {m}
  BY <1>3 DEF Elems
<1>5. /\ mine' \in [Devices -> Seq(Memories)] /\ mine'[d] = t
      /\ \A e \in Devices \ {d} : mine'[e] = mine[e]
      /\ \A e \in Devices : Elems(mine[e]) \subseteq Elems(mine'[e])
  BY <1>1, <1>2, <1>3, <1>4
<1>6. TypeOK'
  BY <1>1, <1>5 DEF SyncInv, TypeOK
<1>7. OwnInv'
  <2>1. Unique(t)
    <3> SUFFICES ASSUME NEW i \in DOMAIN t, NEW j \in DOMAIN t, t[i] = t[j] PROVE i = j
      BY DEF Unique
    <3>1. \A k \in DOMAIN s : s[k] # m
      BY <1>1 DEF Elems
    <3>2. Unique(s)
      BY DEF SyncInv, OwnInv
    <3> QED
      BY <3>1, <3>2, <1>3 DEF Unique
  <2> QED
    BY <2>1, <1>1, <1>4, <1>5 DEF SyncInv, OwnInv
<1>8. HubInv'
  <2>1. Elems(log) \in SUBSET Memories
    BY DEF SyncInv, TypeOK, Elems
  <2> QED
    BY <2>1, <1>1, <1>5, SyncAssumption DEF SyncInv, HubInv, NoDuplicates, Kept
<1>9. BatchInv'
  <2>1. ASSUME NEW e \in Devices, call[e].kind \in {"push", "acked"}
        PROVE  Elems(call[e].ops) \in SUBSET Memories
    BY <2>1, CallShape DEF SyncInv, TypeOK, Elems
  <2>2. ASSUME NEW r \in late PROVE Elems(r.ops) \in SUBSET Memories
    BY DEF SyncInv, TypeOK, Elems
  <2> QED
    BY <2>1, <2>2, <1>1, <1>5, SyncAssumption DEF SyncInv, BatchInv, Kept
<1>10. ClientInv'
  BY <1>1, <1>5 DEF SyncInv, ClientInv, FreshOK, FollowsOK, PageOK
<1> QED
  BY <1>6, <1>7, <1>8, <1>9, <1>10 DEF SyncInv

LEMMA ReconnectKeepsInv ==
  ASSUME SyncInv, NEW d \in Devices, Reconnect(d)
  PROVE  SyncInv'
<1>1. /\ paired' = [paired EXCEPT ![d] = user]
      /\ UNCHANGED <<log, epoch, minted, user, flaky, late, mine, synced, got, cursor, known, call>>
  BY DEF Reconnect, hubVars, netVars
<1>2. TypeOK'
  BY <1>1 DEF SyncInv, TypeOK
<1>3. OwnInv' /\ HubInv' /\ BatchInv'
  BY <1>1 DEF SyncInv, OwnInv, HubInv, NoDuplicates, BatchInv, Kept
<1>4. ClientInv'
  BY <1>1 DEF SyncInv, ClientInv, FreshOK, FollowsOK, PageOK
<1> QED
  BY <1>2, <1>3, <1>4 DEF SyncInv

-----------------------------------------------------------------------------
(* The theorems                                                            *)

\* Theorem: SyncInv is an invariant of the hub, the network and the devices.
THEOREM SyncInvariant == Spec => []SyncInv
<1>1. Init => SyncInv
  <2> SUFFICES ASSUME Init PROVE SyncInv
    OBVIOUS
  <2>1. TypeOK
    BY SyncAssumption DEF Init, TypeOK, NoCall, Call
  <2>2. OwnInv /\ HubInv
    BY DEF Init, OwnInv, HubInv, NoDuplicates, Unique, Kept, Elems
  <2>3. BatchInv /\ ClientInv
    BY DEF Init, BatchInv, ClientInv, FreshOK, FollowsOK, PageOK, NoCall
  <2> QED
    BY <2>1, <2>2, <2>3 DEF SyncInv
<1>2. SyncInv /\ [Next]_vars => SyncInv'
  <2> SUFFICES ASSUME SyncInv, [Next]_vars PROVE SyncInv'
    OBVIOUS
  <2>1. CASE UNCHANGED vars
    BY <2>1 DEF vars, hubVars, netVars, clientVars, SyncInv, TypeOK, OwnInv, HubInv, NoDuplicates,
       BatchInv, Kept, ClientInv, FreshOK, FollowsOK, PageOK
  <2>2. ASSUME NEW d \in Devices, SyncStep(d) \/ Reconnect(d) PROVE SyncInv'
    BY <2>2, SendPushKeepsInv, HandlePushKeepsInv, RecvAcksKeepsInv, HandleChangesKeepsInv,
       RecvPageKeepsInv, CallEndsKeepsInv, ReconnectKeepsInv DEF SyncStep
  <2>3. ASSUME NEW d \in Devices, NEW m \in Memories, Remember(d, m) PROVE SyncInv'
    BY <2>3, RememberKeepsInv
  <2>4. ASSUME NEW r \in late, HandleLatePush(r) PROVE SyncInv'
    BY <2>4, HandleLatePushKeepsInv
  <2>5. CASE BumpEpoch \/ Wipe
    BY <2>5, NewEpochKeepsInv
  <2> QED
    BY <2>1, <2>2, <2>3, <2>4, <2>5 DEF Next
<1> QED
  BY <1>1, <1>2, PTL DEF Spec

\* Theorem: type correctness; in particular no device knows an epoch that the hub
\* has not drawn.
THEOREM SyncTypeOK == Spec => []TypeOK
<1>1. SyncInv => TypeOK
  BY DEF SyncInv
<1> QED
  BY <1>1, SyncInvariant, PTL

\* Theorem: no retry, late request, lost answer, rotated epoch or deleted hub makes
\* a device skip an op of the log it follows, or point past its end.
THEOREM SyncNothingSkipped == Spec => []NothingSkipped
<1>1. SyncInv => NothingSkipped
  BY DEF SyncInv, ClientInv, FollowsOK, NothingSkipped
<1> QED
  BY <1>1, SyncInvariant, PTL

\* Theorem: a device that follows the hub has stamped no row that the hub's log
\* does not hold.
THEOREM SyncStampedIsStored == Spec => []StampedIsStored
<1>1. SyncInv => StampedIsStored
  BY DEF SyncInv, ClientInv, FollowsOK, StampedIsStored
<1> QED
  BY <1>1, SyncInvariant, PTL

\* Theorem: however often a push is sent again, and however late it is handled, the
\* log holds a memory once.
THEOREM SyncNoDuplicates == Spec => []NoDuplicates
<1>1. SyncInv => NoDuplicates
  BY DEF SyncInv, HubInv
<1> QED
  BY <1>1, SyncInvariant, PTL

-----------------------------------------------------------------------------
(* The hub of SyncSystem is the one OpLog promises. Its log is a sequence of *)
(* memories; the table has a row for each, and as a memory comes into it by  *)
(* a push that is then answered, every row has been acknowledged.            *)

Row(m)    == [key |-> m, digest |-> "body"]
Rows(s)   == [i \in DOMAIN s |-> Row(s[i])]
AcksOf(s) == {[key |-> s[i], digest |-> "body", seq |-> i] : i \in DOMAIN s}

Hub == INSTANCE OpLog WITH Keys <- Memories, Digests <- {"body"},
                           Batches <- {Rows(b) : b \in Seq(Memories)},
                           log <- Rows(log), promised <- AcksOf(log)

\* The table of a sequence without repetitions.
LEMMA RowsFacts ==
  ASSUME NEW s \in Seq(Memories), Unique(s)
  PROVE  /\ DOMAIN Rows(s) = 1..Len(s) /\ \A i \in 1..Len(s) : Rows(s)[i] = Row(s[i])
         /\ Hub!KeysIn(Rows(s)) = Elems(s)
         /\ Hub!OneSeqPerKey(Rows(s)) /\ Hub!Gapless(Rows(s))
         /\ \A i \in 1..Len(s) : Hub!SeqOf(s[i], Rows(s)) = i
<1> DEFINE t == Rows(s)
           n == Len(s)
<1>1. n \in Nat /\ DOMAIN s = 1..n
  OBVIOUS
<1>2. DOMAIN t = 1..n /\ \A i \in 1..n : t[i] = Row(s[i])
  BY <1>1, Zenon DEF Rows
<1>3. \A m : Row(m).key = m
  BY DEF Row
<1>4. \A i \in 1..n : t[i].key = s[i]
  BY <1>2, <1>3
<1> HIDE DEF t, n
<1>5. Hub!KeysIn(t) = Elems(s)
  BY <1>1, <1>2, <1>4 DEF Hub!KeysIn, Elems
<1>6. \A i, j \in 1..n : s[i] = s[j] => i = j
  BY <1>1 DEF Unique
<1>7. Hub!OneSeqPerKey(t)
  BY <1>2, <1>4, <1>6 DEF Hub!OneSeqPerKey
<1>8. Hub!LastSeq(t) = n
  <2>1. CASE n = 0
    <3>1. DOMAIN t = {}
      BY <1>2, <2>1
    <3> QED
      BY <2>1, <3>1, Zenon DEF Hub!LastSeq
  <2>2. CASE n # 0
    <3>1. DOMAIN t # {} /\ n \in DOMAIN t /\ \A r \in DOMAIN t : r <= n
      <4>1. n \in 1..n /\ \A r \in 1..n : r <= n
        BY <1>1, <2>2
      <4> QED
        BY <1>2, <4>1, Zenon
    <3>2. \A m \in DOMAIN t : (\A r \in DOMAIN t : r <= m) => m = n
      <4>1. \A m \in 1..n : n <= m => m = n
        BY <1>1
      <4> QED
        BY <1>2, <3>1, <4>1, Zenon
    <3> QED
      BY <3>1, <3>2, Zenon DEF Hub!LastSeq
  <2> QED
    BY <2>1, <2>2
<1>9. Hub!Gapless(t)
  BY <1>2, <1>8 DEF Hub!Gapless
<1>10. ASSUME NEW i \in 1..n PROVE Hub!SeqOf(s[i], t) = i
  <2>1. i \in DOMAIN t /\ t[i].key = s[i]
    BY <1>2, <1>4
  <2>2. \A r \in DOMAIN t : t[r].key = s[i] => r = i
    BY <1>2, <1>4, <1>6
  <2> QED
    BY <2>1, <2>2, Zenon DEF Hub!SeqOf
<1> QED
  BY <1>2, <1>5, <1>7, <1>9, <1>10 DEF t, n

\* A push that is handled, be it late or repeated, is what OpLog calls accepted.
LEMMA PushIsAccept ==
  ASSUME log \in Seq(Memories), Unique(log), NEW b \in Seq(Memories), Unique(b),
         log' = Push(b), epoch' = epoch
  PROVE  Hub!Accept(Rows(b))
<1>1. log' \in Seq(Memories) /\ Unique(log') /\ Grows(log, log') /\ Elems(log') = Elems(log) \cup Elems(b)
  BY PushFacts
<1> DEFINE T == Rows(log)
           U == Rows(log')
           B == Rows(b)
<1>2. /\ DOMAIN T = 1..Len(log) /\ \A i \in 1..Len(log) : T[i] = Row(log[i])
      /\ Hub!KeysIn(T) = Elems(log)
  BY RowsFacts
<1>3. /\ DOMAIN U = 1..Len(log') /\ \A i \in 1..Len(log') : U[i] = Row(log'[i])
      /\ Hub!KeysIn(U) = Elems(log') /\ Hub!OneSeqPerKey(U) /\ Hub!Gapless(U)
      /\ \A i \in 1..Len(log') : Hub!SeqOf(log'[i], U) = i
  BY <1>1, RowsFacts
<1>4. /\ DOMAIN B = 1..Len(b) /\ \A i \in 1..Len(b) : B[i] = Row(b[i])
      /\ Hub!KeysIn(B) = Elems(b)
  BY RowsFacts
<1>5. /\ Len(log) \in Nat /\ Len(log') \in Nat /\ Len(log) <= Len(log')
      /\ \A i \in 1..Len(log) : i \in 1..Len(log') /\ log'[i] = log[i]
  BY <1>1 DEF Grows
<1>6. \A m : Row(m).key = m /\ Row(m).digest = "body"
  BY DEF Row
<1> HIDE DEF T, U, B
<1>7. Hub!Extends(T, U)
  BY <1>2, <1>3, <1>5 DEF Hub!Extends
<1>8. Hub!KeysIn(U) = Hub!KeysIn(T) \cup {B[i].key : i \in DOMAIN B}
  BY <1>1, <1>2, <1>3, <1>4 DEF Hub!KeysIn
<1>9. ASSUME NEW i \in 1..Len(log'), i \notin 1..Len(log)
      PROVE  \E j \in 1..Len(b) : log'[i] = b[j]
  <2>1. log'[i] \in Elems(log')
    BY <1>1 DEF Elems
  <2>2. log'[i] \notin Elems(log)
    <3> SUFFICES ASSUME log'[i] \in Elems(log) PROVE FALSE
      OBVIOUS
    <3>1. PICK k \in 1..Len(log) : log'[i] = log[k]
      BY DEF Elems
    <3>2. k \in DOMAIN log' /\ i \in DOMAIN log' /\ log'[i] = log'[k]
      BY <1>1, <1>5, <1>9, <3>1
    <3>3. i = k
      BY <1>1, <3>2, Zenon DEF Unique
    <3> QED
      BY <1>9, <3>1, <3>3
  <2>3. log'[i] \in Elems(b)
    BY <1>1, <2>1, <2>2
  <2> QED
    BY <2>3 DEF Elems
<1>10. \A i \in DOMAIN U \ DOMAIN T : \E j \in DOMAIN B : U[i] = B[j]
  <2> SUFFICES ASSUME NEW i \in DOMAIN U, i \notin DOMAIN T PROVE \E j \in DOMAIN B : U[i] = B[j]
    OBVIOUS
  <2>1. i \in 1..Len(log') /\ i \notin 1..Len(log)
    BY <1>2, <1>3, Zenon
  <2>2. PICK j \in 1..Len(b) : log'[i] = b[j]
    BY <1>9, <2>1
  <2>3. U[i] = Row(log'[i]) /\ B[j] = Row(b[j]) /\ j \in DOMAIN B
    BY <1>3, <1>4, <2>1, <2>2, Zenon
  <2> QED
    BY <2>2, <2>3, Zenon
<1> DEFINE ack(i) == [key |-> B[i].key, digest |-> B[i].digest, seq |-> Hub!SeqOf(B[i].key, U)]
           own(s, i) == [key |-> s[i], digest |-> "body", seq |-> i]
<1>11. ASSUME NEW i \in DOMAIN B PROVE \E k \in DOMAIN log' : ack(i) = own(log', k)
  <2>1. i \in 1..Len(b) /\ B[i].key = b[i] /\ B[i].digest = "body"
    BY <1>4, <1>6
  <2>2. b[i] \in Elems(log')
    <3>1. b[i] \in Elems(b)
      BY <2>1 DEF Elems
    <3> QED
      BY <1>1, <3>1, Zenon
  <2>3. PICK k \in 1..Len(log') : b[i] = log'[k]
    BY <1>1, <2>2 DEF Elems
  <2>4. Hub!SeqOf(B[i].key, U) = k
    BY <1>3, <2>1, <2>3
  <2>5. k \in DOMAIN log'
    BY <1>1, <2>3
  <2> QED
    BY <2>1, <2>3, <2>4, <2>5
<1>12. ASSUME NEW k \in DOMAIN log', k \notin DOMAIN log
       PROVE  \E i \in DOMAIN B : own(log', k) = ack(i)
  <2>1. k \in 1..Len(log') /\ k \notin 1..Len(log)
    BY <1>1, <1>12
  <2>2. PICK i \in 1..Len(b) : log'[k] = b[i]
    BY <1>9, <2>1
  <2>3. i \in DOMAIN B /\ B[i].key = log'[k] /\ B[i].digest = "body"
    BY <1>4, <1>6, <2>2
  <2>4. Hub!SeqOf(B[i].key, U) = k
    BY <1>3, <2>1, <2>3
  <2> QED
    BY <2>3, <2>4
<1>13. \A k \in DOMAIN log : k \in DOMAIN log' /\ own(log', k) = own(log, k)
  BY <1>1, <1>5
<1>14. AcksOf(log') = AcksOf(log) \cup {ack(i) : i \in DOMAIN B}
  <2> HIDE DEF ack
  <2>1. AcksOf(log) = {own(log, i) : i \in DOMAIN log} /\ AcksOf(log') = {own(log', i) : i \in DOMAIN log'}
    BY Zenon DEF AcksOf
  <2> HIDE DEF own
  <2> QED
    BY <1>11, <1>12, <1>13, <2>1
<1> QED
  BY <1>3, <1>7, <1>8, <1>10, <1>14, Zenon DEF Hub!Accept, T, U, B

\* Theorem: the hub that the devices replicate through is the one that HubStore is
\* shown to implement. Between two deletions of its database, each of its steps is a
\* push that OpLog accepts, a rotation of the epoch, or invisible in the log.
THEOREM SyncImplementsOpLog ==
  Spec => Hub!LogInit /\ [][Hub!LogNext \/ Wipe]_(Hub!logVars)
<1>1. Init => Hub!LogInit
  <2> SUFFICES ASSUME Init PROVE Hub!LogInit
    OBVIOUS
  <2>1. log = <<>> /\ epoch = 1 /\ DOMAIN <<>> = {}
    BY DEF Init
  <2>2. Rows(log) = Hub!EmptyTable
    BY <2>1 DEF Rows, Hub!EmptyTable
  <2>3. AcksOf(log) = {}
    BY <2>1 DEF AcksOf
  <2> QED
    BY <2>1, <2>2, <2>3 DEF Hub!LogInit
<1>2. SyncInv /\ [Next]_vars => [Hub!LogNext \/ Wipe]_(Hub!logVars)
  <2> SUFFICES ASSUME SyncInv, [Next]_vars PROVE [Hub!LogNext \/ Wipe]_(Hub!logVars)
    OBVIOUS
  <2>1. log \in Seq(Memories) /\ Unique(log)
    BY DEF SyncInv, TypeOK, HubInv, NoDuplicates, Unique
  <2>2. ASSUME NEW b \in Seq(Memories), Unique(b), log' = Push(b), epoch' = epoch PROVE Hub!LogNext
    <3>1. Hub!Accept(Rows(b))
      BY <2>1, <2>2, PushIsAccept
    <3> QED
      BY <3>1, Zenon DEF Hub!LogNext
  <2>3. ASSUME NEW d \in Devices, HandlePush(d) PROVE Hub!LogNext
    <3>1. call[d].kind = "push" /\ log' = Push(call[d].ops) /\ epoch' = epoch
      BY <2>3, Zenon DEF HandlePush
    <3>2. call[d].ops \in Seq(Memories) /\ Unique(call[d].ops)
      BY <3>1, CallShape DEF SyncInv, TypeOK, BatchInv
    <3> QED
      BY <2>2, <3>1, <3>2
  <2>4. ASSUME NEW r \in late, HandleLatePush(r) PROVE Hub!LogNext \/ UNCHANGED <<log, epoch>>
    <3>1. r.ops \in Seq(Memories) /\ Unique(r.ops)
      BY LateStays
    <3>2. (log' = log \/ log' = Push(r.ops)) /\ epoch' = epoch
      BY <2>4, Zenon DEF HandleLatePush
    <3> QED
      BY <2>2, <3>1, <3>2
  <2>5. ASSUME BumpEpoch PROVE Hub!LogNext
    <3>1. epoch' # epoch
      BY <2>5 DEF BumpEpoch, SyncInv, TypeOK
    <3>2. log' = log
      BY <2>5 DEF BumpEpoch
    <3> QED
      BY <3>1, <3>2, Zenon DEF Hub!LogNext, Hub!Rotate
  <2>6. \/ UNCHANGED <<log, epoch>> \/ BumpEpoch \/ Wipe
        \/ \E d \in Devices : HandlePush(d)
        \/ \E r \in late : HandleLatePush(r)
    BY Zenon DEF Next, SyncStep, vars, hubVars, SendPush, RecvAcks, SendPull, HandleChanges, RecvPage,
       Refuse, GiveUp, Reconnect, Remember
  <2>7. UNCHANGED <<log, epoch>> => UNCHANGED Hub!logVars
    BY Zenon DEF Hub!logVars
  <2> QED
    BY <2>3, <2>4, <2>5, <2>6, <2>7
<1> QED
  BY <1>1, <1>2, SyncInvariant, PTL DEF Spec
=============================================================================
