----------------------------- MODULE ServeProofs -----------------------------
(***************************************************************************)
(* Proofs about ServeProcess, for any finite set of serves and other       *)
(* commands on one data directory.                                         *)
(*                                                                         *)
(* SettledLockStands is not inductive: it must also be said of a serve     *)
(* that filled its lock alone that no other one is past the lock file,     *)
(* about to fill one or about to remove one (SoloInv). Nor is              *)
(* PairedStaysPaired: what a device was given agrees with what a serve     *)
(* has loaded because both agree with the files, so the invariant says how *)
(* either relates to the meta row (MetaInv) and to the key file (KeyInv).  *)
(***************************************************************************)
EXTENDS ServeProcess, FunctionTheorems, FiniteSetTheorems, TLAPS

Proc == [pc : Holding \cup Judging \cup {"off", "create", "fill"},
         pid : Pids \cup {NoPid}, id : Nat, key : 0..MaxKeys, gen : 0..MaxRotations]

\* A key is only kept by a serve that has loaded one, and a serve has a pid.
TypeInv ==
  /\ TypeOK
  /\ \A c \in Callers : at[c].key # NoKey => at[c].pc \in {"listen", "up", "drain", "release"}
  /\ \A s \in Serves : at[s].pc # "off" => at[s].pid # NoPid

\* A serve that filled its lock alone has it, and no other serve is past the
\* lock file, about to fill one or about to remove one.
SoloInv ==
  \A s \in solo :
    /\ Holds(s) /\ lock = [by |-> s, pid |-> at[s].pid]
    /\ \A t \in Serves \ {s} : ~Holds(t) /\ at[t].pc \notin {"fill", "stale"}

\* Where a serve has the user id, and where it has the key as well.
Identified == {"key", "create key", "write key", "listen", "up", "drain"}
Loaded     == {"listen", "up", "drain"}
Creating   == {"create key", "write key"}

\* As long as no first runs have overlapped: one row is inserted, by one caller,
\* and it is the identity of every serve and of every device.
MetaInv ==
  /\ \A c, d \in Callers : at[c].pc = "insert" /\ at[d].pc = "insert" => c = d
  /\ \A c \in Callers : at[c].pc = "insert" => meta = <<>>
  /\ \A s \in Serves : at[s].pc \in Identified => meta # <<>> /\ at[s].id = meta[1]
  /\ given # NoCredentials => meta # <<>> /\ given.id = meta[1]

\* As long as no first runs have overlapped: one caller at a time creates the key
\* file, none once it has a key, and what was read from it is its key, unless it
\* has been replaced since.
CreateInv ==
  /\ \A c \in Callers : /\ at[c].pc = "create key" => psk.key = NoKey
                        /\ at[c].pc = "write key" => psk.key = Empty /\ at[c].gen = psk.gen
  /\ \A c, d \in Callers : at[c].pc \in Creating /\ at[d].pc \in Creating => c = d

LoadInv ==
  \A s \in Serves : at[s].pc \in Loaded =>
    /\ psk.key \in 1..MaxKeys /\ at[s].gen <= psk.gen
    /\ at[s].gen = psk.gen => at[s].key = psk.key
    /\ given # NoCredentials /\ given.gen = at[s].gen => given.key = at[s].key

GivenInv ==
  given # NoCredentials =>
    /\ psk.key \in 1..MaxKeys /\ given.gen <= psk.gen
    /\ given.gen = psk.gen => given.key = psk.key

KeyInv == CreateInv /\ LoadInv /\ GivenInv

CredInv == /\ raced => given = NoCredentials
           /\ ~raced => MetaInv /\ KeyInv

ServeInv == TypeInv /\ SoloInv /\ CredInv

\* There is always a key that nobody uses: the caller that asks has none.
LEMMA FreshKeyExists ==
  ASSUME TypeOK, NEW c \in Callers, at[c].key = NoKey
  PROVE  FreshKey \in 1..MaxKeys /\ FreshKey \notin KeysInUse
<1> DEFINE I == {at[d].key : d \in Callers}
           f == [d \in Callers |-> at[d].key]
<1>1. f \in Surjection(Callers, I)
  BY DEF Surjection
<1>2. IsFiniteSet(I) /\ Cardinality(I) <= Cardinality(Callers)
  BY <1>1, FS_Surjection, ServeAssumption
<1>3. Cardinality(Callers) \in Nat /\ Cardinality(I) \in Nat
  BY <1>2, FS_CardinalityType, ServeAssumption
<1>4. /\ IsFiniteSet(I \cup {psk.key})
      /\ Cardinality(I \cup {psk.key}) \in Nat
      /\ Cardinality(I \cup {psk.key}) <= Cardinality(Callers) + 1
  <2> HIDE DEF I
  <2>1. IsFiniteSet(I \cup {psk.key})
        /\ Cardinality(I \cup {psk.key}) = IF psk.key \in I THEN Cardinality(I) ELSE Cardinality(I) + 1
    BY <1>2, FS_AddElement
  <2> QED
    BY <1>2, <1>3, <2>1
<1>5. /\ IsFiniteSet(KeysInUse) /\ Cardinality(KeysInUse) \in Nat
      /\ Cardinality(KeysInUse) <= MaxKeys
  <2> DEFINE J == I \cup {psk.key}
  <2>1. KeysInUse = J \cup {given.key}
    BY DEF KeysInUse
  <2> HIDE DEF J
  <2>2. IsFiniteSet(J \cup {given.key})
        /\ Cardinality(J \cup {given.key}) = IF given.key \in J THEN Cardinality(J) ELSE Cardinality(J) + 1
    BY <1>4, FS_AddElement DEF J
  <2> QED
    BY <1>3, <1>4, <2>1, <2>2, ServeAssumption DEF J
<1>6. Cardinality(0..MaxKeys) = MaxKeys + 1
  BY FS_Interval, ServeAssumption
<1>7. ~(0..MaxKeys \subseteq KeysInUse)
  <2> SUFFICES ASSUME 0..MaxKeys \subseteq KeysInUse PROVE FALSE
    OBVIOUS
  <2>1. Cardinality(0..MaxKeys) <= Cardinality(KeysInUse)
    BY <1>5, FS_Subset
  <2> QED
    BY <1>5, <1>6, <2>1, ServeAssumption
<1>8. 0 \in KeysInUse
  BY DEF KeysInUse, NoKey
<1>9. \E k \in 1..MaxKeys : k \notin KeysInUse
  BY <1>7, <1>8, ServeAssumption
<1> QED
  BY <1>9 DEF FreshKey

LockFile    == [by : Serves \cup {NoServe}, pid : Pids \cup {NoPid}]
KeyFile     == [key : Empty..MaxKeys, gen : 0..MaxRotations]
Credentials == [id : Nat, key : 0..MaxKeys, gen : 0..MaxRotations]

\* What a caller may be like, so that the type invariant holds of it.
ProcOK(c, r) ==
  /\ r \in Proc
  /\ r.key # NoKey => r.pc \in {"listen", "up", "drain", "release"}
  /\ c \in Serves /\ r.pc # "off" => r.pid # NoPid

\* The type invariant, variable by variable.
LEMMA TypeParts ==
  TypeInv <=> /\ lock \in LockFile /\ meta \in Seq(Nat) /\ psk \in KeyFile
              /\ at \in [Callers -> Proc] /\ faults \in 0..MaxFaults
              /\ solo \subseteq Serves /\ raced \in BOOLEAN /\ given \in Credentials
              /\ \A c \in Callers : ProcOK(c, at[c])
BY DEF TypeInv, TypeOK, LockFile, KeyFile, Credentials, Proc, ProcOK, Callers

\* A step that moves one caller.
LEMMA MoveKeepsType ==
  ASSUME TypeInv, NEW c \in Callers, NEW r, ProcOK(c, r), at' = [at EXCEPT ![c] = r],
         lock' \in LockFile, meta' \in Seq(Nat), psk' \in KeyFile, faults' \in 0..MaxFaults,
         solo' \subseteq Serves, raced' \in BOOLEAN, given' \in Credentials
  PROVE  TypeInv'
<1>1. at' \in [Callers -> Proc] /\ \A d \in Callers : at'[d] = IF d = c THEN r ELSE at[d]
  BY TypeParts DEF ProcOK
<1>2. \A d \in Callers : ProcOK(d, at'[d])
  BY <1>1, TypeParts
<1> QED
  BY <1>1, <1>2 DEF TypeInv, TypeOK, LockFile, KeyFile, Credentials, Proc, ProcOK, Callers

\* Nobody runs at first.
LEMMA InitServeInv == Init => ServeInv
<1> SUFFICES ASSUME Init PROVE ServeInv
  OBVIOUS
<1>1. 0 \in 0..MaxKeys /\ 0 \in 0..MaxRotations /\ 0 \in 0..MaxFaults /\ 0 \in Empty..MaxKeys
  BY ServeAssumption DEF Empty
<1>2. Off \in Proc /\ NoLock \in LockFile /\ NoCredentials \in Credentials
  BY <1>1 DEF Off, Proc, NoLock, LockFile, NoCredentials, Credentials, NoKey
<1>3. \A c \in Callers : ProcOK(c, Off) /\ at[c] = Off
  BY <1>2 DEF ProcOK, Off, Init
<1>4. <<>> \in Seq(Nat) /\ psk \in KeyFile
  BY <1>1 DEF Init, KeyFile, NoKey
<1>5. TypeInv
  BY <1>1, <1>2, <1>3, <1>4, TypeParts DEF Init
<1>6. SoloInv
  BY DEF Init, SoloInv
<1>7. CredInv
  BY <1>3 DEF Init, CredInv, MetaInv, KeyInv, CreateInv, LoadInv, GivenInv, Off, Identified, Loaded, Creating, Callers
<1> QED
  BY <1>5, <1>6, <1>7 DEF ServeInv

\* The lock file, from start to release.
LEMMA LockKeepsType ==
  ASSUME TypeInv, NEW s \in Serves,
         StartServe(s) \/ LockStep(s) \/ FillFails(s) \/ Release(s)
  PROVE  TypeInv'
<1>a. s \in Callers /\ at[s] \in Proc /\ ProcOK(s, at[s]) /\ at \in [Callers -> Proc]
  BY TypeParts DEF Callers
<1>b. NoLock \in LockFile /\ ProcOK(s, Off) /\ lock \in LockFile
  <2>1. 0 \in 0..MaxKeys /\ 0 \in 0..MaxRotations
    BY ServeAssumption
  <2> QED
    BY <2>1, TypeParts DEF ProcOK, Off, Proc, NoLock, LockFile, NoKey
<1>c. \A pc \in {"create", "fill", "meta", "exists", "stale"} :
        at[s].key = NoKey /\ at[s].pid # NoPid => ProcOK(s, [at[s] EXCEPT !.pc = pc])
  BY <1>a DEF ProcOK, Proc, Holding, Judging
<1>1. CASE StartServe(s)
  <2>1. PICK pid \in Pids : at' = [at EXCEPT ![s] = [Off EXCEPT !.pc = "create", !.pid = pid]]
    BY <1>1 DEF StartServe
  <2>2. ProcOK(s, [Off EXCEPT !.pc = "create", !.pid = pid])
    BY <1>b, ServeAssumption DEF ProcOK, Off, Proc
  <2> QED
    BY <1>1, <1>a, <2>1, <2>2, MoveKeepsType, TypeParts DEF StartServe, files, history
<1>2. CASE CreateLock(s)
  <2>1. at[s].key = NoKey /\ at[s].pid # NoPid
    BY <1>2, <1>a DEF CreateLock, ProcOK
  <2>2. PICK pc \in {"fill", "exists"} : at' = [at EXCEPT ![s] = [at[s] EXCEPT !.pc = pc]]
    BY <1>2, <1>a DEF CreateLock, Goto
  <2>3. lock' \in LockFile
    BY <1>2, <1>b DEF CreateLock, LockFile
  <2> QED
    BY <1>2, <1>a, <1>c, <2>1, <2>2, <2>3, MoveKeepsType, TypeParts DEF CreateLock, history
<1>3. CASE FillLock(s)
  <2>1. at[s].key = NoKey /\ at[s].pid # NoPid
    BY <1>3, <1>a DEF FillLock, ProcOK
  <2>2. at' = [at EXCEPT ![s] = [at[s] EXCEPT !.pc = "meta"]]
    BY <1>3, <1>a DEF FillLock, Goto
  <2>3. lock' \in LockFile /\ solo' \subseteq Serves
    BY <1>3, <1>a, <1>b, TypeParts DEF FillLock, LockFile, Proc
  <2> QED
    BY <1>3, <1>a, <1>c, <2>1, <2>2, <2>3, MoveKeepsType, TypeParts DEF FillLock
<1>4. CASE JudgeLock(s)
  <2>1. at[s].key = NoKey /\ at[s].pid # NoPid
    BY <1>4, <1>a DEF JudgeLock, ProcOK
  <2>2. PICK r \in {Off, [at[s] EXCEPT !.pc = "stale"]} : at' = [at EXCEPT ![s] = r]
    BY <1>4, <1>a DEF JudgeLock
  <2>3. ProcOK(s, r)
    BY <1>b, <1>c, <2>1
  <2> QED
    BY <1>4, <1>a, <2>2, <2>3, MoveKeepsType, TypeParts DEF JudgeLock, files, history
<1>5. CASE ClearStale(s)
  <2>1. at[s].key = NoKey /\ at[s].pid # NoPid
    BY <1>5, <1>a DEF ClearStale, ProcOK
  <2>2. PICK r \in {Off, [at[s] EXCEPT !.pc = "create"]} : at' = [at EXCEPT ![s] = r]
    BY <1>5, <1>a DEF ClearStale
  <2>3. ProcOK(s, r)
    BY <1>b, <1>c, <2>1
  <2> QED
    BY <1>5, <1>a, <1>b, <2>2, <2>3, MoveKeepsType, TypeParts DEF ClearStale, history
<1>6. CASE FillFails(s)
  <2>1. faults' \in 0..MaxFaults
    BY <1>6, TypeParts, ServeAssumption DEF FillFails, Fault
  <2> QED
    BY <1>6, <1>a, <1>b, <2>1, MoveKeepsType, TypeParts DEF FillFails, history
<1>7. CASE Release(s)
  BY <1>7, <1>a, <1>b, MoveKeepsType, TypeParts DEF Release
<1> QED
  BY <1>1, <1>2, <1>3, <1>4, <1>5, <1>6, <1>7 DEF LockStep

\* A key that was drawn is one of 1..MaxKeys, for a caller that has none.
LEMMA DrawnKey ==
  ASSUME TypeInv, NEW c \in Callers, at[c].pc \notin {"listen", "up", "drain", "release"}
  PROVE  FreshKey \in 1..MaxKeys /\ FreshKey \in 0..MaxKeys /\ FreshKey \in Empty..MaxKeys
<1>1. at[c].key = NoKey /\ TypeOK
  BY TypeParts DEF ProcOK, TypeInv
<1>2. FreshKey \in 1..MaxKeys
  BY <1>1, FreshKeyExists
<1> QED
  BY <1>2, ServeAssumption DEF Empty

\* store.Open and LoadOrCreate, in serve and in the other commands.
LEMMA StepKeepsType ==
  ASSUME TypeInv, NEW c \in Callers, Step(c)
  PROVE  TypeInv'
<1>a. /\ at[c] \in Proc /\ ProcOK(c, at[c]) /\ at \in [Callers -> Proc]
      /\ at[c].pc \in {"meta", "insert", "key", "create key", "write key"}
      /\ at[c].key = NoKey /\ (c \in Serves => at[c].pid # NoPid)
  <2>1. at[c].pc \in {"meta", "insert", "key", "create key", "write key"}
    BY DEF Step, OpenStep, KeyStep, ReadMeta, InsertMeta, LoadKey, CreateKey, WriteKey
  <2> QED
    BY <2>1, TypeParts DEF ProcOK
<1>b. ProcOK(c, Off) /\ NoCredentials \in Credentials
  <2>1. 0 \in 0..MaxKeys /\ 0 \in 0..MaxRotations
    BY ServeAssumption
  <2> QED
    BY <2>1 DEF ProcOK, Off, Proc, NoCredentials, Credentials, NoKey
<1>c. \A pc \in {"insert", "create key", "release"} :
        ProcOK(c, [at[c] EXCEPT !.pc = pc])
  BY <1>a DEF ProcOK, Proc, Holding
<1>e. ASSUME NEW here, Overlap(here) PROVE raced' \in BOOLEAN /\ given' \in Credentials
  BY <1>b, <1>e, TypeParts DEF Overlap
<1>f. ASSUME NEW n \in Nat PROVE ProcOK(c, Opened(c, n))
  <2>1. CASE c \in Serves
    BY <1>a, <2>1 DEF ProcOK, Proc, Opened, Holding
  <2> QED
    BY <1>b, <2>1 DEF Opened
<1>g. ASSUME NEW k \in 0..MaxKeys PROVE ProcOK(c, WithKey(c, k))
  <2>1. CASE c \in Serves
    BY <1>a, <2>1, TypeParts DEF ProcOK, Proc, WithKey, Holding, KeyFile
  <2> QED
    BY <1>b, <2>1 DEF WithKey
<1>1. CASE ReadMeta(c)
  <2>1. meta # <<>> => meta[1] \in Nat
    BY TypeParts
  <2> DEFINE r == IF meta = <<>> THEN [at[c] EXCEPT !.pc = "insert"] ELSE Opened(c, meta[1])
  <2>2. at' = [at EXCEPT ![c] = r]
    BY <1>1, <1>a DEF ReadMeta
  <2>3. ProcOK(c, r)
    BY <1>c, <1>f, <2>1
  <2> HIDE DEF r
  <2>4. raced' \in BOOLEAN /\ given' \in Credentials
    BY <1>1, <1>e DEF ReadMeta
  <2> QED
    BY <1>1, <2>2, <2>3, <2>4, MoveKeepsType, TypeParts DEF ReadMeta, files
<1>2. CASE InsertMeta(c)
  <2>1. Len(meta) + 1 \in Nat /\ Append(meta, Len(meta) + 1) \in Seq(Nat)
    BY TypeParts
  <2> QED
    BY <1>2, <1>f, <2>1, MoveKeepsType, TypeParts DEF InsertMeta, history
<1>3. CASE LoadKey(c)
  <2> DEFINE r == CASE psk.key = NoKey -> [at[c] EXCEPT !.pc = "create key"]
                    [] psk.key = Empty -> IF c \in Serves THEN [at[c] EXCEPT !.pc = "release"] ELSE Off
                    [] OTHER -> WithKey(c, psk.key)
  <2>1. at' = [at EXCEPT ![c] = r]
    BY <1>3, <1>a DEF LoadKey
  <2>2. psk.key # Empty => psk.key \in 0..MaxKeys
    BY TypeParts, ServeAssumption DEF KeyFile, Empty
  <2>3. ProcOK(c, r)
    <3>1. CASE psk.key = NoKey
      <4>1. r = [at[c] EXCEPT !.pc = "create key"]
        BY <3>1 DEF Empty, NoKey
      <4> HIDE DEF r
      <4> QED
        BY <1>c, <4>1
    <3>2. CASE psk.key = Empty
      BY <1>b, <1>c, <3>2 DEF Empty, NoKey
    <3>3. CASE psk.key # NoKey /\ psk.key # Empty
      BY <1>g, <2>2, <3>3
    <3> QED
      BY <3>1, <3>2, <3>3
  <2> HIDE DEF r
  <2>4. raced' \in BOOLEAN /\ given' \in Credentials
    BY <1>3, <1>e DEF LoadKey
  <2> QED
    BY <1>3, <2>1, <2>3, <2>4, MoveKeepsType, TypeParts DEF LoadKey, files
<1>4. CASE CreateKey(c)
  <2> DEFINE r == [at[c] EXCEPT !.pc = "write key", !.gen = psk.gen]
  <2>1. at' = [at EXCEPT ![c] = r]
    BY <1>4, <1>a DEF CreateKey, Proc
  <2>2. ProcOK(c, r)
    BY <1>a, TypeParts DEF ProcOK, Proc, Holding, KeyFile
  <2>3. psk' \in KeyFile
    <3>1. Empty \in Empty..MaxKeys
      BY ServeAssumption DEF Empty
    <3> QED
      BY <1>4, <3>1, TypeParts DEF CreateKey, KeyFile
  <2> HIDE DEF r
  <2> QED
    BY <1>4, <2>1, <2>2, <2>3, MoveKeepsType, TypeParts DEF CreateKey, history
<1>5. CASE WriteKey(c)
  <2>1. FreshKey \in 0..MaxKeys /\ FreshKey \in Empty..MaxKeys
    BY <1>a, DrawnKey
  <2>2. psk' \in KeyFile
    BY <1>5, <2>1, TypeParts DEF WriteKey, KeyFile
  <2> QED
    BY <1>5, <1>g, <2>1, <2>2, MoveKeepsType, TypeParts DEF WriteKey, history
<1> QED
  BY <1>1, <1>2, <1>3, <1>4, <1>5 DEF Step, OpenStep, KeyStep

\* The other commands, the serving hub, shutdown and death.
LEMMA WorldKeepsType ==
  ASSUME TypeInv, NEW c \in Callers,
         \/ c \in Serves /\ (Listen(c) \/ AnswerPair(c) \/ Shutdown(c) \/ ServeFails(c) \/ Drained(c))
         \/ c \in Clis /\ (StartDevices(c) \/ StartPair(c) \/ Rotate(c))
         \/ Crash(c)
  PROVE  TypeInv'
<1>a. at[c] \in Proc /\ ProcOK(c, at[c]) /\ at \in [Callers -> Proc]
  BY TypeParts
<1>b. ProcOK(c, Off) /\ NoCredentials \in Credentials
  <2>1. 0 \in 0..MaxKeys /\ 0 \in 0..MaxRotations
    BY ServeAssumption
  <2> QED
    BY <2>1 DEF ProcOK, Off, Proc, NoCredentials, Credentials, NoKey
<1>c. Fault => faults' \in 0..MaxFaults
  BY TypeParts, ServeAssumption DEF Fault
<1>1. CASE c \in Serves /\ (Listen(c) \/ Shutdown(c) \/ ServeFails(c) \/ Drained(c))
  <2>1. PICK pc \in {"up", "drain", "release"} : at' = [at EXCEPT ![c] = [at[c] EXCEPT !.pc = pc]]
    BY <1>1, <1>a DEF Listen, Shutdown, ServeFails, Drained, Goto
  <2>2. at[c].pc # "off"
    BY <1>1 DEF Listen, Shutdown, ServeFails, Drained
  <2>3. ProcOK(c, [at[c] EXCEPT !.pc = pc])
    BY <1>a, <2>2 DEF ProcOK, Proc, Holding
  <2>4. UNCHANGED <<files, history>> /\ faults' \in 0..MaxFaults
    BY <1>1, <1>c, TypeParts DEF Listen, Shutdown, ServeFails, Drained
  <2> QED
    BY <2>1, <2>3, <2>4, MoveKeepsType, TypeParts DEF files, history
<1>2. CASE AnswerPair(c)
  <2>1. psk.key # Empty => psk.key \in 0..MaxKeys
    BY TypeParts, ServeAssumption DEF KeyFile, Empty
  <2>2. given' \in Credentials
    BY <1>2, <1>a, <2>1, TypeParts DEF AnswerPair, Credentials, Proc, KeyFile
  <2>3. at' = [at EXCEPT ![c] = at[c]]
    BY <1>2, <1>a DEF AnswerPair
  <2> QED
    BY <1>2, <1>a, <2>2, <2>3, MoveKeepsType, TypeParts DEF AnswerPair, files
<1>3. CASE c \in Clis /\ (StartDevices(c) \/ StartPair(c))
  <2>1. PICK pc \in {"meta", "key"} : at' = [at EXCEPT ![c] = [Off EXCEPT !.pc = pc]]
    BY <1>3 DEF StartDevices, StartPair
  <2>2. ProcOK(c, [Off EXCEPT !.pc = pc])
    BY <1>3, <1>b, ServeAssumption DEF ProcOK, Proc, Off, Holding
  <2> QED
    BY <1>3, <2>1, <2>2, MoveKeepsType, TypeParts DEF StartDevices, StartPair, files, history
<1>4. CASE Rotate(c)
  <2>1. FreshKey \in Empty..MaxKeys
    BY <1>4, DrawnKey DEF Rotate, Off
  <2>2. psk' \in KeyFile
    BY <1>4, <2>1, TypeParts, ServeAssumption DEF Rotate, KeyFile
  <2>3. raced' \in BOOLEAN /\ given' \in Credentials
    BY <1>4, <1>b, TypeParts DEF Rotate, Overlap
  <2>4. at' = [at EXCEPT ![c] = at[c]]
    BY <1>4, <1>a DEF Rotate
  <2> QED
    BY <1>4, <1>a, <2>2, <2>3, <2>4, MoveKeepsType, TypeParts DEF Rotate
<1>5. CASE Crash(c)
  BY <1>5, <1>b, <1>c, MoveKeepsType, TypeParts DEF Crash, files
<1> QED
  BY <1>1, <1>2, <1>3, <1>4, <1>5

\* Every step keeps the types.
LEMMA NextKeepsType == TypeInv /\ [Next]_vars => TypeInv'
<1> SUFFICES ASSUME TypeInv, [Next]_vars PROVE TypeInv'
  OBVIOUS
<1>1. CASE UNCHANGED vars
  BY <1>1 DEF vars, TypeInv, TypeOK
<1>2. ASSUME NEW s \in Serves, StartServe(s) \/ LockStep(s) \/ FillFails(s) \/ Release(s) PROVE TypeInv'
  BY <1>2, LockKeepsType
<1>3. ASSUME NEW s \in Serves, Listen(s) \/ AnswerPair(s) \/ Shutdown(s) \/ ServeFails(s) \/ Drained(s)
      PROVE  TypeInv'
  BY <1>3, WorldKeepsType DEF Callers
<1>4. ASSUME NEW c \in Clis, StartDevices(c) \/ StartPair(c) \/ Rotate(c) PROVE TypeInv'
  BY <1>4, WorldKeepsType DEF Callers
<1>5. ASSUME NEW c \in Callers, Step(c) \/ Crash(c) PROVE TypeInv'
  BY <1>5, StepKeepsType, WorldKeepsType
<1> QED
  BY <1>1, <1>2, <1>3, <1>4, <1>5 DEF Next, ExitStep, Callers

-----------------------------------------------------------------------------
(* The run lock                                                            *)

\* A step of one caller c that leaves the lock file alone and moves no serve
\* into or past it: what holds of the settled serve still holds.
LEMMA MoveKeepsSolo ==
  ASSUME TypeInv, SoloInv, NEW c \in Callers, lock' = lock, solo' = solo,
         \A d \in Callers \ {c} : at'[d] = at[d],
         c \in Serves =>
           \/ Holds(c) /\ at'[c].pc \in Holding /\ at'[c].pid = at[c].pid
           \/ at[c].pc \notin Holding /\ at'[c].pc \notin Holding \cup {"fill", "stale"}
  PROVE  SoloInv'
<1>a. Serves \subseteq Callers /\ solo \subseteq Serves
  BY TypeParts DEF Callers
<1>1. ASSUME NEW s \in solo
      PROVE  at'[s].pc \in Holding /\ at'[s].pid = at[s].pid
  BY <1>a DEF SoloInv, Holds
<1>2. ASSUME NEW s \in solo, NEW t \in Serves \ {s}
      PROVE  at'[t].pc \notin Holding \cup {"fill", "stale"}
  BY <1>a DEF SoloInv, Holds
<1> QED
  BY <1>a, <1>1, <1>2 DEF SoloInv, Holds

\* LoadOrCreate's three ways, by the content of the key file.
LEMMA LoadKeyCases ==
  ASSUME TypeInv, NEW c \in Callers, LoadKey(c)
  PROVE  /\ \A d \in Callers \ {c} : at'[d] = at[d]
         /\ psk.key = NoKey => at'[c] = [at[c] EXCEPT !.pc = "create key"]
         /\ psk.key = Empty => at'[c] = IF c \in Serves THEN [at[c] EXCEPT !.pc = "release"] ELSE Off
         /\ psk.key \notin {NoKey, Empty} => at'[c] = WithKey(c, psk.key)
<1> DEFINE r == CASE psk.key = NoKey -> [at[c] EXCEPT !.pc = "create key"]
                  [] psk.key = Empty -> IF c \in Serves THEN [at[c] EXCEPT !.pc = "release"] ELSE Off
                  [] OTHER -> WithKey(c, psk.key)
<1>1. at' = [at EXCEPT ![c] = r] /\ at \in [Callers -> Proc]
  BY TypeParts DEF LoadKey
<1>2. NoKey # Empty
  BY DEF NoKey, Empty
<1>3. psk.key = NoKey => r = [at[c] EXCEPT !.pc = "create key"]
  BY <1>2
<1>4. psk.key = Empty => r = IF c \in Serves THEN [at[c] EXCEPT !.pc = "release"] ELSE Off
  BY <1>2
<1>5. psk.key \notin {NoKey, Empty} => r = WithKey(c, psk.key)
  OBVIOUS
<1> HIDE DEF r
<1> QED
  BY <1>1, <1>3, <1>4, <1>5

\* Every step keeps the settled lock: a start beside it finds the file with a
\* live pid and gives up, and nobody else is where it removes a lock.
LEMMA NextKeepsSolo ==
  ASSUME TypeInv, SoloInv, [Next]_vars
  PROVE  SoloInv'
<1>a. /\ Serves \subseteq Callers /\ solo \subseteq Serves /\ at \in [Callers -> Proc]
      /\ Serves \cap Clis = {} /\ Clis \subseteq Callers
  BY TypeParts, ServeAssumption DEF Callers
<1>b. \A s \in Serves : at[s].pc # "off" => at[s].pid # NoPid
  BY DEF TypeInv
<1>1. CASE UNCHANGED vars
  BY <1>1 DEF vars, SoloInv, Holds
<1>2. ASSUME NEW s \in Serves, StartServe(s) PROVE SoloInv'
  <2>1. at[s].pc = "off" /\ at'[s].pc = "create" /\ \A d \in Callers \ {s} : at'[d] = at[d]
    BY <1>2, <1>a DEF StartServe, Off
  <2>2. "off" \notin Holding /\ "create" \notin Holding \cup {"fill", "stale"}
    BY DEF Holding
  <2> QED
    BY <1>2, <1>a, <2>1, <2>2, MoveKeepsSolo DEF StartServe, files, history
<1>3. ASSUME NEW s \in Serves, CreateLock(s) PROVE SoloInv'
  <2>a. /\ \A d \in Callers \ {s} : at'[d] = at[d]
        /\ at[s].pc \notin Holding /\ solo' = solo
    BY <1>3, <1>a DEF CreateLock, Goto, history, Holding
  <2>1. CASE lock = NoLock
    <3>1. solo = {}
      <4>1. ASSUME NEW u \in solo PROVE FALSE
        BY <1>a, <2>1, ServeAssumption DEF SoloInv, NoLock
      <4> QED
        BY <4>1
    <3> QED
      BY <2>a, <3>1 DEF SoloInv
  <2>2. CASE lock # NoLock
    <3>1. at'[s].pc \notin Holding \cup {"fill", "stale"} /\ lock' = lock
      BY <1>3, <1>a, <2>2 DEF CreateLock, Goto, Holding, Proc
    <3> QED
      BY <1>a, <2>a, <3>1, MoveKeepsSolo
  <2> QED
    BY <2>1, <2>2
<1>4. ASSUME NEW s \in Serves, FillLock(s) PROVE SoloInv'
  <2>a. /\ at[s].pc = "fill" /\ at'[s].pc = "meta" /\ at'[s].pid = at[s].pid
        /\ \A d \in Callers \ {s} : at'[d] = at[d]
    BY <1>4, <1>a DEF FillLock, Goto, Proc
  <2>1. solo = {}
    <3>1. ASSUME NEW u \in solo PROVE FALSE
      BY <1>a, <2>a DEF SoloInv, Holds, Holding
    <3> QED
      BY <3>1
  <2>2. CASE solo' = {}
    BY <2>2 DEF SoloInv
  <2>3. CASE solo' # {}
    <3>1. /\ solo' = {s} /\ lock.by = s
          /\ \A t \in Serves \ {s} : ~Holds(t) /\ at[t].pc \notin Judging \cup {"fill"}
      BY <1>4, <2>1, <2>3 DEF FillLock
    <3>2. lock' = [by |-> s, pid |-> at[s].pid]
      BY <1>4, <3>1, TypeParts DEF FillLock, LockFile
    <3>3. \A t \in Serves \ {s} : at'[t].pc \notin Holding \cup {"fill", "stale"}
      BY <1>a, <2>a, <3>1 DEF Holds, Judging
    <3> QED
      BY <2>a, <3>1, <3>2, <3>3 DEF SoloInv, Holds, Holding
  <2> QED
    BY <2>2, <2>3
<1>5. ASSUME NEW s \in Serves, JudgeLock(s) PROVE SoloInv'
  <2>a. /\ \A d \in Callers \ {s} : at'[d] = at[d]
        /\ at[s].pc = "exists" /\ solo' = solo /\ lock' = lock /\ "exists" \notin Holding
    BY <1>5, <1>a DEF JudgeLock, files, history, Holding
  <2>1. CASE solo = {}
    BY <2>a, <2>1 DEF SoloInv
  <2>2. ASSUME NEW u \in solo PROVE SoloInv'
    <3>0. Holds(u) /\ lock = [by |-> u, pid |-> at[u].pid]
      BY DEF SoloInv
    <3>1. lock.pid = at[u].pid /\ u \in Serves /\ at[u].pc # "off"
      BY <3>0 DEF Holds, Holding
    <3>2. processAlive(lock.pid)
      BY <1>b, <3>1 DEF processAlive
    <3>3. at'[s] = Off
      BY <1>5, <1>a, <3>2 DEF JudgeLock
    <3>4. at'[s].pc \notin Holding \cup {"fill", "stale"}
      BY <3>3 DEF Off, Holding
    <3> QED
      BY <1>a, <2>a, <3>4, MoveKeepsSolo
  <2> QED
    BY <2>1, <2>2
<1>6. ASSUME NEW s \in Serves, ClearStale(s) \/ FillFails(s) PROVE SoloInv'
  <2>1. at[s].pc \in {"stale", "fill"} /\ solo' = solo
    BY <1>6 DEF ClearStale, FillFails, history
  <2>2. solo = {}
    <3>1. ASSUME NEW u \in solo PROVE FALSE
      BY <1>a, <2>1 DEF SoloInv, Holds, Holding
    <3> QED
      BY <3>1
  <2> QED
    BY <2>1, <2>2 DEF SoloInv
<1>7. ASSUME NEW s \in Serves, Release(s) PROVE SoloInv'
  <2>1. Holds(s) /\ solo' = solo \ {s}
    BY <1>7 DEF Release, Holds, Holding
  <2>2. solo' = {}
    BY <1>a, <2>1 DEF SoloInv
  <2> QED
    BY <2>2 DEF SoloInv
<1>8. ASSUME NEW c \in Callers, Crash(c) PROVE SoloInv'
  <2>1. /\ solo' = solo \ {c} /\ lock' = lock /\ at'[c].pc = "off"
        /\ \A d \in Callers \ {c} : at'[d] = at[d]
    BY <1>8, <1>a DEF Crash, files, Off
  <2>2. "off" \notin Holding \cup {"fill", "stale"}
    BY DEF Holding
  <2>3. ASSUME NEW s \in solo' PROVE s # c /\ s \in solo /\ s \in Callers /\ at'[s] = at[s]
    BY <1>a, <2>1
  <2>4. ASSUME NEW s \in solo', NEW t \in Serves \ {s}
        PROVE  at'[t].pc \notin Holding \cup {"fill", "stale"}
    <3>1. at[t].pc \notin Holding \cup {"fill", "stale"}
      BY <2>3 DEF SoloInv, Holds
    <3> QED
      BY <1>a, <2>1, <2>2, <3>1
  <2> QED
    BY <2>1, <2>3, <2>4 DEF SoloInv, Holds
<1>9. ASSUME NEW c \in Callers, Step(c) PROVE SoloInv'
  <2>1. /\ lock' = lock /\ solo' = solo /\ at[c].pc \in Holding
        /\ \A d \in Callers \ {c} : at'[d] = at[d]
    BY <1>9, <1>a DEF Step, OpenStep, KeyStep, ReadMeta, InsertMeta, LoadKey, CreateKey, WriteKey,
       files, history, Holding
  <2>2. ASSUME c \in Serves PROVE at'[c].pc \in Holding /\ at'[c].pid = at[c].pid
    <3>a. at[c] \in Proc
      BY <1>a
    <3>1. CASE ReadMeta(c) \/ InsertMeta(c)
      <4>1. \/ at'[c] = [at[c] EXCEPT !.pc = "insert"]
            \/ \E id : at'[c] = [at[c] EXCEPT !.pc = "key", !.id = id]
        BY <1>a, <2>2, <3>1 DEF ReadMeta, InsertMeta, Opened
      <4> QED
        BY <3>a, <4>1 DEF Proc, Holding
    <3>2. CASE KeyStep(c)
      <4>1. \/ at'[c] = [at[c] EXCEPT !.pc = "create key"]
            \/ at'[c] = [at[c] EXCEPT !.pc = "release"]
            \/ at'[c] = [at[c] EXCEPT !.pc = "write key", !.gen = psk.gen]
            \/ \E key : at'[c] = [at[c] EXCEPT !.pc = "listen", !.key = key, !.gen = psk.gen]
        <5>1. CASE LoadKey(c)
          <6>1. \/ at'[c] = [at[c] EXCEPT !.pc = "create key"]
                \/ at'[c] = [at[c] EXCEPT !.pc = "release"]
                \/ at'[c] = WithKey(c, psk.key)
            BY <2>2, <5>1, LoadKeyCases
          <6> QED
            BY <2>2, <6>1 DEF WithKey
        <5>2. CASE CreateKey(c)
          BY <1>a, <3>a, <5>2 DEF CreateKey, Proc
        <5>3. CASE WriteKey(c)
          BY <1>a, <2>2, <5>3 DEF WriteKey, WithKey
        <5> QED
          BY <3>2, <5>1, <5>2, <5>3 DEF KeyStep
      <4> QED
        BY <3>a, <4>1 DEF Proc, Holding
    <3> QED
      BY <1>9, <3>1, <3>2 DEF Step, OpenStep
  <2> QED
    BY <2>1, <2>2, MoveKeepsSolo DEF Holds
<1>10. ASSUME NEW s \in Serves, Listen(s) \/ Shutdown(s) \/ ServeFails(s) \/ Drained(s) PROVE SoloInv'
  <2>1. /\ lock' = lock /\ solo' = solo /\ at[s].pc \in Holding
        /\ at'[s].pc \in Holding /\ at'[s].pid = at[s].pid
        /\ \A d \in Callers \ {s} : at'[d] = at[d]
    BY <1>10, <1>a DEF Listen, Shutdown, ServeFails, Drained, Goto, Proc, Holding, files, history
  <2> QED
    BY <1>a, <2>1, MoveKeepsSolo DEF Holds
<1>11. ASSUME NEW c \in Clis, StartDevices(c) \/ StartPair(c) PROVE SoloInv'
  <2>1. /\ lock' = lock /\ solo' = solo /\ \A d \in Callers \ {c} : at'[d] = at[d]
    BY <1>11, <1>a DEF StartDevices, StartPair, files, history
  <2> QED
    BY <1>a, <2>1, MoveKeepsSolo
<1>12. ASSUME UNCHANGED <<lock, solo, at>> PROVE SoloInv'
  BY <1>12 DEF SoloInv, Holds
<1>13. ASSUME NEW c \in Callers, AnswerPair(c) \/ Rotate(c) PROVE SoloInv'
  BY <1>12, <1>13 DEF AnswerPair, Rotate, files
<1> QED
  BY <1>1, <1>2, <1>3, <1>4, <1>5, <1>6, <1>7, <1>8, <1>9, <1>10, <1>11, <1>13
  DEF Next, LockStep, ExitStep, Callers

-----------------------------------------------------------------------------
(* Identity and key                                                        *)

\* A step of one caller that leaves the files and the credentials alone, and
\* neither starts creating anything nor changes what the caller has loaded.
LEMMA QuietKeepsCred ==
  ASSUME TypeInv, CredInv, NEW c \in Callers, UNCHANGED <<meta, psk, given, raced>>,
         \A d \in Callers \ {c} : at'[d] = at[d],
         \/ at'[c].pc \notin Identified \cup {"insert"}
         \/ c \notin Serves /\ at'[c].pc \notin Creating \cup {"insert"}
         \/ /\ at[c].pc \in Loaded /\ at'[c].pc \in Loaded
            /\ at'[c].id = at[c].id /\ at'[c].key = at[c].key /\ at'[c].gen = at[c].gen
  PROVE  CredInv'
<1>a. Serves \subseteq Callers
  BY DEF Callers
<1> USE DEF Identified, Creating, Loaded
<1>1. ~raced => MetaInv'
  BY <1>a DEF CredInv, MetaInv
<1>2. ~raced => KeyInv'
  BY <1>a, ZenonT(30) DEF CredInv, KeyInv, CreateInv, LoadInv, GivenInv
<1> QED
  BY <1>1, <1>2 DEF CredInv

\* The steps that are quiet in this sense: the lock file, the start of a command,
\* the life of a hub that has its key, failure and death.
LEMMA OthersKeepCred ==
  ASSUME TypeInv, CredInv, NEW c \in Callers,
         \/ c \in Serves /\ (StartServe(c) \/ LockStep(c) \/ FillFails(c) \/ Release(c))
         \/ c \in Serves /\ (Listen(c) \/ Shutdown(c) \/ ServeFails(c) \/ Drained(c))
         \/ c \in Clis /\ (StartDevices(c) \/ StartPair(c))
         \/ Crash(c)
  PROVE  CredInv'
<1>a. at \in [Callers -> Proc] /\ at[c] \in Proc /\ Serves \cap Clis = {}
  BY TypeParts, ServeAssumption
<1>b. UNCHANGED <<meta, psk, given, raced>>
  BY DEF StartServe, LockStep, CreateLock, FillLock, JudgeLock, ClearStale, FillFails, Release,
     Listen, Shutdown, ServeFails, Drained, StartDevices, StartPair, Crash, files, history
<1>c. \A d \in Callers \ {c} : at'[d] = at[d]
  BY <1>a DEF StartServe, LockStep, CreateLock, FillLock, JudgeLock, ClearStale, FillFails, Release,
     Listen, Shutdown, ServeFails, Drained, StartDevices, StartPair, Crash, Goto
<1>1. CASE (c \in Serves /\ (StartServe(c) \/ FillFails(c) \/ Release(c))) \/ Crash(c)
  <2>1. at'[c].pc \in {"off", "create"}
    <3>1. CASE StartServe(c)
      BY <3>1, <1>a DEF StartServe, Off
    <3>2. CASE FillFails(c) \/ Release(c) \/ Crash(c)
      <4>1. at'[c] = Off
        BY <3>2, <1>a DEF FillFails, Release, Crash
      <4> QED
        BY <4>1 DEF Off
    <3> QED
      BY <1>1, <3>1, <3>2
  <2> QED
    BY <1>b, <1>c, <2>1, QuietKeepsCred DEF Identified
<1>2. CASE c \in Serves /\ (LockStep(c) \/ ServeFails(c) \/ Drained(c))
  <2>1. at'[c].pc \in {"off", "create", "fill", "exists", "stale", "meta", "release"}
    <3>1. CASE CreateLock(c) \/ FillLock(c) \/ ServeFails(c) \/ Drained(c)
      BY <3>1, <1>a DEF CreateLock, FillLock, ServeFails, Drained, Goto, Proc
    <3>2. CASE JudgeLock(c)
      <4>1. at'[c] = Off \/ at'[c] = [at[c] EXCEPT !.pc = "stale"]
        BY <3>2, <1>a DEF JudgeLock
      <4> QED
        BY <1>a, <4>1 DEF Off, Proc
    <3>3. CASE ClearStale(c)
      <4>1. at'[c] = Off \/ at'[c] = [at[c] EXCEPT !.pc = "create"]
        BY <3>3, <1>a DEF ClearStale
      <4> QED
        BY <1>a, <4>1 DEF Off, Proc
    <3> QED
      BY <1>2, <3>1, <3>2, <3>3 DEF LockStep
  <2> QED
    BY <1>b, <1>c, <2>1, QuietKeepsCred DEF Identified
<1>3. CASE c \in Serves /\ (Listen(c) \/ Shutdown(c))
  <2>1. /\ at[c].pc \in Loaded /\ at'[c].pc \in Loaded
        /\ at'[c].id = at[c].id /\ at'[c].key = at[c].key /\ at'[c].gen = at[c].gen
    BY <1>3, <1>a DEF Listen, Shutdown, Goto, Proc, Loaded
  <2> QED
    BY <1>b, <1>c, <2>1, QuietKeepsCred
<1>4. CASE c \in Clis /\ (StartDevices(c) \/ StartPair(c))
  <2>1. c \notin Serves /\ at'[c].pc \in {"meta", "key"}
    BY <1>4, <1>a DEF StartDevices, StartPair, Off
  <2> QED
    BY <1>b, <1>c, <2>1, QuietKeepsCred DEF Creating
<1> QED
  BY <1>1, <1>2, <1>3, <1>4

\* loadOrCreateMeta: the caller that finds no row is the only one, or first runs
\* have overlapped; what it inserts is the first row.
LEMMA OpenKeepsCred ==
  ASSUME TypeInv, CredInv, NEW c \in Callers, OpenStep(c)
  PROVE  CredInv'
<1>a. /\ at \in [Callers -> Proc] /\ at[c] \in Proc /\ Serves \subseteq Callers
      /\ meta \in Seq(Nat)
  BY TypeParts DEF Callers
<1> USE DEF Identified, Creating, Loaded
<1>1. CASE ReadMeta(c)
  <2>1. /\ UNCHANGED <<meta, psk>> /\ at[c].pc = "meta"
        /\ \A d \in Callers \ {c} : at'[d] = at[d]
        /\ meta = <<>> => at'[c] = [at[c] EXCEPT !.pc = "insert"]
        /\ meta # <<>> => at'[c] = Opened(c, meta[1])
        /\ raced' = (raced \/ (meta = <<>> /\ \E d \in Callers \ {c} : at[d].pc = "insert"))
        /\ raced' => given' = NoCredentials
        /\ ~raced' => given' = given
    BY <1>1, <1>a DEF ReadMeta, Overlap, files
  <2>2. CASE raced'
    BY <2>1, <2>2 DEF CredInv
  <2>3. CASE ~raced'
    <3>1. /\ ~raced /\ given' = given /\ MetaInv /\ KeyInv
          /\ meta = <<>> => \A d \in Callers \ {c} : at[d].pc # "insert"
      BY <2>1, <2>3 DEF CredInv
    <3>2. CASE meta = <<>>
      <4>1. at'[c].pc = "insert"
        BY <1>a, <2>1, <3>2 DEF Proc
      <4>2. MetaInv'
        <5>1. \A d \in Callers \ {c} : at'[d] = at[d] /\ at'[d].pc # "insert"
          BY <2>1, <3>1, <3>2
        <5>2. \A t \in Serves : at'[t].pc \notin Identified
          BY <1>a, <3>1, <3>2, <4>1, <5>1 DEF MetaInv
        <5>3. given' = NoCredentials /\ meta' = <<>>
          BY <2>1, <3>1, <3>2 DEF MetaInv
        <5> QED
          BY <5>1, <5>2, <5>3 DEF MetaInv
      <4>3. KeyInv'
        BY <1>a, <2>1, <3>1, <4>1, ZenonT(30) DEF KeyInv, CreateInv, LoadInv, GivenInv
      <4> QED
        BY <2>3, <4>2, <4>3 DEF CredInv
    <3>3. CASE meta # <<>>
      <4>1. \/ at'[c].pc = "key" /\ at'[c].id = meta[1]
            \/ at'[c].pc = "off"
        <5>1. at'[c] = [at[c] EXCEPT !.pc = "key", !.id = meta[1]] \/ at'[c] = Off
          BY <2>1, <3>3 DEF Opened
        <5>2. CASE at'[c] = Off
          BY <5>2 DEF Off
        <5>3. ASSUME NEW m, at'[c] = [at[c] EXCEPT !.pc = "key", !.id = m]
              PROVE  at'[c].pc = "key" /\ at'[c].id = m
          BY <1>a, <5>3 DEF Proc
        <5> QED
          BY <5>1, <5>2, <5>3
      <4>2. MetaInv'
        BY <1>a, <2>1, <3>1, <3>3, <4>1 DEF MetaInv
      <4>3. KeyInv'
        BY <1>a, <2>1, <3>1, <4>1 DEF KeyInv, CreateInv, LoadInv, GivenInv
      <4> QED
        BY <2>3, <4>2, <4>3 DEF CredInv
    <3> QED
      BY <3>2, <3>3
  <2> QED
    BY <2>2, <2>3
<1>2. CASE InsertMeta(c)
  <2>1. /\ UNCHANGED <<psk, given, raced>> /\ at[c].pc = "insert"
        /\ \A d \in Callers \ {c} : at'[d] = at[d]
        /\ meta' = Append(meta, Len(meta) + 1)
        /\ at'[c] = Opened(c, Len(meta) + 1)
    BY <1>2, <1>a DEF InsertMeta, history
  <2>2. CASE raced
    BY <2>1, <2>2 DEF CredInv
  <2>3. CASE ~raced
    <3>1. MetaInv /\ KeyInv /\ meta = <<>>
      BY <2>1, <2>3 DEF CredInv, MetaInv
    <3>2. meta' # <<>> /\ meta'[1] = 1 /\ Len(meta) + 1 = 1
      BY <1>a, <2>1, <3>1
    <3>3. at'[c].pc \in {"key", "off"} /\ (at'[c].pc = "key" => at'[c].id = meta'[1])
      BY <1>a, <2>1, <3>2 DEF Opened, Proc, Off
    <3>4. /\ \A d \in Callers : at'[d].pc # "insert"
          /\ \A s \in Serves : at[s].pc \notin Identified
          /\ given = NoCredentials
      BY <1>a, <2>1, <3>1, <3>3 DEF MetaInv
    <3>5. MetaInv'
      BY <1>a, <2>1, <3>2, <3>3, <3>4 DEF MetaInv
    <3>6. KeyInv'
      BY <1>a, <2>1, <3>1, <3>3, ZenonT(30) DEF KeyInv, CreateInv, LoadInv, GivenInv
    <3> QED
      BY <2>1, <2>3, <3>5, <3>6 DEF CredInv
  <2> QED
    BY <2>2, <2>3
<1> QED
  BY <1>1, <1>2 DEF OpenStep

\* Overlap, as an implication each way.
LEMMA OverlapCases ==
  ASSUME TypeInv, NEW here \in BOOLEAN, Overlap(here)
  PROVE  /\ raced' => given' = NoCredentials
         /\ ~raced' => ~raced /\ ~here /\ given' = given
BY TypeParts DEF Overlap

\* LoadOrCreate: as long as no first runs overlap, the file is created by one
\* caller, filled by the same one, and what is loaded is what it holds.
LEMMA KeyKeepsCred ==
  ASSUME TypeInv, CredInv, NEW c \in Callers, KeyStep(c)
  PROVE  CredInv'
<1>a. /\ at \in [Callers -> Proc] /\ at[c] \in Proc /\ Serves \subseteq Callers
      /\ psk \in KeyFile /\ psk.gen \in Nat /\ NoKey # Empty
      /\ NoKey \notin 1..MaxKeys /\ Empty \notin 1..MaxKeys
  <2>1. psk.gen \in Nat
    BY TypeParts, ServeAssumption DEF KeyFile
  <2> QED
    BY <2>1, TypeParts DEF Callers, NoKey, Empty
<1> USE DEF Identified, Creating, Loaded
<1>1. CASE LoadKey(c)
  <2>1. /\ UNCHANGED <<meta, psk>> /\ at[c].pc = "key"
        /\ \A d \in Callers \ {c} : at'[d] = at[d]
        /\ raced' => given' = NoCredentials
        /\ ~raced' => ~raced /\ ~(psk.key = NoKey /\ CreatingKey(Callers \ {c})) /\ given' = given
    BY <1>1, LoadKeyCases, OverlapCases DEF LoadKey, files
  <2>2. CASE raced'
    BY <2>1, <2>2 DEF CredInv
  <2>3. CASE ~raced'
    <3>1. /\ given' = given /\ MetaInv /\ KeyInv
          /\ psk.key = NoKey => \A d \in Callers \ {c} : at[d].pc \notin Creating
      BY <2>1, <2>3 DEF CredInv, CreatingKey
    <3>2. CASE psk.key = NoKey
      <4>1. at'[c].pc = "create key" /\ at'[c].id = at[c].id
        BY <1>1, <1>a, <3>2, LoadKeyCases, ZenonT(30) DEF Proc
      <4>2. MetaInv'
        BY <1>a, <2>1, <3>1, <4>1 DEF MetaInv
      <4>3. KeyInv'
        BY <1>a, <2>1, <3>1, <3>2, <4>1 DEF KeyInv, CreateInv, LoadInv, GivenInv
      <4> QED
        BY <2>3, <4>2, <4>3 DEF CredInv
    <3>3. CASE psk.key = Empty
      <4>1. at'[c].pc \in {"release", "off"}
        <5>1. at'[c] = [at[c] EXCEPT !.pc = "release"] \/ at'[c] = Off
          BY <1>1, <3>3, LoadKeyCases
        <5> QED
          BY <1>a, <5>1 DEF Proc, Off
      <4>2. MetaInv'
        BY <1>a, <2>1, <3>1, <4>1 DEF MetaInv
      <4>3. KeyInv'
        BY <1>a, <2>1, <3>1, <4>1 DEF KeyInv, CreateInv, LoadInv, GivenInv
      <4> QED
        BY <2>3, <4>2, <4>3 DEF CredInv
    <3>4. CASE psk.key \notin {NoKey, Empty}
      <4>0. at'[c] = WithKey(c, psk.key) /\ psk.key \in 1..MaxKeys
        <5>1. psk.key \in 1..MaxKeys
          BY <1>a, <3>4, ServeAssumption DEF KeyFile, NoKey, Empty
        <5> QED
          BY <1>1, <3>4, <5>1, LoadKeyCases
      <4>1. \/ /\ c \in Serves /\ at'[c].pc = "listen" /\ at'[c].id = at[c].id
               /\ at'[c].key = psk.key /\ at'[c].gen = psk.gen
            \/ at'[c].pc = "off"
        BY <1>a, <4>0 DEF WithKey, Proc, Off
      <4>2. MetaInv'
        BY <1>a, <2>1, <3>1, <4>1 DEF MetaInv
      <4>3. KeyInv'
        <5>a. CreateInv /\ LoadInv /\ GivenInv
          BY <3>1 DEF KeyInv
        <5>1. CreateInv'
          BY <2>1, <4>1, <5>a DEF CreateInv
        <5>2. GivenInv'
          BY <2>1, <3>1, <5>a DEF GivenInv
        <5>3. LoadInv'
          <6> SUFFICES ASSUME NEW s \in Serves, at'[s].pc \in Loaded
                       PROVE  /\ psk.key \in 1..MaxKeys /\ at'[s].gen <= psk.gen
                              /\ at'[s].gen = psk.gen => at'[s].key = psk.key
                              /\ given # NoCredentials /\ given.gen = at'[s].gen => given.key = at'[s].key
            BY <2>1, <3>1 DEF LoadInv
          <6>1. CASE s = c
            BY <1>a, <4>0, <4>1, <5>a, <6>1 DEF GivenInv
          <6>2. CASE s # c
            BY <1>a, <2>1, <5>a, <6>2 DEF LoadInv
          <6> QED
            BY <6>1, <6>2
        <5> QED
          BY <5>1, <5>2, <5>3 DEF KeyInv
      <4> QED
        BY <2>3, <4>2, <4>3 DEF CredInv
    <3> QED
      BY <3>2, <3>3, <3>4
  <2> QED
    BY <2>2, <2>3
<1>2. CASE CreateKey(c)
  <2>1. /\ UNCHANGED <<meta, given, raced>> /\ at[c].pc = "create key"
        /\ \A d \in Callers \ {c} : at'[d] = at[d]
        /\ at'[c].pc = "write key" /\ at'[c].gen = psk.gen /\ at'[c].id = at[c].id
        /\ psk'.key = Empty /\ psk'.gen = psk.gen
    BY <1>2, <1>a DEF CreateKey, history, KeyFile, Proc
  <2>2. CASE raced
    BY <2>1, <2>2 DEF CredInv
  <2>3. CASE ~raced
    <3>1. MetaInv /\ KeyInv /\ psk.key = NoKey
      BY <2>1, <2>3 DEF CredInv, KeyInv, CreateInv, LoadInv, GivenInv
    <3>2. /\ \A d \in Callers \ {c} : at'[d].pc \notin Creating
          /\ \A s \in Serves : at[s].pc \notin Loaded
          /\ given = NoCredentials
      BY <1>a, <2>1, <3>1 DEF KeyInv, CreateInv, LoadInv, GivenInv
    <3>3. MetaInv'
      BY <1>a, <2>1, <3>1 DEF MetaInv
    <3>4. KeyInv'
      BY <1>a, <2>1, <3>2 DEF KeyInv, CreateInv, LoadInv, GivenInv
    <3> QED
      BY <2>1, <2>3, <3>3, <3>4 DEF CredInv
  <2> QED
    BY <2>2, <2>3
<1>3. CASE WriteKey(c)
  <2>1. /\ UNCHANGED <<meta, given, raced>> /\ at[c].pc = "write key"
        /\ \A d \in Callers \ {c} : at'[d] = at[d]
        /\ at'[c] = WithKey(c, FreshKey)
        /\ at[c].gen = psk.gen => psk' = [psk EXCEPT !.key = FreshKey]
    BY <1>3, <1>a DEF WriteKey, history
  <2>2. CASE raced
    BY <2>1, <2>2 DEF CredInv
  <2>3. CASE ~raced
    <3>1. MetaInv /\ KeyInv /\ psk.key = Empty /\ at[c].gen = psk.gen
      BY <2>1, <2>3 DEF CredInv, KeyInv, CreateInv, LoadInv, GivenInv
    <3>a. FreshKey \in 1..MaxKeys
      BY <2>1, DrawnKey
    <3>b. psk'.key = FreshKey /\ psk'.gen = psk.gen
      BY <1>a, <2>1, <3>1 DEF KeyFile
    <3>2. /\ \A d \in Callers \ {c} : at'[d].pc \notin Creating
          /\ \A s \in Serves : at[s].pc \notin Loaded
          /\ given = NoCredentials
      BY <1>a, <2>1, <3>1 DEF KeyInv, CreateInv, LoadInv, GivenInv
    <3>c. \/ /\ c \in Serves /\ at'[c].pc = "listen" /\ at'[c].id = at[c].id
             /\ at'[c].key = FreshKey /\ at'[c].gen = psk.gen
          \/ at'[c].pc = "off"
      <4>1. \/ c \in Serves /\ at'[c] = [at[c] EXCEPT !.pc = "listen", !.key = FreshKey, !.gen = psk.gen]
            \/ at'[c] = Off
        BY <2>1 DEF WithKey
      <4>2. ASSUME NEW k, at'[c] = [at[c] EXCEPT !.pc = "listen", !.key = k, !.gen = psk.gen]
            PROVE  /\ at'[c].pc = "listen" /\ at'[c].id = at[c].id
                   /\ at'[c].key = k /\ at'[c].gen = psk.gen
        BY <1>a, <4>2 DEF Proc
      <4>3. Off.pc = "off"
        BY DEF Off
      <4> QED
        BY <4>1, <4>2, <4>3
    <3>3. MetaInv'
      BY <1>a, <2>1, <3>1, <3>c DEF MetaInv
    <3>4. KeyInv'
      <4>1. CreateInv'
        BY <2>1, <3>2, <3>c DEF CreateInv
      <4>2. GivenInv'
        BY <2>1, <3>2 DEF GivenInv
      <4>3. \A s \in Serves : at'[s].pc \in Loaded => s = c
        BY <1>a, <2>1, <3>2
      <4>4. LoadInv'
        <5>1. psk'.key \in 1..MaxKeys /\ psk'.gen <= psk'.gen
          <6>1. psk.gen \in Nat
            BY <1>a
          <6> QED
            BY <3>a, <3>b, <6>1
        <5>3. given' = NoCredentials
          BY <2>1, <3>2
        <5>2. at'[c].pc \in Loaded => at'[c].key = psk'.key /\ at'[c].gen = psk'.gen
          BY <3>b, <3>c
        <5> HIDE DEF Loaded, Identified, Creating
        <5> QED
          BY <4>3, <5>1, <5>2, <5>3 DEF LoadInv
      <4> QED
        BY <4>1, <4>2, <4>4 DEF KeyInv
    <3> QED
      BY <2>1, <2>3, <3>3, <3>4 DEF CredInv
  <2> QED
    BY <2>2, <2>3
<1> QED
  BY <1>1, <1>2, <1>3 DEF KeyStep

\* rotate-token starts a new generation, which nobody has loaded yet.
LEMMA RotateKeepsCred ==
  ASSUME TypeInv, CredInv, NEW c \in Callers, Rotate(c)
  PROVE  CredInv'
<1>a. /\ Serves \subseteq Callers /\ psk.gen \in Nat
      /\ \A d \in Callers : at[d].gen \in Nat
      /\ given.gen \in Nat
  BY TypeParts, ServeAssumption DEF Callers, KeyFile, Proc, Credentials
<1>b. /\ UNCHANGED <<meta, at>> /\ FreshKey \in 1..MaxKeys
      /\ psk'.key = FreshKey /\ psk'.gen = psk.gen + 1
      /\ raced' => given' = NoCredentials
      /\ ~raced' => ~raced /\ ~CreatingKey(Callers) /\ given' = given
  <2>1. at[c].pc = "off"
    BY DEF Rotate, Off
  <2> QED
    BY <2>1, DrawnKey, OverlapCases DEF Rotate, CreatingKey
<1>1. CASE raced'
  BY <1>b, <1>1 DEF CredInv
<1>2. CASE ~raced'
  <2>1. /\ given' = given /\ MetaInv /\ KeyInv
        /\ \A d \in Callers : at[d].pc \notin Creating
    BY <1>b, <1>2 DEF CredInv, CreatingKey, Creating
  <2>2. MetaInv'
    BY <1>b, <2>1 DEF MetaInv
  <2>3. KeyInv'
    <3>a. CreateInv /\ LoadInv /\ GivenInv
      BY <2>1 DEF KeyInv
    <3>1. CreateInv'
      BY <1>b, <2>1 DEF CreateInv, Creating
    <3>2. GivenInv'
      BY <1>a, <1>b, <2>1, <3>a DEF GivenInv
    <3>3. LoadInv'
      BY <1>a, <1>b, <2>1, <3>a DEF LoadInv
    <3> QED
      BY <3>1, <3>2, <3>3 DEF KeyInv
  <2> QED
    BY <1>2, <2>2, <2>3 DEF CredInv
<1> QED
  BY <1>1, <1>2

\* handlePair gives away the identity of the serve and the key of the file.
LEMMA AnswerKeepsCred ==
  ASSUME TypeInv, CredInv, NEW s \in Serves, AnswerPair(s)
  PROVE  CredInv'
<1>a. psk.gen \in Nat /\ at[s].pc \in Loaded /\ at[s].pc \in Identified
  <2>1. psk.gen \in Nat
    BY TypeParts, ServeAssumption DEF KeyFile
  <2> QED
    BY <2>1 DEF AnswerPair, Loaded, Identified
<1>b. UNCHANGED <<meta, psk, at, raced>>
  BY DEF AnswerPair, files
<1>1. CASE raced
  BY <1>b, <1>1 DEF AnswerPair, CredInv
<1>2. CASE ~raced
  <2>1. given' = [id |-> at[s].id, key |-> psk.key, gen |-> psk.gen] /\ MetaInv /\ KeyInv
    BY <1>2 DEF AnswerPair, CredInv
  <2>2. given'.id = at[s].id /\ given'.key = psk.key /\ given'.gen = psk.gen
    BY <2>1
  <2>3. MetaInv'
    BY <1>a, <1>b, <2>1, <2>2 DEF MetaInv
  <2>4. KeyInv'
    <3>a. CreateInv /\ LoadInv /\ GivenInv /\ psk.key \in 1..MaxKeys
      BY <1>a, <2>1 DEF KeyInv, LoadInv
    <3>1. CreateInv'
      BY <1>b, <3>a DEF CreateInv
    <3>2. GivenInv'
      BY <1>a, <1>b, <2>2, <3>a DEF GivenInv
    <3>3. LoadInv'
      BY <1>b, <2>2, <3>a DEF LoadInv
    <3> QED
      BY <3>1, <3>2, <3>3 DEF KeyInv
  <2> QED
    BY <1>b, <1>2, <2>3, <2>4 DEF CredInv
<1> QED
  BY <1>1, <1>2

\* Every step keeps the invariant.
LEMMA NextKeepsServeInv == ServeInv /\ [Next]_vars => ServeInv'
<1> SUFFICES ASSUME ServeInv, [Next]_vars PROVE ServeInv'
  OBVIOUS
<1>a. TypeInv /\ SoloInv /\ CredInv
  BY DEF ServeInv
<1>1. TypeInv' /\ SoloInv'
  BY <1>a, NextKeepsType, NextKeepsSolo
<1>2. CredInv'
  <2>1. CASE UNCHANGED vars
    BY <1>a, <2>1 DEF vars, CredInv, MetaInv, KeyInv, CreateInv, LoadInv, GivenInv
  <2>2. ASSUME NEW s \in Serves,
               \/ StartServe(s) \/ LockStep(s) \/ FillFails(s) \/ Release(s)
               \/ Listen(s) \/ Shutdown(s) \/ ServeFails(s) \/ Drained(s)
        PROVE  CredInv'
    BY <1>a, <2>2, OthersKeepCred DEF Callers
  <2>3. ASSUME NEW c \in Clis, StartDevices(c) \/ StartPair(c) PROVE CredInv'
    BY <1>a, <2>3, OthersKeepCred DEF Callers
  <2>4. ASSUME NEW c \in Callers, Step(c) \/ Crash(c) \/ Rotate(c) PROVE CredInv'
    BY <1>a, <2>4, OthersKeepCred, OpenKeepsCred, KeyKeepsCred, RotateKeepsCred DEF Step
  <2> QED
    BY <1>a, <2>1, <2>2, <2>3, <2>4, AnswerKeepsCred DEF Next, ExitStep, Callers
<1> QED
  BY <1>1, <1>2 DEF ServeInv

-----------------------------------------------------------------------------

\* Theorem: the invariant holds for any processes on one data directory.
THEOREM ServeInvariant == Spec => []ServeInv
BY InitServeInv, NextKeepsServeInv, PTL DEF Spec

\* Theorem: type correctness; in particular a key that is drawn is a real one.
THEOREM ServeTypeOK == Spec => []TypeOK
<1>1. ServeInv => TypeOK
  BY DEF ServeInv, TypeInv
<1> QED
  BY <1>1, ServeInvariant, PTL

\* Theorem: the run lock of a serve that started alone is never taken from it.
THEOREM ServeSettledLockStands == Spec => []SettledLockStands
<1>1. ServeInv => SettledLockStands
  BY DEF ServeInv, SoloInv, SettledLockStands
<1> QED
  BY <1>1, ServeInvariant, PTL

\* Theorem: a paired device stays paired across restarts and deaths of the hub,
\* until the key is rotated, unless two first runs have overlapped.
THEOREM ServePairedStaysPaired == Spec => []PairedStaysPaired
<1>1. ServeInv => PairedStaysPaired
  BY DEF ServeInv, CredInv, MetaInv, KeyInv, CreateInv, LoadInv, GivenInv, PairedStaysPaired, Up, Identified, Loaded
<1> QED
  BY <1>1, ServeInvariant, PTL
=============================================================================
