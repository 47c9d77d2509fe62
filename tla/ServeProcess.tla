---------------------------- MODULE ServeProcess ----------------------------
(***************************************************************************)
(* internal/cli/serve.go and the files of the data directory that it and   *)
(* the other commands share: the run lock serve.lock (lockfile.go), the    *)
(* pre-shared key psk (internal/pair/pair.go) and the hub's identity in    *)
(* the meta table (store.Open on a new database). The processes are runs   *)
(* of `serve` and of `pair`, `rotate-token` and `devices`. One step is one *)
(* file system call or one SQL statement, and a process may die between    *)
(* two of them.                                                            *)
(*                                                                         *)
(* Keys and identities are drawn at random: each is a fresh number. The    *)
(* epoch and the log behind the same meta row are HubStore's.              *)
(***************************************************************************)
EXTENDS Integers, Sequences, FiniteSets

CONSTANTS Serves,       \* `cmemlan serve`, one per terminal or service unit
          Clis,         \* other commands, one run each at a time
          Pids,         \* process ids the kernel hands out
          MaxKeys,      \* bound on the number of keys in use at one time
          MaxRotations, \* bound on the number of key rotations
          MaxFaults     \* bound on the number of process deaths and failed calls

Callers == Serves \cup Clis

NoServe == "no serve"
NoPid   == 0
NoKey   == 0   \* no key file, or no key yet
Empty   == -1  \* a key file that was created and not yet written

ASSUME ServeAssumption ==
  /\ Serves \cap Clis = {} /\ NoServe \notin Serves /\ IsFiniteSet(Callers)
  /\ Pids \subseteq Nat \ {NoPid} /\ Cardinality(Serves) <= Cardinality(Pids)
  /\ Cardinality(Callers) + 2 <= MaxKeys /\ MaxKeys \in Nat /\ MaxRotations \in Nat /\ MaxFaults \in Nat

VARIABLES
  lock,    \* serve.lock: who created the file and the pid in it, or NoLock
  meta,    \* the user ids in the meta table, in the order of insertion
  psk,     \* the key file: its content, and how often it has been replaced
  at,      \* per caller: where it is and what it has read
  faults,  \* processes that have died and calls that have failed
  solo,    \* history: serves that filled the lock with no other start under way
  given,   \* history: the credentials a device got from /pair when it last paired
  raced    \* history: two first runs have overlapped

files   == <<lock, meta, psk>>
history == <<solo, given, raced>>
vars    == <<lock, meta, psk, at, faults, solo, given, raced>>

NoLock == [by |-> NoServe, pid |-> NoPid]
NoCredentials == [id |-> 0, key |-> NoKey, gen |-> 0]
Off    == [pc |-> "off", pid |-> NoPid, id |-> 0, key |-> NoKey, gen |-> 0]

Init ==
  /\ lock = NoLock /\ meta = <<>>
  /\ psk = [key |-> NoKey, gen |-> 0]
  /\ at = [c \in Callers |-> Off] /\ faults = 0
  /\ solo = {} /\ given = NoCredentials /\ raced = FALSE

\* One of the deaths and failures that the bound allows.
Fault == faults < MaxFaults /\ faults' = faults + 1

\* newSecret: a key that is not in use anywhere.
KeysInUse == {psk.key, given.key} \cup {at[c].key : c \in Callers}
FreshKey  == CHOOSE k \in 1..MaxKeys : k \notin KeysInUse

\* Some caller has found no key file and is about to create one.
CreatingKey(C) == \E d \in C : at[d].pc \in {"create key", "write key"}

\* Two first runs overlap: from then on no promise is made about credentials.
Overlap(here) == /\ raced' = (raced \/ here)
                 /\ given' = IF raced' THEN NoCredentials ELSE given

Goto(c, pc) == at' = [at EXCEPT ![c].pc = pc]

\* The places of a serve that has taken the lock and not yet released it.
Holding == {"meta", "insert", "key", "create key", "write key",
            "listen", "up", "drain", "release"}

\* The places of a serve that has found a lock file and not yet acted on it.
Judging == {"exists", "stale"}

Holds(s) == s \in Serves /\ at[s].pc \in Holding
Up       == {s \in Serves : at[s].pc = "up"}

-----------------------------------------------------------------------------
(* Lockfile                                                                *)

\* runServe as far as Lockfile: a bad bind address or CIDR list ends it before.
StartServe(s) ==
  /\ at[s] = Off
  /\ \E pid \in Pids \ {at[t].pid : t \in Serves} :
       at' = [at EXCEPT ![s] = [Off EXCEPT !.pc = "create", !.pid = pid]]
  /\ UNCHANGED <<files, faults, history>>

\* OpenFile with O_CREATE and O_EXCL.
CreateLock(s) ==
  /\ at[s].pc = "create"
  /\ \/ /\ lock = NoLock
        /\ lock' = [by |-> s, pid |-> NoPid] /\ Goto(s, "fill")
     \/ /\ lock # NoLock
        /\ Goto(s, "exists") /\ UNCHANGED lock
  /\ UNCHANGED <<meta, psk, faults, history>>

\* Fprintf of the pid, into the file this process created: where another has
\* removed that file in between, into nothing.
FillLock(s) ==
  /\ at[s].pc = "fill"
  /\ lock' = IF lock.by = s THEN [lock EXCEPT !.pid = at[s].pid] ELSE lock
  /\ solo' = IF lock.by = s /\ \A t \in Serves \ {s} : ~Holds(t) /\ at[t].pc \notin Judging \cup {"fill"}
             THEN solo \cup {s} ELSE solo
  /\ Goto(s, "meta")
  /\ UNCHANGED <<meta, psk, faults, given, raced>>

\* The write fails: the file is removed again.
FillFails(s) ==
  /\ at[s].pc = "fill" /\ Fault
  /\ lock' = NoLock /\ at' = [at EXCEPT ![s] = Off]
  /\ UNCHANGED <<meta, psk, history>>

\* processAlive: a serve process has this pid.
processAlive(pid) == pid # NoPid /\ \E s \in Serves : at[s].pid = pid

\* A mistake to catch: a lock whose pid cannot be read, or is dead, is an error.
JudgeNeverStale(s) ==
  /\ at[s].pc = "exists"
  /\ at' = [at EXCEPT ![s] = Off]
  /\ UNCHANGED <<files, faults, history>>

\* A mistake to catch: the lock is taken for stale whoever holds it.
JudgeAlwaysStale(s) ==
  /\ at[s].pc = "exists"
  /\ Goto(s, "stale")
  /\ UNCHANGED <<files, faults, history>>

\* ReadFile of the existing lock, an error of which ends the start; then
\* processAlive of the pid, which an empty file does not have.
JudgeLock(s) ==
  /\ at[s].pc = "exists"
  /\ at' = [at EXCEPT ![s] = IF lock = NoLock \/ processAlive(lock.pid) THEN Off
                             ELSE [@ EXCEPT !.pc = "stale"]]
  /\ UNCHANGED <<files, faults, history>>

\* Remove, of whatever lock file is there by now, and Lockfile once more. A file
\* that is gone is an error.
ClearStale(s) ==
  /\ at[s].pc = "stale"
  /\ lock' = NoLock
  /\ at' = [at EXCEPT ![s] = IF lock = NoLock THEN Off ELSE [@ EXCEPT !.pc = "create"]]
  /\ UNCHANGED <<meta, psk, faults, history>>

-----------------------------------------------------------------------------
(* store.Open on a new database                                            *)

\* `cmemlan devices`, `cmemlan revoke`: no lock, straight to store.Open.
StartDevices(c) ==
  /\ at[c] = Off /\ at' = [at EXCEPT ![c] = [Off EXCEPT !.pc = "meta"]]
  /\ UNCHANGED <<files, faults, history>>

\* What follows store.Open: the key in serve, the end in `devices`.
Opened(c, id) == IF c \in Serves THEN [at[c] EXCEPT !.pc = "key", !.id = id] ELSE Off

\* migrate, which creates the tables of a new database in one transaction, and
\* loadOrCreateMeta: SELECT ... LIMIT 1.
ReadMeta(c) ==
  /\ at[c].pc = "meta"
  /\ at' = [at EXCEPT ![c] = IF meta = <<>> THEN [@ EXCEPT !.pc = "insert"]
                             ELSE Opened(c, meta[1])]
  /\ Overlap(meta = <<>> /\ \E d \in Callers \ {c} : at[d].pc = "insert")
  /\ UNCHANGED <<files, faults, solo>>

\* loadOrCreateMeta: INSERT of a random user id. The primary key is the user id,
\* so a second row, with another id, is not refused.
InsertMeta(c) ==
  /\ at[c].pc = "insert"
  /\ meta' = Append(meta, Len(meta) + 1)
  /\ at' = [at EXCEPT ![c] = Opened(c, Len(meta) + 1)]
  /\ UNCHANGED <<lock, psk, faults, history>>

-----------------------------------------------------------------------------
(* The key file                                                            *)

\* `cmemlan pair`.
StartPair(c) ==
  /\ at[c] = Off /\ at' = [at EXCEPT ![c] = [Off EXCEPT !.pc = "key"]]
  /\ UNCHANGED <<files, faults, history>>

\* What follows LoadOrCreate: serve listens, `pair` prints.
WithKey(c, key) ==
  IF c \in Serves THEN [at[c] EXCEPT !.pc = "listen", !.key = key, !.gen = psk.gen] ELSE Off

\* A mistake to catch: an empty key file is treated like a missing one.
LoadKeyOrRecreate(c) ==
  /\ at[c].pc = "key"
  /\ at' = [at EXCEPT ![c] = IF psk.key \in {NoKey, Empty} THEN [@ EXCEPT !.pc = "create key"]
                             ELSE WithKey(c, psk.key)]
  /\ Overlap(psk.key = NoKey /\ CreatingKey(Callers \ {c}))
  /\ UNCHANGED <<files, faults, solo>>

\* A mistake to catch: an empty key file is not noticed.
LoadEmptyKey(c) ==
  /\ at[c].pc = "key"
  /\ at' = [at EXCEPT ![c] = IF psk.key = NoKey THEN [@ EXCEPT !.pc = "create key"]
                             ELSE WithKey(c, psk.key)]
  /\ Overlap(psk.key = NoKey /\ CreatingKey(Callers \ {c}))
  /\ UNCHANGED <<files, faults, solo>>

\* LoadOrCreate: ReadFile. An empty key is an error.
LoadKey(c) ==
  /\ at[c].pc = "key"
  /\ at' = [at EXCEPT ![c] =
       CASE psk.key = NoKey -> [@ EXCEPT !.pc = "create key"]
         [] psk.key = Empty -> IF c \in Serves THEN [@ EXCEPT !.pc = "release"] ELSE Off
         [] OTHER -> WithKey(c, psk.key)]
  /\ Overlap(psk.key = NoKey /\ CreatingKey(Callers \ {c}))
  /\ UNCHANGED <<files, faults, solo>>

\* LoadOrCreate: WriteFile creates the file, or truncates what is there by now.
CreateKey(c) ==
  /\ at[c].pc = "create key"
  /\ psk' = [psk EXCEPT !.key = Empty]
  /\ at' = [at EXCEPT ![c].pc = "write key", ![c].gen = psk.gen]
  /\ UNCHANGED <<lock, meta, faults, history>>

\* LoadOrCreate: WriteFile writes the new key, into nothing where rotate-token
\* has replaced the file in between.
WriteKey(c) ==
  /\ at[c].pc = "write key"
  /\ psk' = IF at[c].gen = psk.gen THEN [psk EXCEPT !.key = FreshKey] ELSE psk
  /\ at' = [at EXCEPT ![c] = WithKey(c, FreshKey)]
  /\ UNCHANGED <<lock, meta, faults, history>>

\* `cmemlan rotate-token`: the rename is the step. One rotation at a time: two would
\* share the temporary file psk.tmp.
Rotate(c) ==
  /\ at[c] = Off /\ psk.gen < MaxRotations
  /\ psk' = [key |-> FreshKey, gen |-> psk.gen + 1]
  /\ Overlap(CreatingKey(Callers))
  /\ UNCHANGED <<lock, meta, at, faults, solo>>

-----------------------------------------------------------------------------
(* Serving, shutdown, death                                                *)

\* net.Listen and everything up to the select: the hub answers from here on. Where
\* another hub has the port the call fails, which any start may do here (ServeFails).
Listen(s) ==
  /\ at[s].pc = "listen" /\ Goto(s, "up")
  /\ UNCHANGED <<files, faults, history>>

\* handlePair for a code that is right: Redeem reads the key file, which is there
\* by now, and the answer adds the user id serve started with. An empty key is an
\* error. A handler may outlive the 15 s of the shutdown.
AnswerPair(s) ==
  /\ at[s].pc \in {"up", "drain"} /\ psk.key # Empty
  /\ given' = IF raced THEN given ELSE [id |-> at[s].id, key |-> psk.key, gen |-> psk.gen]
  /\ UNCHANGED <<files, at, faults, solo, raced>>

\* SIGTERM, or Serve has failed, whose error return does not wait for handlers.
Shutdown(s) ==
  /\ at[s].pc = "up" /\ Goto(s, "drain")
  /\ UNCHANGED <<files, faults, history>>

\* Shutdown returns when no handler is left, or after 15 s; the deferred
\* Store.Close follows.
Drained(s) ==
  /\ at[s].pc = "drain" /\ Goto(s, "release")
  /\ UNCHANGED <<files, faults, history>>

\* An error return of store.Open, LoadOrCreate or Listen: the deferred calls run.
ServeFails(s) ==
  /\ at[s].pc \in {"meta", "insert", "key", "create key", "write key", "listen"}
  /\ Goto(s, "release") /\ Fault
  /\ UNCHANGED <<files, history>>

\* The deferred release removes whatever lock file is there; the process exits.
Release(s) ==
  /\ at[s].pc = "release"
  /\ lock' = NoLock /\ at' = [at EXCEPT ![s] = Off] /\ solo' = solo \ {s}
  /\ UNCHANGED <<meta, psk, faults, given, raced>>

\* A process dies: its lock file stays, a key file may stay empty.
Crash(c) ==
  /\ at[c] # Off /\ Fault
  /\ at' = [at EXCEPT ![c] = Off]
  /\ solo' = solo \ {c}
  /\ UNCHANGED <<files, given, raced>>

-----------------------------------------------------------------------------
OpenStep(c) == ReadMeta(c) \/ InsertMeta(c)
KeyStep(c)  == LoadKey(c) \/ CreateKey(c) \/ WriteKey(c)
LockStep(s) == CreateLock(s) \/ FillLock(s) \/ JudgeLock(s) \/ ClearStale(s)
ExitStep(s) == Drained(s) \/ Release(s)

Step(c) == OpenStep(c) \/ KeyStep(c)

Next ==
  \/ \E s \in Serves : \/ StartServe(s) \/ LockStep(s) \/ FillFails(s) \/ Listen(s)
                       \/ AnswerPair(s) \/ Shutdown(s) \/ ServeFails(s) \/ ExitStep(s)
  \/ \E c \in Clis : StartDevices(c) \/ StartPair(c) \/ Rotate(c)
  \/ \E c \in Callers : Step(c)
  \/ \E c \in Serves \cup Clis : Crash(c)

Spec == Init /\ [][Next]_vars

(* A process that can run does, and the hub is started again when it is     *)
(* down: Restart=on-failure, KeepAlive, or a user.                          *)
FairSpec ==
  /\ Spec
  /\ \A c \in Callers : WF_vars(Step(c))
  /\ \A s \in Serves : /\ WF_vars(StartServe(s)) /\ WF_vars(LockStep(s)) /\ WF_vars(Listen(s)) /\ WF_vars(ExitStep(s))
-----------------------------------------------------------------------------
(* Properties                                                              *)

\* Type invariant.
TypeOK ==
  /\ lock \in [by : Serves \cup {NoServe}, pid : Pids \cup {NoPid}]
  /\ meta \in Seq(Nat)
  /\ psk \in [key : Empty..MaxKeys, gen : 0..MaxRotations]
  /\ at \in [Callers -> [pc : Holding \cup Judging \cup {"off", "create", "fill"},
                         pid : Pids \cup {NoPid}, id : Nat,
                         key : 0..MaxKeys, gen : 0..MaxRotations]]
  /\ faults \in 0..MaxFaults
  /\ solo \subseteq Serves /\ raced \in BOOLEAN
  /\ given \in [id : Nat, key : 0..MaxKeys, gen : 0..MaxRotations]

\* "Lockfile takes an exclusive run lock": a serve that filled its lock while no
\* other serve was starting or running keeps it, under its own pid, until it
\* releases it, whatever is started, refused, killed or shut down beside it. A
\* start that overlaps another has no such promise.
SettledLockStands ==
  \A s \in solo : lock = [by |-> s, pid |-> at[s].pid]

\* Credentials that /pair handed out are the ones every running hub verifies
\* against, across restarts and process deaths, until rotate-token replaces the
\* key: unless two first runs have overlapped in the data directory.
PairedStaysPaired ==
  \A s \in Up : given # NoCredentials /\ given.gen = at[s].gen =>
                 given.id = at[s].id /\ given.key = at[s].key

\* The lock names a live process that is not the one which wrote it.
PidReused == processAlive(lock.pid) /\ ~(\E s \in Serves : lock.by = s /\ Holds(s))

\* The key file was left empty by a process that died creating it.
KeyTorn == psk.key = Empty /\ \A c \in Callers : at[c].pc # "write key"

\* "If the process is gone, it is stale": a hub that died, at whatever step, is
\* up again sooner or later. Two things keep it down: a pid that another start
\* has been given, and an empty key file.
HubComesBack == []<>(Up # {} \/ PidReused \/ KeyTorn)
=============================================================================
