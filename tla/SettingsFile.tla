---------------------------- MODULE SettingsFile ----------------------------
(***************************************************************************)
(* internal/settings and internal/cli/connect.go: claude-mem's settings    *)
(* file, which `cmemlan connect` edits while claude-mem, or its user,      *)
(* writes it too, and which `connect --undo` puts back. One step is one    *)
(* call on the file or on a backup, and WriteFile is two, as it truncates  *)
(* before it writes; a process may die between any two of them.            *)
(*                                                                         *)
(* Of the file's keys three matter: the sync credentials that connect      *)
(* writes together, the device id that claude-mem mints and writes back,   *)
(* and the user's list of excluded projects. A write changes the size or   *)
(* the modification time that Stat sees: the clock is finer than two       *)
(* writes. The other keys are carried along by Read and Update like these. *)
(***************************************************************************)
EXTENDS Integers, Sequences

CONSTANTS Connects,    \* runs of `cmemlan connect`, at the same time
          Hubs,        \* hubs a device may be connected to
          Projects,    \* claude-mem projects
          MaxConnects, \* bound on the number of connects and undos that reach the file
          MaxEdits     \* bound on the number of writes by claude-mem or its user

NoHub == "no hub"

ASSUME SettingsAssumption ==
  /\ NoHub \notin Hubs \cup Connects
  /\ MaxConnects \in Nat /\ MaxEdits \in Nat

VARIABLES
  file,    \* settings.json: absent, torn, or its content
  mtime,   \* what Stat returns; every write of the file changes it
  baks,    \* the writes of settings.json.bak-*, oldest first: under which name, by
           \* which connect, of what; a name holds what was last written to it
  con,     \* per connect: where it is, what it has read, what it has seen
  started, \* connects and undos that have reached the file
  edits    \* writes by claude-mem or its user

svars == <<file, mtime, baks, con, started, edits>>

\* hub: which hub's url, token, user id; dev: claude-mem's device id is there;
\* excl: the projects of CLAUDE_MEM_EXCLUDED_PROJECTS; form: whether these are a
\* list in a JSON string, or in some other form that is JSON all the same.
Settings == [hub : Hubs \cup {NoHub}, dev : BOOLEAN, excl : SUBSET Projects,
             form : {"string", "other"}]
Fresh    == [hub |-> NoHub, dev |-> FALSE, excl |-> {}, form |-> "string"]
Content  == [st : {"absent", "torn", "ok"}, set : Settings]

Absent  == [st |-> "absent", set |-> Fresh]
Torn    == [st |-> "torn", set |-> Fresh]
Holds(v) == [st |-> "ok", set |-> v]

\* read, stat and found: what Read and the first Stat returned; name and copy: the
\* backup's name and content. Two that are history: early, somebody wrote the file
\* between Read and the first Stat; late, after the last look at it.
Quiet == [pc |-> "off", hub |-> NoHub, read |-> Absent, stat |-> 0, found |-> FALSE,
          name |-> 0, copy |-> Absent, early |-> FALSE, late |-> FALSE]

\* What the user may write as the list; an empty one is the same in every form.
Lists == {l \in [excl : SUBSET Projects, form : {"string", "other"}] : l.excl = {} => l.form = "string"}

WithList(v, l) == [v EXCEPT !.excl = l.excl, !.form = l.form]

\* There is no file yet, or one with the user's list, or one that somebody has left
\* unparsable; an earlier connect, since undone, may have left a backup.
SInit ==
  /\ file \in {Absent, Torn} \cup {Holds(WithList(Fresh, l)) : l \in Lists}
  /\ baks \in {<<>>} \cup {<<[name |-> 0, by |-> c, was |-> Holds(Fresh)]>> : c \in Connects}
  /\ mtime = 1 /\ con = [c \in Connects |-> Quiet]
  /\ started = 0 /\ edits = 0

\* Connect c after a write by someone else, which it misses if it has read the file
\* and not yet looked at its time, or will not look at that again.
Missed(c) ==
  [con[c] EXCEPT !.early = @ \/ con[c].pc = "stat",
                 !.late  = @ \/ con[c].pc = "rename"
                             \/ (con[c].pc \in {"temp", "restat"} /\ ~con[c].found)]

\* The file is replaced by one that holds v. A --undo that has opened the old one
\* writes into a file that no longer has a name.
Replace(v, by) ==
  /\ file' = Holds(v) /\ mtime' = mtime + 1
  /\ con' = [c \in Connects |-> IF c = by \/ con[c].pc = "restore" THEN Quiet ELSE Missed(c)]

Put(c, r) == con' = [con EXCEPT ![c] = r]
Goto(c, pc) == Put(c, [con[c] EXCEPT !.pc = pc])

-----------------------------------------------------------------------------
(* connect                                                                 *)

\* runConnect up to Update. The hub's address is typed, or discovered where no
\* code is to be redeemed; the fingerprint is demanded before the code is spent;
\* the key is redeemed or given; a fingerprint that does not match ends it here,
\* as does any other refusal, with nothing written.
Connect(c, h) ==
  /\ con[c] = Quiet /\ started < MaxConnects
  /\ started' = started + 1
  /\ Put(c, [Quiet EXCEPT !.pc = "read", !.hub = h, !.name = started + 1])
  /\ UNCHANGED <<file, mtime, baks, edits>>

\* A mistake to catch: a file that does not parse is taken for an empty one.
ReadTornAsEmpty(c) ==
  /\ con[c].pc = "read"
  /\ Put(c, [con[c] EXCEPT !.pc = "stat", !.read = IF file.st = "torn" THEN Absent ELSE file])
  /\ UNCHANGED <<file, mtime, baks, started, edits>>

\* Update: Read. A file that does not parse is refused; one that is missing is {}.
Read(c) ==
  /\ con[c].pc = "read"
  /\ Put(c, IF file.st = "torn" THEN Quiet ELSE [con[c] EXCEPT !.pc = "stat", !.read = file])
  /\ UNCHANGED <<file, mtime, baks, started, edits>>

\* Update: Stat. Without a file there is no backup to take.
Stat(c) ==
  /\ con[c].pc = "stat"
  /\ Put(c, [con[c] EXCEPT !.stat = mtime, !.found = file.st # "absent",
                           !.pc = IF file.st = "absent" THEN "temp" ELSE "copy"])
  /\ UNCHANGED <<file, mtime, baks, started, edits>>

\* The names of backups that connects at work have taken: the clock of a name counts
\* milliseconds, so that the next one may get the same.
Taken(c) ==
  {con[d].name : d \in {d \in Connects \ {c} :
                          con[d].pc \in {"create", "fill", "temp", "restat", "rename"}}}

\* A mistake to catch: what Read returned is backed up, not what is on disk.
CopyOfRead(c) ==
  /\ con[c].pc = "copy"
  /\ \E n \in {con[c].name} \cup Taken(c) :
       Put(c, [con[c] EXCEPT !.pc = "create", !.name = n, !.copy = con[c].read])
  /\ UNCHANGED <<file, mtime, baks, started, edits>>

\* Update: the backup is named after the time, and ReadFile reads whatever the
\* file holds by now, byte for byte.
CopyFile(c) ==
  /\ con[c].pc = "copy"
  /\ \E n \in {con[c].name} \cup Taken(c) :
       Put(c, [con[c] EXCEPT !.pc = "create", !.name = n, !.copy = file])
  /\ UNCHANGED <<file, mtime, baks, started, edits>>

\* Another connect has written under the name of c's backup.
Shared(c) == \E i \in DOMAIN baks : baks[i].name = con[c].name /\ baks[i].by # c

WriteBackup(c, x) == baks' = Append(baks, [name |-> con[c].name, by |-> c, was |-> x])

\* Update: WriteFile creates the backup, or truncates one of the same name.
CreateBackup(c) ==
  /\ con[c].pc = "create" /\ Goto(c, "fill")
  /\ WriteBackup(c, Torn)
  /\ UNCHANGED <<file, mtime, started, edits>>

\* Update: WriteFile writes it. Two at once under one name may be mixed.
FillBackup(c) ==
  /\ con[c].pc = "fill" /\ Goto(c, "temp")
  /\ WriteBackup(c, con[c].copy) \/ (Shared(c) /\ WriteBackup(c, Torn))
  /\ UNCHANGED <<file, mtime, started, edits>>

\* Update: the merged settings are written to a temporary file and synced.
WriteTemp(c) ==
  /\ con[c].pc = "temp" /\ Goto(c, "restat")
  /\ UNCHANGED <<file, mtime, baks, started, edits>>

\* Update: Stat again; a file that was there and has changed is left alone.
Restat(c) ==
  /\ con[c].pc = "restat"
  /\ Put(c, IF con[c].found /\ (file.st = "absent" \/ mtime # con[c].stat) THEN Quiet
            ELSE [con[c] EXCEPT !.pc = "rename"])
  /\ UNCHANGED <<file, mtime, baks, started, edits>>

\* current with the keys of `updates` set, the device id not among them.
Merged(c) == [con[c].read.set EXCEPT !.hub = con[c].hub]

\* Update: rename. restartWorker follows; claude-mem then mints a device id.
Rename(c) ==
  /\ con[c].pc = "rename"
  /\ Replace(Merged(c), c)
  /\ UNCHANGED <<baks, started, edits>>

\* Any call of connect or --undo fails, or the process dies: a temporary file is
\* left or removed. What it has opened with WriteFile stays cut short, a backup,
\* then the newest one there is, or after Truncate the settings file itself.
ConnectFails(c) ==
  /\ con[c].pc # "off" /\ Put(c, Quiet)
  /\ UNCHANGED <<file, mtime, baks, started, edits>>

-----------------------------------------------------------------------------
(* connect --undo                                                          *)

\* LatestBackup, and ReadFile of it: the newest one, whoever made it.
Undo(c) ==
  /\ con[c] = Quiet /\ baks # <<>> /\ started < MaxConnects
  /\ started' = started + 1
  /\ Put(c, [Quiet EXCEPT !.pc = "truncate", !.read = baks[Len(baks)].was])
  /\ UNCHANGED <<file, mtime, baks, edits>>

\* Restore: WriteFile truncates the file in place.
Truncate(c) ==
  /\ con[c].pc = "truncate"
  /\ file' = Torn /\ mtime' = mtime + 1
  /\ con' = [d \in Connects |-> IF d = c THEN [con[c] EXCEPT !.pc = "restore"] ELSE Missed(d)]
  /\ UNCHANGED <<baks, started, edits>>

\* Restore: WriteFile writes it. Where another --undo has written something else
\* since, the two may be mixed.
Restore(c) ==
  /\ con[c].pc = "restore"
  /\ \/ file' = con[c].read
     \/ file.st = "ok" /\ file # con[c].read /\ file' = Torn
  /\ mtime' = mtime + 1
  /\ con' = [d \in Connects |-> IF d = c THEN Quiet ELSE Missed(d)]
  /\ UNCHANGED <<baks, started, edits>>

-----------------------------------------------------------------------------
(* claude-mem and its user, external                                       *)

\* claude-mem mints its device id once sync is configured, and writes it back; it
\* replaces the file in one step.
MintDeviceId ==
  /\ file.st = "ok" /\ file.set.hub # NoHub /\ ~file.set.dev /\ edits < MaxEdits
  /\ edits' = edits + 1
  /\ Replace([file.set EXCEPT !.dev = TRUE], NoHub)
  /\ UNCHANGED <<baks, started>>

\* The user edits the list of excluded projects; the first edit creates the file.
EditExcluded(l) ==
  /\ file.st # "torn" /\ edits < MaxEdits /\ WithList(file.set, l) # file.set
  /\ edits' = edits + 1
  /\ Replace(WithList(file.set, l), NoHub)
  /\ UNCHANGED <<baks, started>>

UpdateStep(c) == \/ Read(c) \/ Stat(c) \/ CopyFile(c) \/ CreateBackup(c) \/ FillBackup(c)
                 \/ WriteTemp(c) \/ Restat(c)

-----------------------------------------------------------------------------
\* Type invariant of the settings part.
SettingsTypeOK ==
  /\ file \in Content /\ mtime \in Nat
  /\ baks \in Seq([name : Nat, by : Connects, was : Content]) /\ Len(baks) <= 2 * MaxConnects + 1
  /\ con \in [Connects -> [pc : {"off", "read", "stat", "copy", "create", "fill", "temp",
                                 "restat", "rename", "truncate", "restore"},
                           hub : Hubs \cup {NoHub}, read : Content, stat : Nat,
                           found : BOOLEAN, name : Nat, copy : Content,
                           early : BOOLEAN, late : BOOLEAN]]
  /\ started \in 0..MaxConnects /\ edits \in 0..MaxEdits

\* The step in which connect c puts its file in the place of the present one.
Replaces(c) == con[c].pc = "rename" /\ con'[c] = Quiet /\ mtime' # mtime

\* "Never overwrite a file we cannot parse", "a concurrent write would otherwise be
\* silently discarded": a connect never replaces a file that does not parse, and
\* every key but the hub's, the device id among them, is afterwards what it was in
\* the file that it replaced, whoever has written that and when. The two ways out
\* are what Update cannot see: a write between Read and the first Stat (early), and
\* one after its last look at the file, which is the second Stat, or the first where
\* it found no file (late). These writes are lost, and connect reports success.
ConnectKeepsOthers ==
  [][\A c \in Connects : Replaces(c) =>
       \/ file.st # "torn" /\ file'.set = [file.set EXCEPT !.hub = con[c].hub]
       \/ con[c].early \/ con[c].late]_svars

\* "restore with: cmemlan connect --undo": what a connect replaces, a write it missed
\* before its first Stat included, is what its backup holds by then. The ways out are
\* a write after its last look at the file, and another connect that took its backup's
\* name in the same millisecond.
ReplacedIsBackedUp ==
  [][\A c \in Connects : Replaces(c) /\ file.st # "absent" =>
       \/ \E i \in DOMAIN baks : /\ baks[i].name = con[c].name /\ baks[i].was = file
                                 /\ \A j \in DOMAIN baks : j > i => baks[j].name # con[c].name
       \/ con[c].late \/ Shared(c)]_svars
=============================================================================
