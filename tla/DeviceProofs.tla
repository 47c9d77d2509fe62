---------------------------- MODULE DeviceProofs ----------------------------
(***************************************************************************)
(* Proofs about Device: for any rows, projects, hubs and bounds, and any   *)
(* number of connects at the same time. The database and the settings file *)
(* have little to do with each other, so a step is first reduced to what   *)
(* it does to each.                                                        *)
(***************************************************************************)
EXTENDS Device, FiniteSetTheorems, TLAPS

-----------------------------------------------------------------------------
(* What a step of the device is to its two parts                           *)

SettingsAction ==
  \/ \E c \in Connects : \/ \E h \in Hubs : Connect(c, h)
                         \/ UpdateStep(c) \/ Rename(c) \/ ConnectFails(c)
                         \/ Undo(c) \/ Truncate(c) \/ Restore(c)
  \/ MintDeviceId
  \/ \E l \in Lists : EditExcluded(l)

DatabaseAction ==
  \/ \E p \in Projects \cup {AnyProject}, readOK \in BOOLEAN :
       \E list \in excludedProjects(readOK) : StartBackfill(p, list)
  \/ BackfillStep \/ WorkerStep \/ RestartWorker

\* Every step is a step of the settings file or leaves it alone.
LEMMA SettingsPart == [Next]_vars => SettingsAction \/ UNCHANGED svars
  BY DEF Next, vars, ConnectStep, FinishConnect, RunBackfill, ClaudeMemStep, DatabaseStep,
         SettingsAction

\* Every step is a step of the database or leaves it alone.
LEMMA DatabasePart == [Next]_vars => DatabaseAction \/ UNCHANGED bvars
  BY DEF Next, vars, ConnectStep, FinishConnect, RunBackfill, ClaudeMemStep, DatabaseStep,
         DatabaseAction

-----------------------------------------------------------------------------
(* The launch baseline. BaselineKept is inductive as it stands.            *)

\* A backfill, whatever its scope, moves rows of the baseline and loses none.
LEMMA RequeueKeeps == BaselineKept /\ Requeue => BaselineKept'
  <1> SUFFICES ASSUME BaselineKept, Requeue PROVE BaselineKept'
    OBVIOUS
  <1> DEFINE scope == filterFor(job.project, job.excluded)
  <1>1. /\ undo'.rows = undo.rows \cup (excl \cap scope)
        /\ excl' = excl \ scope /\ synced' = synced \ scope /\ uploaded' = uploaded
    BY DEF Requeue
  <1>2. BaselinePartition'
    BY <1>1 DEF BaselineKept, BaselinePartition
  <1>3. StampsHonest'
    BY <1>1 DEF BaselineKept, StampsHonest
  <1> QED BY <1>2, <1>3 DEF BaselineKept

\* An undo brings them back, and their stamps with them.
LEMMA UndoKeeps == BaselineKept /\ UndoBackfill => BaselineKept'
  <1> SUFFICES ASSUME BaselineKept, UndoBackfill PROVE BaselineKept'
    OBVIOUS
  <1>1. /\ undo'.rows = {} /\ excl' = excl \cup undo.rows
        /\ synced' = synced \cup (undo.rows \cap Local) /\ uploaded' = uploaded
    BY DEF UndoBackfill, NoUndo
  <1>2. Baseline \subseteq Local
    BY BackfillAssumption DEF Local
  <1>3. BaselinePartition'
    BY <1>1 DEF BaselineKept, BaselinePartition
  <1>4. StampsHonest'
    BY <1>1, <1>2 DEF BaselineKept, BaselinePartition, StampsHonest
  <1> QED BY <1>3, <1>4 DEF BaselineKept

\* The worker stamps only what the hub has.
LEMMA WorkerKeeps == BaselineKept /\ (WorkerStep \/ RestartWorker) => BaselineKept'
  <1> SUFFICES ASSUME BaselineKept, WorkerStep \/ RestartWorker PROVE BaselineKept'
    OBVIOUS
  <1> USE DEF BaselineKept, BaselinePartition, StampsHonest, db
  <1>1. CASE WorkerStarts \/ WorkerStops \/ RestartWorker
    BY <1>1 DEF WorkerStarts, WorkerStops, RestartWorker
  <1>2. ASSUME NEW r \in Rows, WorkerSends(r) PROVE BaselineKept'
    BY <1>2 DEF WorkerSends
  <1>3. ASSUME NEW r \in Rows, WorkerStamps(r) PROVE BaselineKept'
    BY <1>3 DEF WorkerStamps
  <1>4. ASSUME NEW r \in Rows, WorkerGivesUp(r) PROVE BaselineKept'
    BY <1>4 DEF WorkerGivesUp
  <1> QED BY <1>1, <1>2, <1>3, <1>4 DEF WorkerStep

\* Over every sequence of backfills, undos, failures and restarts of the worker,
\* each row of the launch baseline is in exactly one of the two tables, and no
\* local row counts as uploaded that is neither on the hub nor of the baseline.
THEOREM DeviceBaselineKept == Spec => []BaselineKept
  <1>1. Init => BaselineKept
    BY BackfillAssumption DEF Init, BInit, NoUndo, Local, BaselineKept, BaselinePartition, StampsHonest
  <1>2. BaselineKept /\ [Next]_vars => BaselineKept'
    <2> SUFFICES ASSUME BaselineKept, DatabaseAction \/ UNCHANGED bvars PROVE BaselineKept'
      BY DatabasePart
    <2>1. CASE UNCHANGED bvars
      BY <2>1 DEF bvars, BaselineKept, BaselinePartition, StampsHonest
    <2>2. ASSUME NEW p, NEW list, StartBackfill(p, list) PROVE BaselineKept'
      BY <2>2 DEF StartBackfill, db, BaselineKept, BaselinePartition, StampsHonest
    <2>3. CASE CheckAndBackup \/ BackfillFails
      BY <2>3 DEF CheckAndBackup, BackfillFails, db, BaselineKept, BaselinePartition, StampsHonest
    <2>4. CASE Requeue \/ UndoBackfill
      BY <2>4, RequeueKeeps, UndoKeeps
    <2>5. CASE WorkerStep \/ RestartWorker
      BY <2>5, WorkerKeeps
    <2> QED BY <2>1, <2>2, <2>3, <2>4, <2>5 DEF DatabaseAction, BackfillStep
  <1> QED BY <1>1, <1>2, PTL DEF Spec
-----------------------------------------------------------------------------
(* Excluded projects                                                       *)

JobShape == job = [pc |-> job.pc, project |-> job.project, excluded |-> job.excluded]

\* A running backfill has the list of the settings file, or is known to have none
\* or an old one.
ListInv == job = NoJob \/ stale \/ job.excluded = file.set.excl

\* What the other steps do to the backfill that is running: it ends, goes on with
\* its list, or is not touched.
LEMMA JobKept ==
  ASSUME JobShape, BackfillStep \/ WorkerStep
  PROVE  JobShape' /\ (job' # NoJob => job # NoJob /\ job'.excluded = job.excluded)
  <1>1. CASE job' = NoJob
    BY <1>1 DEF NoJob, JobShape
  <1>2. CASE job' = job /\ job' # NoJob
    BY <1>2 DEF JobShape
  <1>3. CASE CheckAndBackup /\ job' # NoJob
    <2>1. job.pc = "check" /\ job' = [job EXCEPT !.pc = "tx"]
      BY <1>3 DEF CheckAndBackup
    <2>2. job' = [pc |-> "tx", project |-> job.project, excluded |-> job.excluded]
      BY <2>1 DEF JobShape
    <2>3. job # NoJob
      BY <2>1 DEF NoJob
    <2> QED BY <2>2, <2>3 DEF JobShape
  <1>4. Requeue \/ BackfillFails => job' = NoJob
    BY DEF Requeue, BackfillFails
  <1>5. UndoBackfill \/ WorkerStep => job' = job
    BY DEF UndoBackfill, WorkerStep, WorkerStarts, WorkerStops, WorkerSends, WorkerStamps, WorkerGivesUp
  <1> QED BY <1>1, <1>2, <1>3, <1>4, <1>5 DEF BackfillStep

\* Every step keeps the list up to date, or remembers that it is not.
LEMMA ListKept == ASSUME JobShape, ListInv, [Next]_vars PROVE JobShape' /\ ListInv'
  <1>1. CASE UNCHANGED <<svars, bvars, stale>>
    BY <1>1 DEF svars, bvars, JobShape, ListInv
  <1>2. CASE SettingsChange /\ job' = job
    BY <1>2 DEF SettingsChange, JobShape, ListInv
  <1>3. ASSUME NEW p, RunBackfill(p) PROVE JobShape' /\ ListInv'
    <2>1. PICK readOK \in BOOLEAN : /\ \E list \in excludedProjects(readOK) : StartBackfill(p, list)
                                    /\ stale' = ~ListReadable(readOK)
      BY <1>3 DEF RunBackfill
    <2>2. PICK list \in excludedProjects(readOK) : StartBackfill(p, list)
      BY <2>1
    <2>3. job' = [pc |-> "check", project |-> p, excluded |-> list] /\ file' = file
      BY <1>3, <2>2 DEF RunBackfill, StartBackfill, svars
    <2>4. CASE ListReadable(readOK)
      BY <2>2, <2>3, <2>4 DEF JobShape, ListInv, excludedProjects
    <2>5. CASE ~ListReadable(readOK)
      BY <2>1, <2>3, <2>5 DEF JobShape, ListInv
    <2> QED BY <2>4, <2>5
  <1>4. CASE DatabaseStep
    <2>1. JobShape' /\ (job' # NoJob => job # NoJob /\ job'.excluded = job.excluded)
      BY <1>4, JobKept DEF DatabaseStep
    <2>2. stale' = (stale /\ job' # NoJob) /\ file' = file
      BY <1>4 DEF DatabaseStep, svars
    <2> QED BY <2>1, <2>2 DEF ListInv
  <1>5. ASSUME NEW c \in Connects, ConnectStep(c) \/ FinishConnect(c) PROVE SettingsChange /\ job' = job
    BY <1>5 DEF ConnectStep, FinishConnect, RestartWorker, bvars
  <1>6. ClaudeMemStep => SettingsChange /\ job' = job
    BY DEF ClaudeMemStep, bvars
  <1> QED BY <1>1, <1>2, <1>3, <1>4, <1>5, <1>6 DEF Next, vars

\* Only the transaction of a backfill takes a stamp away.
LEMMA OnlyRequeueClears ==
  ASSUME DatabaseAction \/ UNCHANGED bvars, ~Requeue
  PROVE  synced \subseteq synced'
  <1>1. CASE UNCHANGED bvars
    BY <1>1 DEF bvars
  <1>2. ASSUME NEW p, NEW list, StartBackfill(p, list) PROVE synced' = synced
    BY <1>2 DEF StartBackfill, db
  <1>3. CASE CheckAndBackup \/ BackfillFails \/ UndoBackfill
    BY <1>3 DEF CheckAndBackup, BackfillFails, UndoBackfill, db
  <1>4. CASE WorkerStep \/ RestartWorker
    BY <1>4 DEF WorkerStep, RestartWorker, WorkerStarts, WorkerStops, WorkerSends, WorkerStamps,
                WorkerGivesUp, db
  <1> QED BY <1>1, <1>2, <1>3, <1>4 DEF DatabaseAction, BackfillStep

\* No row of a project that the settings file excludes is queued again, unless the
\* backfill did not get the list (an error of the path or of the file, a file that
\* does not parse, a value that is no string with a list in it), or the file has been
\* written since it did.
THEOREM DeviceExclusionHonoured == Spec => ExclusionHonoured
  <1>1. Init => JobShape /\ ListInv
    BY DEF Init, BInit, NoJob, JobShape, ListInv
  <1>2. JobShape /\ ListInv /\ [Next]_vars => (JobShape /\ ListInv)'
    BY ListKept
  <1>3. JobShape /\ ListInv /\ [Next]_vars =>
          [\A r \in synced \ synced' : Project[r] \notin file.set.excl \/ stale]_vars
    <2> SUFFICES ASSUME ListInv, [Next]_vars, ~stale, NEW r \in synced \ synced'
                 PROVE  Project[r] \notin file.set.excl
      OBVIOUS
    <2>1. Requeue
      BY DatabasePart, OnlyRequeueClears
    <2>2. job # NoJob /\ r \in filterFor(job.project, job.excluded)
      BY <2>1 DEF Requeue, NoJob
    <2> QED BY <2>2 DEF ListInv, filterFor
  <1> QED BY <1>1, <1>2, <1>3, PTL DEF Spec, ExclusionHonoured
-----------------------------------------------------------------------------
(* The settings file                                                       *)

ConRec == [pc : {"off", "read", "stat", "copy", "create", "fill", "temp", "restat", "rename",
                 "truncate", "restore"},
           hub : Hubs \cup {NoHub}, read : Content, stat : Nat, found : BOOLEAN, name : Nat,
           copy : Content, early : BOOLEAN, late : BOOLEAN]

BackupRec == [name : Nat, by : Connects, was : Content]

FileType ==
  /\ file \in Content /\ mtime \in Nat /\ baks \in Seq(BackupRec)
  /\ con \in [Connects -> ConRec] /\ started \in Nat

\* The file f is what r has read, and parses, or r has missed a write before Stat.
Same(r, f) == r.early \/ (f = r.read /\ f.st # "torn")

\* The file f, if there is one, is what c's backup holds, and the last thing c wrote,
\* or another connect has written under the name of the backup.
Safe(c, r, f, b) ==
  \/ f.st = "absent"
  \/ \E i \in DOMAIN b : b[i].name = r.name /\ b[i].by # c
  \/ \E i \in DOMAIN b : /\ b[i].name = r.name /\ b[i].was = f
                         /\ \A j \in DOMAIN b : j > i => b[j].by # c

\* What Update relies on: a Stat that still holds means that the file has not been
\* written since, so that it is what was read, and the backup taken after it is one of
\* the present content; past the last look, as long as nobody has written since.
Covered(c, r, f, m, b) ==
  /\ r.pc = "stat" => Same(r, f)
  /\ r.pc \in {"copy", "create", "fill", "temp", "restat"} =>
       r.stat <= m /\ (r.stat = m => Same(r, f))
  /\ r.pc \in {"copy", "create", "fill"} => r.found
  /\ r.pc \in {"create", "fill"} /\ r.stat = m => r.copy = f
  /\ r.pc \in {"temp", "restat"} => (r.stat = m => Safe(c, r, f, b)) /\ (r.stat = m \/ r.found \/ r.late)
  /\ r.pc = "rename" /\ ~r.late => Same(r, f) /\ Safe(c, r, f, b)

FileInv == \A c \in Connects : Covered(c, con[c], file, mtime, baks)

\* The steps that write the file, and those that do not.
WriteAction ==
  \/ \E c \in Connects : Rename(c) \/ Truncate(c) \/ Restore(c)
  \/ MintDeviceId
  \/ \E l \in Lists : EditExcluded(l)

\* A step of one connect beside the file: c goes on as r, and writes at most a backup.
Beside(c, r) ==
  /\ con' = [con EXCEPT ![c] = r] /\ r \in ConRec
  /\ file' = file /\ mtime' = mtime
  /\ baks' = baks \/ \E x \in BackupRec : x.by = c /\ baks' = Append(baks, x)
  /\ started' \in Nat

\* The values that the actions write are of their types.
LEMMA ConstantContents ==
  /\ Quiet \in ConRec /\ Quiet.pc = "off" /\ Torn \in Content
  /\ Absent \in Content /\ Absent.st = "absent"
  /\ \A v \in Settings : Holds(v) \in Content /\ Holds(v).set = v
  /\ Fresh \in Settings
  BY DEF Quiet, ConRec, Torn, Absent, Fresh, Content, Settings, Holds

\* EditExcluded: with another list the settings are settings still.
LEMMA ListSettings == \A v \in Settings, l \in Lists : WithList(v, l) \in Settings
  BY DEF Settings, Lists, WithList

\* A write by someone else leaves a connect where it is, and is marked as missed
\* before the first Stat and after the last look.
LEMMA MissedType ==
  ASSUME FileType, NEW c \in Connects
  PROVE  /\ Missed(c) \in ConRec /\ Missed(c).pc = con[c].pc /\ Missed(c).stat = con[c].stat
         /\ Missed(c).found = con[c].found
         /\ con[c].pc = "stat" => Missed(c).early
         /\ con[c].pc = "rename" => Missed(c).late
         /\ con[c].pc \in {"temp", "restat"} /\ ~con[c].found => Missed(c).late
  BY DEF FileType, ConRec, Missed

\* Replace: its author is done, and nobody left inside a --undo that opened the old.
LEMMA ReplaceType ==
  ASSUME FileType, NEW v \in Settings, NEW by, Replace(v, by)
  PROVE  /\ file' \in Content /\ mtime' = mtime + 1
         /\ con' \in [Connects -> ConRec]
         /\ \A d \in Connects : con'[d] \in {Quiet, Missed(d)}
  BY ConstantContents, MissedType DEF Replace

\* A backup that another connect writes takes nothing from what is safe for c.
LEMMA SafeStays ==
  ASSUME NEW b \in Seq(BackupRec), NEW x \in BackupRec, NEW c, NEW r, NEW f,
         Safe(c, r, f, b), x.by # c
  PROVE  Safe(c, r, f, Append(b, x))
  <1> DEFINE a == Append(b, x)
  <1>1. /\ \A i \in DOMAIN b : i \in DOMAIN a /\ a[i] = b[i]
        /\ \A j \in DOMAIN a : j \in DOMAIN b \/ a[j] = x
    OBVIOUS
  <1> HIDE DEF a
  <1>2. CASE f.st = "absent"
    BY <1>2 DEF Safe
  <1>3. ASSUME NEW i \in DOMAIN b, b[i].name = r.name, b[i].by # c PROVE Safe(c, r, f, a)
    BY <1>1, <1>3 DEF Safe
  <1>4. ASSUME NEW i \in DOMAIN b, b[i].name = r.name, b[i].was = f,
               \A j \in DOMAIN b : j > i => b[j].by # c
        PROVE  Safe(c, r, f, a)
    <2>1. i \in DOMAIN a /\ a[i].name = r.name /\ a[i].was = f
      BY <1>1, <1>4
    <2>2. \A j \in DOMAIN a : j > i => a[j].by # c
      BY <1>1, <1>4
    <2> QED BY <2>1, <2>2 DEF Safe
  <1>5. Safe(c, r, f, a)
    BY <1>2, <1>3, <1>4 DEF Safe
  <1> QED BY <1>5 DEF a

\* What c writes itself is safe if it is the file, or if the name is shared.
LEMMA SafeWritten ==
  ASSUME NEW b \in Seq(BackupRec), NEW x \in BackupRec, NEW c, NEW r, NEW f, x.name = r.name,
         x.was = f \/ \E i \in DOMAIN b : b[i].name = r.name /\ b[i].by # c
  PROVE  Safe(c, r, f, Append(b, x))
  <1> DEFINE a == Append(b, x)
             n == Len(b) + 1
  <1>1. /\ \A i \in DOMAIN b : i \in DOMAIN a /\ a[i] = b[i]
        /\ n \in DOMAIN a /\ a[n] = x /\ \A j \in DOMAIN a : ~(j > n)
    OBVIOUS
  <1> HIDE DEF a, n
  <1>2. ASSUME x.was = f PROVE Safe(c, r, f, a)
    BY <1>1, <1>2 DEF Safe
  <1>3. ASSUME \E i \in DOMAIN b : b[i].name = r.name /\ b[i].by # c PROVE Safe(c, r, f, a)
    BY <1>1, <1>3 DEF Safe
  <1>4. Safe(c, r, f, a)
    BY <1>2, <1>3
  <1> QED BY <1>4 DEF a

\* A step beside the file keeps the invariant if the connect that takes it goes on
\* as it should.
LEMMA BesideKeeps ==
  ASSUME FileType, FileInv, NEW c \in Connects, NEW r, Beside(c, r),
         Covered(c, r, file, mtime, baks')
  PROVE  FileType' /\ FileInv'
  <1>1. con'[c] = r /\ \A d \in Connects : d # c => con'[d] = con[d]
    BY DEF Beside, FileType
  <1>2. FileType'
    BY DEF Beside, FileType
  <1>3. ASSUME NEW d \in Connects, d # c PROVE Covered(d, con[d], file, mtime, baks')
    <2>1. Covered(d, con[d], file, mtime, baks)
      BY DEF FileInv
    <2>2. Safe(d, con[d], file, baks) => Safe(d, con[d], file, baks')
      BY <1>3, SafeStays DEF Beside, FileType
    <2> QED BY <2>1, <2>2 DEF Covered
  <1>4. ASSUME NEW d \in Connects PROVE Covered(d, con'[d], file', mtime', baks')
    BY <1>1, <1>3 DEF Beside
  <1> QED BY <1>2, <1>4 DEF FileInv

\* A step that writes the file keeps it: every Stat taken before is out of date.
LEMMA WriteKeeps == ASSUME FileType, FileInv, WriteAction PROVE FileType' /\ FileInv'
  <1>1. ASSUME /\ file' \in Content /\ mtime' = mtime + 1 /\ baks' = baks /\ started' = started
               /\ con' \in [Connects -> ConRec]
               /\ \A d \in Connects : con'[d] \in {Quiet, Missed(d)} \/ con'[d].pc = "restore"
        PROVE  FileType' /\ FileInv'
    <2>1. FileType'
      BY <1>1 DEF FileType
    <2>2. ASSUME NEW d \in Connects PROVE Covered(d, con'[d], file', mtime', baks')
      <3>1. CASE con'[d].pc = "restore" \/ con'[d] = Quiet
        BY <3>1, ConstantContents DEF Covered
      <3>2. CASE con'[d] = Missed(d)
        <4> DEFINE r == Missed(d)
        <4>1. /\ r.pc = con[d].pc /\ r.stat = con[d].stat /\ r.found = con[d].found
              /\ con[d].pc = "stat" => r.early
              /\ con[d].pc = "rename" => r.late
              /\ con[d].pc \in {"temp", "restat"} /\ ~con[d].found => r.late
          BY MissedType
        <4>2. mtime \in Nat /\ con[d].stat \in Nat /\ Covered(d, con[d], file, mtime, baks)
          BY DEF FileType, ConRec, FileInv
        <4>3. r.pc \in {"copy", "create", "fill", "temp", "restat"} => r.stat <= mtime
          BY <4>1, <4>2 DEF Covered
        <4> HIDE DEF r
        <4>4. Covered(d, r, file', mtime + 1, baks')
          BY <4>1, <4>2, <4>3 DEF Covered, Same
        <4> QED BY <1>1, <3>2, <4>4 DEF r
      <3> QED BY <1>1, <3>1, <3>2
    <2> QED BY <2>1, <2>2 DEF FileInv
  <1>2. ASSUME NEW c \in Connects, Rename(c) PROVE FileType' /\ FileInv'
    <2>1. Merged(c) \in Settings
      BY DEF FileType, ConRec, Content, Settings, Merged
    <2> QED BY <1>1, <1>2, <2>1, ReplaceType DEF Rename
  <1>3. ASSUME NEW c \in Connects, Truncate(c) PROVE FileType' /\ FileInv'
    <2>1. [con[c] EXCEPT !.pc = "restore"] \in ConRec /\ [con[c] EXCEPT !.pc = "restore"].pc = "restore"
      BY DEF FileType, ConRec
    <2> QED BY <1>1, <1>3, <2>1, ConstantContents, MissedType DEF Truncate, FileType
  <1>4. ASSUME NEW c \in Connects, Restore(c) PROVE FileType' /\ FileInv'
    <2>1. con[c].read \in Content
      BY DEF FileType, ConRec
    <2> QED BY <1>1, <1>4, <2>1, ConstantContents, MissedType DEF Restore, FileType
  <1>5. ASSUME MintDeviceId PROVE FileType' /\ FileInv'
    <2>1. [file.set EXCEPT !.dev = TRUE] \in Settings
      BY DEF FileType, Content, Settings
    <2> QED BY <1>1, <1>5, <2>1, ReplaceType DEF MintDeviceId
  <1>6. ASSUME NEW l \in Lists, EditExcluded(l) PROVE FileType' /\ FileInv'
    <2>1. WithList(file.set, l) \in Settings
      BY ListSettings DEF FileType, Content
    <2> QED BY <1>1, <1>6, <2>1, ReplaceType DEF EditExcluded
  <1> QED BY <1>2, <1>3, <1>4, <1>5, <1>6 DEF WriteAction

\* The steps that do not write the file: each call of Update in turn.
LEMMA ConnectKeeps ==
  ASSUME FileType, FileInv, NEW c \in Connects,
         \/ \E h \in Hubs : Connect(c, h)
         \/ UpdateStep(c) \/ ConnectFails(c) \/ Undo(c)
  PROVE  FileType' /\ FileInv'
  <1> USE DEF Put, Goto
  <1>1. con[c] \in ConRec /\ Covered(c, con[c], file, mtime, baks)
    BY DEF FileType, FileInv
  <1>2. Quiet \in ConRec /\ Quiet.pc = "off" /\ started + 1 \in Nat /\ mtime \in Nat /\ started \in Nat
    BY ConstantContents DEF FileType
  <1>3. ASSUME NEW r, r.pc \in {"off", "read", "truncate"}, Beside(c, r) PROVE FileType' /\ FileInv'
    <2>1. Covered(c, r, file, mtime, baks')
      BY <1>3 DEF Covered
    <2> QED BY <1>3, <2>1, BesideKeeps
  <1>4. ASSUME NEW h \in Hubs, Connect(c, h) PROVE FileType' /\ FileInv'
    <2> DEFINE r == [Quiet EXCEPT !.pc = "read", !.hub = h, !.name = started + 1]
    <2>1. r \in ConRec /\ r.pc = "read"
      BY <1>2 DEF Quiet, ConRec
    <2>2. Beside(c, r)
      BY <1>2, <1>4, <2>1 DEF Connect, Beside
    <2> HIDE DEF r
    <2> QED BY <1>3, <2>1, <2>2
  <1>5. CASE Read(c)
    <2>1. CASE file.st = "torn"
      <3>1. Beside(c, Quiet)
        BY <1>2, <1>5, <2>1 DEF Read, Beside
      <3> QED BY <1>2, <1>3, <3>1
    <2>2. CASE file.st # "torn"
      <3> DEFINE r == [con[c] EXCEPT !.pc = "stat", !.read = file]
      <3>1. r \in ConRec /\ r.pc = "stat" /\ r.read = file
        BY <1>1 DEF ConRec, FileType
      <3>2. Beside(c, r)
        BY <1>2, <1>5, <2>2, <3>1 DEF Read, Beside
      <3> HIDE DEF r
      <3>3. Covered(c, r, file, mtime, baks')
        BY <2>2, <3>1 DEF Covered, Same
      <3> QED BY <3>2, <3>3, BesideKeeps
    <2> QED BY <2>1, <2>2
  <1>6. CASE Stat(c)
    <2> DEFINE r == [con[c] EXCEPT !.stat = mtime, !.found = file.st # "absent",
                                   !.pc = IF file.st = "absent" THEN "temp" ELSE "copy"]
    <2>1. /\ r \in ConRec /\ r.stat = mtime /\ r.read = con[c].read /\ r.early = con[c].early
          /\ r.pc = IF file.st = "absent" THEN "temp" ELSE "copy"
          /\ r.found = (file.st # "absent")
      BY <1>1, <1>2 DEF ConRec
    <2>2. Beside(c, r)
      BY <1>2, <1>6, <2>1 DEF Stat, Beside
    <2>3. Same(con[c], file)
      BY <1>1, <1>6 DEF Stat, Covered
    <2> HIDE DEF r
    <2>4. Same(r, file)
      BY <2>1, <2>3 DEF Same
    <2>5. r.pc = "temp" => Safe(c, r, file, baks')
      BY <2>1 DEF Safe
    <2>6. r.stat <= mtime
      BY <1>2, <2>1
    <2>7. Covered(c, r, file, mtime, baks')
      BY <2>1, <2>4, <2>5, <2>6 DEF Covered
    <2> QED BY <2>2, <2>7, BesideKeeps
  <1>7. CASE CopyFile(c)
    <2>1. PICK n \in {con[c].name} \cup Taken(c) :
            con' = [con EXCEPT ![c] = [con[c] EXCEPT !.pc = "create", !.name = n, !.copy = file]]
      BY <1>7 DEF CopyFile
    <2>2. n \in Nat
      BY <1>1, <2>1 DEF ConRec, FileType, Taken
    <2> DEFINE r == [con[c] EXCEPT !.pc = "create", !.name = n, !.copy = file]
    <2>3. /\ r \in ConRec /\ r.stat = con[c].stat /\ r.read = con[c].read /\ r.early = con[c].early
          /\ r.pc = "create" /\ r.copy = file /\ r.found = con[c].found
      BY <1>1, <2>2 DEF ConRec, FileType
    <2>4. Beside(c, r) /\ con[c].pc = "copy"
      BY <1>2, <1>7, <2>1, <2>3 DEF CopyFile, Beside
    <2> HIDE DEF r
    <2>5. Covered(c, r, file, mtime, baks')
      BY <1>1, <2>3, <2>4 DEF Covered, Same
    <2> QED BY <2>4, <2>5, BesideKeeps
  <1>8. CASE CreateBackup(c)
    <2> DEFINE r == [con[c] EXCEPT !.pc = "fill"]
               x == [name |-> con[c].name, by |-> c, was |-> Torn]
    <2>1. /\ r \in ConRec /\ r.stat = con[c].stat /\ r.read = con[c].read /\ r.early = con[c].early
          /\ r.pc = "fill" /\ r.copy = con[c].copy /\ r.found = con[c].found
      BY <1>1 DEF ConRec
    <2>2. x \in BackupRec /\ x.by = c
      BY <1>1, ConstantContents DEF ConRec, BackupRec
    <2>3. Beside(c, r) /\ con[c].pc = "create"
      BY <1>2, <1>8, <2>1, <2>2 DEF CreateBackup, WriteBackup, Beside
    <2> HIDE DEF r, x
    <2>4. Covered(c, r, file, mtime, baks')
      BY <1>1, <2>1, <2>3 DEF Covered, Same
    <2> QED BY <2>3, <2>4, BesideKeeps
  <1>9. CASE FillBackup(c)
    <2> DEFINE r == [con[c] EXCEPT !.pc = "temp"]
    <2>1. PICK w \in {con[c].copy, Torn} :
            /\ baks' = Append(baks, [name |-> con[c].name, by |-> c, was |-> w])
            /\ w = con[c].copy \/ Shared(c)
      BY <1>9 DEF FillBackup, WriteBackup
    <2> DEFINE x == [name |-> con[c].name, by |-> c, was |-> w]
    <2>2. /\ r \in ConRec /\ r.stat = con[c].stat /\ r.read = con[c].read /\ r.early = con[c].early
          /\ r.pc = "temp" /\ r.name = con[c].name /\ r.found = con[c].found
      BY <1>1 DEF ConRec
    <2>3. x \in BackupRec /\ x.by = c /\ x.name = r.name /\ x.was = w
      BY <1>1, <2>1, <2>2, ConstantContents DEF ConRec, BackupRec
    <2>4. Beside(c, r) /\ con[c].pc = "fill"
      BY <1>2, <1>9, <2>1, <2>2, <2>3 DEF FillBackup, Beside
    <2>5. baks' = Append(baks, x) /\ baks \in Seq(BackupRec)
      BY <2>1 DEF FileType
    <2> HIDE DEF r, x
    <2>6. r.stat = mtime => Safe(c, r, file, baks')
      <3>1. CASE Shared(c)
        BY <2>2, <2>3, <2>5, <3>1, SafeWritten DEF Shared
      <3>2. CASE w = con[c].copy /\ r.stat = mtime
        <4>1. x.was = file
          BY <1>1, <2>2, <2>3, <2>4, <3>2 DEF Covered
        <4> QED BY <2>3, <2>5, <4>1, SafeWritten
      <3> QED BY <2>1, <3>1, <3>2
    <2>7. r.found
      BY <1>1, <2>2, <2>4 DEF Covered
    <2>8. Covered(c, r, file, mtime, baks')
      BY <1>1, <2>2, <2>4, <2>6, <2>7 DEF Covered, Same
    <2> QED BY <2>4, <2>8, BesideKeeps
  <1>10. CASE WriteTemp(c)
    <2> DEFINE r == [con[c] EXCEPT !.pc = "restat"]
    <2>1. /\ r \in ConRec /\ r.stat = con[c].stat /\ r.read = con[c].read /\ r.early = con[c].early
          /\ r.pc = "restat" /\ r.name = con[c].name /\ r.found = con[c].found /\ r.late = con[c].late
      BY <1>1 DEF ConRec
    <2>2. Beside(c, r) /\ con[c].pc = "temp" /\ baks' = baks
      BY <1>2, <1>10, <2>1 DEF WriteTemp, Beside
    <2> HIDE DEF r
    <2>3. Covered(c, r, file, mtime, baks')
      BY <1>1, <2>1, <2>2 DEF Covered, Same, Safe
    <2> QED BY <2>2, <2>3, BesideKeeps
  <1>11. CASE Restat(c)
    <2> DEFINE moved == con[c].found /\ (file.st = "absent" \/ mtime # con[c].stat)
    <2>1. CASE moved
      <3>1. Beside(c, Quiet)
        BY <1>2, <1>11, <2>1 DEF Restat, Beside
      <3> QED BY <1>2, <1>3, <3>1
    <2>2. CASE ~moved
      <3> DEFINE r == [con[c] EXCEPT !.pc = "rename"]
      <3>1. /\ r \in ConRec /\ r.stat = con[c].stat /\ r.read = con[c].read /\ r.early = con[c].early
            /\ r.pc = "rename" /\ r.name = con[c].name /\ r.found = con[c].found /\ r.late = con[c].late
        BY <1>1 DEF ConRec
      <3>2. Beside(c, r) /\ con[c].pc = "restat" /\ baks' = baks
        BY <1>2, <1>11, <2>2, <3>1 DEF Restat, Beside
      <3> HIDE DEF r
      <3>3. r.late \/ con[c].stat = mtime
        BY <1>1, <2>2, <3>1, <3>2 DEF Covered
      <3>4. Covered(c, r, file, mtime, baks')
        BY <1>1, <3>1, <3>2, <3>3 DEF Covered, Same, Safe
      <3> QED BY <3>2, <3>4, BesideKeeps
    <2> QED BY <2>1, <2>2
  <1>12. CASE ConnectFails(c)
    <2>1. Beside(c, Quiet)
      BY <1>2, <1>12 DEF ConnectFails, Beside
    <2> QED BY <1>2, <1>3, <2>1
  <1>13. CASE Undo(c)
    <2> DEFINE r == [Quiet EXCEPT !.pc = "truncate", !.read = baks[Len(baks)].was]
    <2>1. baks[Len(baks)] \in BackupRec
      BY <1>13 DEF Undo, FileType
    <2>2. r \in ConRec /\ r.pc = "truncate"
      BY <1>2, <2>1 DEF Quiet, ConRec, BackupRec
    <2>3. Beside(c, r)
      BY <1>2, <1>13, <2>2 DEF Undo, Beside
    <2> HIDE DEF r
    <2> QED BY <1>3, <2>2, <2>3
  <1> QED BY <1>4, <1>5, <1>6, <1>7, <1>8, <1>9, <1>10, <1>11, <1>12, <1>13 DEF UpdateStep

\* The invariant of the settings file.
LEMMA FileInvariant == Spec => [](FileType /\ FileInv)
  <1>1. Init => FileType /\ FileInv
    <2> SUFFICES ASSUME SInit PROVE FileType /\ FileInv
      BY DEF Init
    <2>1. file \in Content
      BY ConstantContents, ListSettings DEF SInit
    <2>2. baks \in Seq(BackupRec)
      <3>1. CASE baks = <<>>
        BY <3>1
      <3>2. ASSUME NEW c \in Connects, baks = <<[name |-> 0, by |-> c, was |-> Holds(Fresh)]>>
            PROVE  baks \in Seq(BackupRec)
        <4>1. [name |-> 0, by |-> c, was |-> Holds(Fresh)] \in BackupRec
          BY ConstantContents DEF BackupRec
        <4> QED BY <3>2, <4>1
      <3> QED BY <3>1, <3>2 DEF SInit
    <2>3. mtime \in Nat /\ started \in Nat
      BY DEF SInit
    <2>4. con \in [Connects -> ConRec] /\ \A c \in Connects : con[c].pc = "off"
      BY ConstantContents DEF SInit
    <2> QED BY <2>1, <2>2, <2>3, <2>4 DEF FileType, FileInv, Covered
  <1>2. FileType /\ FileInv /\ [Next]_vars => (FileType /\ FileInv)'
    <2> SUFFICES ASSUME FileType, FileInv, SettingsAction \/ UNCHANGED svars
                 PROVE  (FileType /\ FileInv)'
      BY SettingsPart
    <2>1. CASE UNCHANGED svars
      BY <2>1 DEF svars, FileType, FileInv
    <2>2. CASE SettingsAction
      BY <2>2, WriteKeeps, ConnectKeeps DEF SettingsAction, WriteAction
    <2> QED BY <2>1, <2>2
  <1> QED BY <1>1, <1>2, PTL DEF Spec

\* Only its own rename ends a connect that is about to rename, and changes the file.
LEMMA ReplacesIsRename ==
  ASSUME FileType, SettingsAction \/ UNCHANGED svars, NEW c \in Connects, Replaces(c)
  PROVE  Rename(c)
  <1>1. con[c].pc = "rename" /\ con'[c].pc = "off" /\ mtime' # mtime
    BY ConstantContents DEF Replaces
  <1>2. Missed(c).pc = "rename"
    BY <1>1, MissedType
  <1>3. ~ UNCHANGED svars
    BY <1>1 DEF svars
  <1>4. ASSUME NEW v, Replace(v, NoHub) PROVE FALSE
    BY <1>1, <1>2, <1>4, SettingsAssumption DEF Replace
  <1>5. ASSUME NEW d \in Connects, Rename(d), d # c PROVE FALSE
    BY <1>1, <1>2, <1>5 DEF Rename, Replace
  <1>6. ASSUME NEW d \in Connects, Truncate(d) \/ Restore(d) PROVE FALSE
    BY <1>1, <1>2, <1>6 DEF Truncate, Restore
  <1>7. ASSUME NEW d \in Connects,
               (\E h \in Hubs : Connect(d, h)) \/ UpdateStep(d) \/ ConnectFails(d) \/ Undo(d)
        PROVE  FALSE
    BY <1>1, <1>7 DEF Connect, UpdateStep, Read, Stat, CopyFile, CreateBackup, FillBackup, WriteTemp,
                      Restat, ConnectFails, Undo
  <1> QED BY <1>3, <1>4, <1>5, <1>6, <1>7 DEF SettingsAction, MintDeviceId, EditExcluded

\* A connect never replaces a file that does not parse, and keeps every key but the
\* hub's as it is in the file that it replaces, but for a write between its Read and
\* its first Stat or after its last.
THEOREM DeviceConnectKeepsOthers == Spec => ConnectKeepsOthers
  <1>1. FileType /\ FileInv /\ [Next]_vars =>
          [\A c \in Connects : Replaces(c) =>
             \/ file.st # "torn" /\ file'.set = [file.set EXCEPT !.hub = con[c].hub]
             \/ con[c].early \/ con[c].late]_svars
    <2> SUFFICES ASSUME FileType, FileInv, [Next]_vars, NEW c \in Connects, Replaces(c),
                        ~con[c].early, ~con[c].late
                 PROVE  file.st # "torn" /\ file'.set = [file.set EXCEPT !.hub = con[c].hub]
      OBVIOUS
    <2>1. Rename(c)
      BY SettingsPart, ReplacesIsRename
    <2>2. file = con[c].read /\ file.st # "torn"
      BY <2>1 DEF FileInv, Covered, Same, Rename
    <2>3. file'.set = Merged(c)
      BY <2>1 DEF Rename, Replace, Holds
    <2> QED BY <2>2, <2>3 DEF Merged
  <1> QED BY <1>1, FileInvariant, PTL DEF Spec, ConnectKeepsOthers

\* What a connect replaces is what its backup holds by then, but for a write after its
\* last look at the file, or another connect's backup of the same name.
THEOREM DeviceReplacedIsBackedUp == Spec => ReplacedIsBackedUp
  <1>1. FileType /\ FileInv =>
          [\A c \in Connects : Replaces(c) /\ file.st # "absent" =>
             \/ \E i \in DOMAIN baks : /\ baks[i].name = con[c].name /\ baks[i].was = file
                                       /\ \A j \in DOMAIN baks : j > i => baks[j].name # con[c].name
             \/ con[c].late \/ Shared(c)]_svars
    <2> SUFFICES ASSUME FileType, FileInv, NEW c \in Connects, Replaces(c), file.st # "absent",
                        ~con[c].late, ~Shared(c)
                 PROVE  \E i \in DOMAIN baks :
                          /\ baks[i].name = con[c].name /\ baks[i].was = file
                          /\ \A j \in DOMAIN baks : j > i => baks[j].name # con[c].name
      OBVIOUS
    <2>1. Safe(c, con[c], file, baks)
      BY DEF FileInv, Covered, Replaces
    <2>2. \A j \in DOMAIN baks : baks[j].name = con[c].name => baks[j].by = c
      BY DEF Shared
    <2> QED BY <2>1, <2>2 DEF Safe
  <1> QED BY <1>1, FileInvariant, PTL DEF ReplacedIsBackedUp
-----------------------------------------------------------------------------
(* Type correctness. What takes an argument is the number of writes to      *)
(* backups: two for each connect, which was counted before.                 *)

\* The connects that may still create a backup, and those that may still write one.
Ahead   == {c \in Connects : con[c].pc \in {"read", "stat", "copy", "create"}}
Writing == {c \in Connects : con[c].pc \in {"read", "stat", "copy", "create", "fill"}}

Counters ==
  /\ started \in 0..MaxConnects /\ edits \in 0..MaxEdits
  /\ IsFiniteSet(Ahead) /\ IsFiniteSet(Writing)
  /\ Len(baks) + Cardinality(Ahead) + Cardinality(Writing) <= 2 * started + 1

\* What becomes of the size of a set that gains or loses one element, or neither.
LEMMA SizeMoves ==
  ASSUME NEW A, NEW B, NEW c, IsFiniteSet(A)
  PROVE  /\ Cardinality(A) \in Nat
         /\ B = A \cup {c} => IsFiniteSet(B) /\ Cardinality(B) \in Nat /\ Cardinality(B) <= Cardinality(A) + 1
         /\ B = A \ {c} => /\ IsFiniteSet(B) /\ Cardinality(B) \in Nat /\ Cardinality(B) <= Cardinality(A)
                           /\ c \in A => Cardinality(B) = Cardinality(A) - 1
  <1>1. Cardinality(A) \in Nat
    BY FS_CardinalityType
  <1>2. ASSUME B = A \cup {c}
        PROVE  IsFiniteSet(B) /\ Cardinality(B) \in Nat /\ Cardinality(B) <= Cardinality(A) + 1
    BY <1>1, <1>2, FS_AddElement
  <1>3. ASSUME B = A \ {c}
        PROVE  /\ IsFiniteSet(B) /\ Cardinality(B) \in Nat /\ Cardinality(B) <= Cardinality(A)
               /\ c \in A => Cardinality(B) = Cardinality(A) - 1
    <2>1. /\ IsFiniteSet(B)
          /\ Cardinality(B) = IF c \in A THEN Cardinality(A) - 1 ELSE Cardinality(A)
      BY <1>3, FS_RemoveElement
    <2>2. Cardinality(B) \in Nat
      BY <2>1, FS_CardinalityType
    <2> QED BY <1>1, <2>1, <2>2
  <1> QED BY <1>1, <1>2, <1>3

\* One connect sets out, goes on without a backup, creates one, writes it, or no
\* longer will; or a --undo is counted.
LEMMA CountersKeep ==
  ASSUME FileType, Counters, NEW c, edits' \in 0..MaxEdits, started' \in 0..MaxConnects,
         \/ /\ Ahead' = Ahead \/ Ahead' = Ahead \ {c}
            /\ Writing' = Writing \/ Writing' = Writing \ {c}
            /\ started' \in {started, started + 1} /\ baks' = baks
         \/ /\ Ahead' = Ahead \cup {c} /\ Writing' = Writing \cup {c}
            /\ started' = started + 1 /\ baks' = baks
         \/ /\ \/ c \in Ahead /\ Ahead' = Ahead \ {c} /\ Writing' = Writing
               \/ Ahead' = Ahead /\ c \in Writing /\ Writing' = Writing \ {c}
            /\ started' = started /\ \E x \in BackupRec : baks' = Append(baks, x)
  PROVE  Counters'
  <1> DEFINE A == Ahead
             B == Ahead'
             V == Writing
             W == Writing'
  <1>1. /\ IsFiniteSet(A) /\ IsFiniteSet(V) /\ started \in Nat
        /\ Len(baks) + Cardinality(A) + Cardinality(V) <= 2 * started + 1
    BY DEF Counters
  <1>2. Len(baks) \in Nat /\ \A x \in BackupRec : Len(Append(baks, x)) = Len(baks) + 1
    BY DEF FileType
  <1>3. /\ Cardinality(A) \in Nat
        /\ B = A \cup {c} => IsFiniteSet(B) /\ Cardinality(B) \in Nat /\ Cardinality(B) <= Cardinality(A) + 1
        /\ B = A \ {c} => /\ IsFiniteSet(B) /\ Cardinality(B) \in Nat /\ Cardinality(B) <= Cardinality(A)
                          /\ c \in A => Cardinality(B) = Cardinality(A) - 1
    <2> HIDE DEF A, B
    <2> QED BY <1>1, SizeMoves
  <1>4. /\ Cardinality(V) \in Nat
        /\ W = V \cup {c} => IsFiniteSet(W) /\ Cardinality(W) \in Nat /\ Cardinality(W) <= Cardinality(V) + 1
        /\ W = V \ {c} => /\ IsFiniteSet(W) /\ Cardinality(W) \in Nat /\ Cardinality(W) <= Cardinality(V)
                          /\ c \in V => Cardinality(W) = Cardinality(V) - 1
    <2> HIDE DEF V, W
    <2> QED BY <1>1, SizeMoves
  <1>5. IsFiniteSet(B) /\ IsFiniteSet(W) /\ Len(baks') + Cardinality(B) + Cardinality(W) <= 2 * started' + 1
    <2>1. CASE /\ B = A \/ B = A \ {c}
               /\ W = V \/ W = V \ {c}
               /\ started' \in {started, started + 1} /\ baks' = baks
      <3> HIDE DEF A, B, V, W
      <3>1. /\ IsFiniteSet(B) /\ Cardinality(B) \in Nat /\ Cardinality(B) <= Cardinality(A)
            /\ IsFiniteSet(W) /\ Cardinality(W) \in Nat /\ Cardinality(W) <= Cardinality(V)
        BY <1>1, <1>3, <1>4, <2>1
      <3> QED BY <1>1, <1>2, <1>3, <1>4, <2>1, <3>1
    <2>2. CASE B = A \cup {c} /\ W = V \cup {c} /\ started' = started + 1 /\ baks' = baks
      <3> HIDE DEF A, B, V, W
      <3> QED BY <1>1, <1>2, <1>3, <1>4, <2>2
    <2>3. ASSUME NEW x \in BackupRec, baks' = Append(baks, x), started' = started,
                 \/ c \in A /\ B = A \ {c} /\ W = V
                 \/ B = A /\ c \in V /\ W = V \ {c}
          PROVE  IsFiniteSet(B) /\ IsFiniteSet(W) /\ Len(baks') + Cardinality(B) + Cardinality(W) <= 2 * started' + 1
      <3> HIDE DEF A, B, V, W
      <3>1. /\ IsFiniteSet(B) /\ IsFiniteSet(W) /\ Cardinality(B) \in Nat /\ Cardinality(W) \in Nat
            /\ Cardinality(B) + Cardinality(W) = Cardinality(A) + Cardinality(V) - 1
        BY <1>1, <1>3, <1>4, <2>3
      <3> QED BY <1>1, <1>2, <1>3, <1>4, <2>3, <3>1
    <2> QED BY <2>1, <2>2, <2>3
  <1> QED BY <1>5 DEF Counters

\* A connect that goes from one place to another changes nothing for the others.
LEMMA AheadMoves ==
  ASSUME FileType, NEW c \in Connects, NEW r, con' = [con EXCEPT ![c] = r]
  PROVE  /\ Ahead' = IF r.pc \in {"read", "stat", "copy", "create"} THEN Ahead \cup {c} ELSE Ahead \ {c}
         /\ Writing' = IF r.pc \in {"read", "stat", "copy", "create", "fill"} THEN Writing \cup {c}
                       ELSE Writing \ {c}
  <1>1. con'[c] = r /\ \A d \in Connects : d # c => con'[d] = con[d]
    BY DEF FileType
  <1> QED BY <1>1 DEF Ahead, Writing

\* The steps that write the file send nobody before the backup anywhere else.
LEMMA WriteCounts == ASSUME FileType, Counters, WriteAction PROVE Counters'
  <1>1. \A d \in Connects : Missed(d).pc = con[d].pc
    BY MissedType
  <1>2. ASSUME NEW v, NEW by, Replace(v, by) PROVE Ahead' = Ahead \ {by} /\ Writing' = Writing \ {by}
    <2>1. \A d \in Connects : con'[d] = IF d = by \/ con[d].pc = "restore" THEN Quiet ELSE Missed(d)
      BY <1>2 DEF Replace
    <2> QED BY <1>1, <2>1 DEF Ahead, Writing, Quiet
  <1>3. started \in 0..MaxConnects /\ edits \in 0..MaxEdits
    BY DEF Counters
  <1>4. ASSUME NEW c \in Connects, Rename(c) PROVE Counters'
    BY <1>2, <1>3, <1>4, CountersKeep DEF Rename
  <1>5. ASSUME NEW c \in Connects, Truncate(c) \/ Restore(c) PROVE Counters'
    <2>1. con[c].pc \in {"truncate", "restore"} /\ con'[c].pc \in {"off", "restore"}
      BY <1>5 DEF Truncate, Restore, FileType, ConRec, Quiet
    <2>2. \A d \in Connects : d # c => con'[d] = Missed(d)
      BY <1>5 DEF Truncate, Restore
    <2>3. Ahead' = Ahead /\ Writing' = Writing
      BY <1>1, <2>1, <2>2 DEF Ahead, Writing
    <2> QED BY <1>3, <1>5, <2>3, CountersKeep DEF Truncate, Restore
  <1>6. ASSUME NEW v, Replace(v, NoHub), edits < MaxEdits, edits' = edits + 1, started' = started, baks' = baks
        PROVE  Counters'
    <2>1. Ahead' = Ahead \ {NoHub} /\ Writing' = Writing \ {NoHub}
      BY <1>2, <1>6
    <2>2. edits' \in 0..MaxEdits
      BY <1>3, <1>6, SettingsAssumption
    <2> QED BY <1>3, <1>6, <2>1, <2>2, CountersKeep
  <1> QED BY <1>4, <1>5, <1>6 DEF WriteAction, MintDeviceId, EditExcluded

\* The steps beside the file: a connect is counted before it may write a backup, and
\* creates and writes at most one.
LEMMA ConnectCounts ==
  ASSUME FileType, Counters, NEW c \in Connects,
         \/ \E h \in Hubs : Connect(c, h)
         \/ UpdateStep(c) \/ ConnectFails(c) \/ Undo(c)
  PROVE  Counters'
  <1> DEFINE Before == {"read", "stat", "copy", "create"}
  <1>1. started \in 0..MaxConnects /\ edits \in 0..MaxEdits
    BY DEF Counters
  <1>2. /\ con[c] \in ConRec /\ Quiet.pc = "off" /\ (c \in Ahead <=> con[c].pc \in Before)
        /\ c \in Writing <=> con[c].pc \in Before \cup {"fill"}
    BY DEF FileType, Ahead, Writing, Quiet
  <1>3. ASSUME con[c] = Quiet, started < MaxConnects, started' = started + 1,
               baks' = baks, edits' = edits, NEW r, con' = [con EXCEPT ![c] = r], r.pc # "fill"
        PROVE  Counters'
    <2>1. started' \in 0..MaxConnects
      BY <1>1, <1>3, SettingsAssumption
    <2>2. \/ Ahead' = Ahead \cup {c} /\ Writing' = Writing \cup {c}
          \/ Ahead' = Ahead \ {c} /\ Writing' = Writing \ {c}
      BY <1>3, AheadMoves
    <2> QED BY <1>1, <1>3, <2>1, <2>2, CountersKeep
  <1>4. ASSUME NEW h \in Hubs, Connect(c, h) PROVE Counters'
    <2>1. [Quiet EXCEPT !.pc = "read", !.hub = h, !.name = started + 1].pc = "read"
      BY DEF Quiet
    <2> QED BY <1>3, <1>4, <2>1 DEF Connect, Put
  <1>5. CASE Undo(c)
    <2>1. [Quiet EXCEPT !.pc = "truncate", !.read = baks[Len(baks)].was].pc = "truncate"
      BY DEF Quiet
    <2> QED BY <1>3, <1>5, <2>1 DEF Undo, Put
  <1>6. ASSUME Read(c) \/ Stat(c) \/ CopyFile(c) \/ WriteTemp(c) \/ Restat(c) \/ ConnectFails(c)
        PROVE  Counters'
    <2>1. started' = started /\ baks' = baks /\ edits' = edits
      BY <1>6 DEF Read, Stat, CopyFile, WriteTemp, Restat, ConnectFails
    <2>2. PICK r : con' = [con EXCEPT ![c] = r] /\ r.pc # "fill" /\ (r.pc \in Before => con[c].pc \in Before)
      <3>1. CASE Read(c)
        <4>1. [con[c] EXCEPT !.pc = "stat", !.read = file].pc = "stat" /\ con[c].pc = "read"
          BY <1>2, <3>1 DEF Read, ConRec
        <4> QED BY <1>2, <3>1, <4>1 DEF Read, Put
      <3>2. CASE Stat(c)
        <4> DEFINE r == [con[c] EXCEPT !.stat = mtime, !.found = file.st # "absent",
                                       !.pc = IF file.st = "absent" THEN "temp" ELSE "copy"]
        <4>1. r.pc \in {"temp", "copy"} /\ con[c].pc = "stat"
          BY <1>2, <3>2 DEF Stat, ConRec
        <4>2. con' = [con EXCEPT ![c] = r]
          BY <3>2 DEF Stat, Put
        <4> HIDE DEF r
        <4> QED BY <4>1, <4>2
      <3>3. CASE CopyFile(c)
        <4>1. PICK n : con' = [con EXCEPT ![c] = [con[c] EXCEPT !.pc = "create", !.name = n, !.copy = file]]
          BY <3>3 DEF CopyFile, Put
        <4>2. [con[c] EXCEPT !.pc = "create", !.name = n, !.copy = file].pc = "create" /\ con[c].pc = "copy"
          BY <1>2, <3>3 DEF CopyFile, ConRec
        <4> QED BY <4>1, <4>2
      <3>4. CASE WriteTemp(c) \/ Restat(c) \/ ConnectFails(c)
        BY <1>2, <3>4 DEF WriteTemp, Restat, ConnectFails, Put, Goto, ConRec
      <3> QED BY <1>6, <3>1, <3>2, <3>3, <3>4
    <2>3. /\ Ahead' = Ahead \/ Ahead' = Ahead \ {c}
          /\ Writing' = Writing \/ Writing' = Writing \ {c}
      <3>1. CASE r.pc \in Before
        <4>1. c \in Ahead /\ c \in Writing
          BY <1>2, <2>2, <3>1
        <4>2. Ahead' = Ahead \cup {c} /\ Writing' = Writing \cup {c}
          BY <2>2, <3>1, AheadMoves
        <4> QED BY <4>1, <4>2
      <3>2. CASE r.pc \notin Before
        BY <2>2, <3>2, AheadMoves
      <3> QED BY <3>1, <3>2
    <2> QED BY <1>1, <2>1, <2>3, CountersKeep
  <1>7. CASE CreateBackup(c)
    <2>1. con[c].pc = "create" /\ started' = started /\ edits' = edits
      BY <1>7 DEF CreateBackup
    <2>2. \E x \in BackupRec : baks' = Append(baks, x)
      BY <1>2, <1>7, ConstantContents DEF CreateBackup, WriteBackup, BackupRec, ConRec
    <2>3. PICK r : con' = [con EXCEPT ![c] = r] /\ r.pc = "fill"
      <3>1. [con[c] EXCEPT !.pc = "fill"].pc = "fill"
        BY <1>2 DEF ConRec
      <3> QED BY <1>7, <3>1 DEF CreateBackup, Put, Goto
    <2>4. Ahead' = Ahead \ {c} /\ Writing' = Writing \cup {c}
      BY <2>3, AheadMoves
    <2>5. c \in Ahead /\ Writing' = Writing
      BY <1>2, <2>1, <2>4
    <2> QED BY <1>1, <2>1, <2>2, <2>4, <2>5, CountersKeep
  <1>8. CASE FillBackup(c)
    <2>1. con[c].pc = "fill" /\ started' = started /\ edits' = edits
      BY <1>8 DEF FillBackup
    <2>2. \E x \in BackupRec : baks' = Append(baks, x)
      BY <1>2, <1>8, ConstantContents DEF FillBackup, WriteBackup, BackupRec, ConRec
    <2>3. PICK r : con' = [con EXCEPT ![c] = r] /\ r.pc = "temp"
      <3>1. [con[c] EXCEPT !.pc = "temp"].pc = "temp"
        BY <1>2 DEF ConRec
      <3> QED BY <1>8, <3>1 DEF FillBackup, Put, Goto
    <2>4. Ahead' = Ahead \ {c} /\ Writing' = Writing \ {c}
      BY <2>3, AheadMoves
    <2>5. Ahead' = Ahead /\ c \in Writing
      BY <1>2, <2>1, <2>4
    <2> QED BY <1>1, <2>1, <2>2, <2>4, <2>5, CountersKeep
  <1> QED BY <1>4, <1>5, <1>6, <1>7, <1>8 DEF UpdateStep

\* The list that a backfill reads names projects that have rows.
LEMMA ListType == FileType => \A readOK \in BOOLEAN : excludedProjects(readOK) \subseteq SUBSET Named
  BY DeviceAssumption DEF FileType, Content, Settings, excludedProjects

\* The steps of the database keep its types.
LEMMA DatabaseType == ASSUME FileType, BackfillTypeOK, DatabaseAction PROVE BackfillTypeOK'
  <1> USE BackfillAssumption DEF BackfillTypeOK
  <1>0. NoJob \in [pc : {"off", "check", "tx"}, project : Named \cup {AnyProject}, excluded : SUBSET Named]
    BY DEF NoJob
  <1>1. ASSUME NEW p \in Projects \cup {AnyProject}, NEW readOK \in BOOLEAN,
               NEW list \in excludedProjects(readOK), StartBackfill(p, list)
        PROVE  BackfillTypeOK'
    <2>1. p \in Named \cup {AnyProject} /\ jobs + 1 \in 0..MaxJobs
      BY <1>1, DeviceAssumption DEF StartBackfill
    <2>2. list \in SUBSET Named
      BY <1>1, ListType
    <2> QED BY <1>1, <2>1, <2>2 DEF StartBackfill, db
  <1>2. CASE CheckAndBackup
    BY <1>0, <1>2 DEF CheckAndBackup, db
  <1>3. CASE Requeue
    BY <1>0, <1>3 DEF Requeue, filterFor, Local
  <1>4. CASE BackfillFails
    BY <1>0, <1>4 DEF BackfillFails, db
  <1>5. CASE UndoBackfill
    BY <1>5 DEF UndoBackfill, NoUndo
  <1>6. CASE WorkerStep \/ RestartWorker
    BY <1>6 DEF WorkerStep, RestartWorker, WorkerStarts, WorkerStops, WorkerSends, WorkerStamps,
                WorkerGivesUp, Pending, Local, db
  <1> QED BY <1>1, <1>2, <1>3, <1>4, <1>5, <1>6 DEF DatabaseAction, BackfillStep

\* Every variable of the device has its type and every counter its bound, no row of
\* another device is ever queued, and a connect writes its backup once.
THEOREM DeviceTypeOK == Spec => []TypeOK
  <1> DEFINE Typed == Counters /\ BackfillTypeOK /\ stale \in BOOLEAN
  <1>1. Init => Typed
    <2> SUFFICES ASSUME Init PROVE Typed
      OBVIOUS
    <2>1. Counters
      <3>1. Ahead = {} /\ Writing = {}
        BY DEF Init, SInit, Ahead, Writing, Quiet
      <3>2. IsFiniteSet(Ahead) /\ IsFiniteSet(Writing) /\ Cardinality(Ahead) = 0 /\ Cardinality(Writing) = 0
        BY <3>1, FS_EmptySet
      <3>3. started = 0 /\ edits = 0 /\ Len(baks) \in {0, 1}
        BY DEF Init, SInit
      <3>4. Len(baks) + Cardinality(Ahead) + Cardinality(Writing) <= 2 * started + 1
        <4> DEFINE n == Len(baks)
                   a == Cardinality(Ahead)
                   w == Cardinality(Writing)
        <4>1. n \in {0, 1} /\ a = 0 /\ w = 0
          BY <3>2, <3>3
        <4> HIDE DEF n, a, w
        <4>2. n + a + w <= 1 /\ 2 * 0 + 1 = 1
          BY <4>1
        <4> QED BY <3>3, <4>2 DEF n, a, w
      <3> QED BY <3>2, <3>3, <3>4, SettingsAssumption DEF Counters
    <2>2. BackfillTypeOK
      BY BackfillAssumption DEF Init, BInit, BackfillTypeOK, NoUndo, NoJob, Local
    <2> QED BY <2>1, <2>2 DEF Init
  <1>2. FileType /\ Typed /\ [Next]_vars => Typed'
    <2> SUFFICES ASSUME FileType, Typed, [Next]_vars PROVE Typed'
      OBVIOUS
    <2>1. Counters'
      <3>1. CASE UNCHANGED svars
        BY <3>1 DEF svars, Counters, Ahead, Writing
      <3>2. CASE SettingsAction
        BY <3>2, WriteCounts, ConnectCounts DEF SettingsAction, WriteAction
      <3> QED BY <3>1, <3>2, SettingsPart
    <2>2. BackfillTypeOK'
      <3>1. CASE UNCHANGED bvars
        BY <3>1 DEF bvars, BackfillTypeOK
      <3> QED BY <3>1, DatabaseType, DatabasePart
    <2>3. stale' \in BOOLEAN
      BY DEF Next, vars, ConnectStep, FinishConnect, ClaudeMemStep, DatabaseStep, RunBackfill,
             SettingsChange
    <2> QED BY <2>1, <2>2, <2>3
  <1>3. FileType /\ Typed => TypeOK
    <2> SUFFICES ASSUME FileType, Typed PROVE SettingsTypeOK
      BY DEF TypeOK
    <2>1. Len(baks) \in Nat /\ Cardinality(Ahead) \in Nat /\ Cardinality(Writing) \in Nat
      BY FS_CardinalityType DEF FileType, Counters
    <2>2. Len(baks) <= 2 * MaxConnects + 1
      BY <2>1, SettingsAssumption DEF Counters
    <2> QED BY <2>2 DEF SettingsTypeOK, FileType, Counters, ConRec, BackupRec
  <1> HIDE DEF Typed
  <1>4. FileType /\ FileInv => FileType
    OBVIOUS
  <1> QED BY <1>1, <1>2, <1>3, <1>4, FileInvariant, PTL DEF Spec
=============================================================================
