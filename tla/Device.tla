------------------------------- MODULE Device -------------------------------
(***************************************************************************)
(* One machine that uses the hub: claude-mem's settings file (SettingsFile) *)
(* and its database (Backfill) under the commands of internal/cli that     *)
(* change them. `backfill` reads the list of excluded projects from the    *)
(* file that `connect` and the user write, and acts on it later; `connect` *)
(* restarts the worker that uploads the rows.                              *)
(***************************************************************************)
EXTENDS SettingsFile, Backfill

CONSTANT MaxRuns   \* bound on the number of commands: connects, undos and backfills

\* Every project of the settings file has rows, and every other row no project.
ASSUME DeviceAssumption == Projects = Named /\ MaxRuns \in Nat

VARIABLE stale   \* history: the running backfill did not get the list, or it is old

vars == <<svars, bvars, stale>>

Init == SInit /\ BInit /\ stale = FALSE

\* A running backfill does not see what becomes of the settings file.
SettingsChange == stale' = (stale \/ (job # NoJob /\ file' # file))

\* The list can be had: path and file were found and read without an error, the file
\* parses, and the value is a string with a list in it.
ListReadable(readOK) == readOK /\ file.st # "torn" /\ file.set.form = "string"

\* excludedProjects: the lists it may return. Any error of the path or of Read gives
\* none, and so does a value that is not a string, such as an array; of a string that
\* begins like an array and is none, splitting at the commas leaves some names whole.
excludedProjects(readOK) ==
  IF ListReadable(readOK) THEN {file.set.excl}
  ELSE IF readOK /\ file.st # "torn" THEN SUBSET file.set.excl ELSE {{}}

\* runBackfill up to Backfill.
RunBackfill(project) ==
  /\ started + jobs < MaxRuns
  /\ \E readOK \in BOOLEAN : /\ \E list \in excludedProjects(readOK) : StartBackfill(project, list)
                             /\ stale' = ~ListReadable(readOK)
  /\ UNCHANGED svars

\* runConnect from the rename to its end: the worker is restarted, unless
\* --no-restart was given or the restart fails.
FinishConnect(c) ==
  /\ Rename(c) /\ SettingsChange
  /\ RestartWorker \/ UNCHANGED bvars

ConnectStep(c) ==
  /\ \/ started + jobs < MaxRuns /\ (Undo(c) \/ \E h \in Hubs : Connect(c, h))
     \/ UpdateStep(c) \/ ConnectFails(c) \/ Truncate(c) \/ Restore(c)
  /\ SettingsChange /\ UNCHANGED bvars

ClaudeMemStep ==
  /\ MintDeviceId \/ \E l \in Lists : EditExcluded(l)
  /\ SettingsChange /\ UNCHANGED bvars

DatabaseStep ==
  /\ BackfillStep \/ WorkerStep
  /\ stale' = (stale /\ job' # NoJob)
  /\ UNCHANGED svars

Next ==
  \/ \E c \in Connects : ConnectStep(c) \/ FinishConnect(c)
  \/ \E p \in Projects \cup {AnyProject} : RunBackfill(p)
  \/ ClaudeMemStep \/ DatabaseStep

Spec == Init /\ [][Next]_vars

-----------------------------------------------------------------------------
\* Type invariant.
TypeOK == SettingsTypeOK /\ BackfillTypeOK /\ stale \in BOOLEAN

\* "A user who excluded a project from capture would be startled to find its
\* entire history uploaded by a backfill": no row of a project that the settings
\* file excludes is queued again, by whatever sequence of backfills, undos and
\* connects. The ways out, in each of which the code goes on without a word: the
\* path or the file could not be read, the file did not parse, the value was not a
\* string with a list in it, or the file has been written since it was read.
ExclusionHonoured ==
  [][\A r \in synced \ synced' : Project[r] \notin file.set.excl \/ stale]_vars
=============================================================================
