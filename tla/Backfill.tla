------------------------------ MODULE Backfill ------------------------------
(***************************************************************************)
(* internal/clientdb/backfill.go: `cmemlan backfill` clears synced_at on   *)
(* locally authored rows of claude-mem's database so that its worker       *)
(* uploads them, and `backfill --undo` takes that back. claude-mem's v47   *)
(* migration had stamped the rows of the launch baseline and listed them   *)
(* in sync_launch_exclusions, state that it never makes again.             *)
(*                                                                         *)
(* The worker belongs to claude-mem and is external: it uploads what is    *)
(* not stamped and stamps what the hub has acknowledged, and it may start, *)
(* stop or lose an answer at any time.                                     *)
(***************************************************************************)
EXTENDS Integers, FiniteSets

CONSTANTS Rows,      \* rows of the three tables
          Foreign,   \* the rows that other devices authored
          Baseline,  \* the rows that the v47 migration listed
          Project,   \* the project of each row, or NoProject where it has none
          MaxJobs    \* bound on the number of backfills

NoProject == "no project"
AnyProject == "any"

ASSUME BackfillAssumption ==
  /\ Foreign \subseteq Rows /\ Baseline \subseteq Rows \ Foreign
  /\ DOMAIN Project = Rows /\ \A r \in Rows : Project[r] # AnyProject
  /\ MaxJobs \in Nat

VARIABLES
  synced,   \* rows whose synced_at is set
  excl,     \* rows in sync_launch_exclusions
  undo,     \* cmemlan_backfill_exclusions: the table exists, the rows in it
  worker,   \* claude-mem's worker is running
  sending,  \* rows the worker has sent and not yet heard about
  uploaded, \* rows the hub has
  job,      \* the backfill command that is running
  jobs      \* backfills that have been started

bvars == <<synced, excl, undo, worker, sending, uploaded, job, jobs>>
db    == <<synced, excl, undo>>

Named  == {Project[r] : r \in Rows} \ {NoProject}
Local  == Rows \ Foreign
NoUndo == [exists |-> FALSE, rows |-> {}]
NoJob  == [pc |-> "off", project |-> AnyProject, excluded |-> {}]

\* Rows outside the baseline are pending, or were uploaded by the worker before.
BInit ==
  /\ synced \in {Baseline \cup Foreign \cup s : s \in SUBSET (Local \ Baseline)}
  /\ excl = Baseline /\ undo = NoUndo
  /\ worker \in BOOLEAN /\ sending = {} /\ uploaded = (synced \cap Local) \ Baseline
  /\ job = NoJob /\ jobs = 0

\* Pending: what the worker has still to push.
Pending == Local \ synced

\* A mistake to catch: origin_device_id IS NULL is forgotten.
filterForAny(project, excluded) ==
  {r \in Rows : project \in {AnyProject, Project[r]} /\ Project[r] \notin excluded}

\* filterFor, and the origin_device_id IS NULL beside it: local rows of the wanted
\* project, a row without one matching no name, that are not of an excluded one.
filterFor(project, excluded) ==
  {r \in Local : project \in {AnyProject, Project[r]} /\ Project[r] \notin excluded}

-----------------------------------------------------------------------------
(* backfill                                                                *)

\* runBackfill: the options, with the list of excluded projects as just read.
StartBackfill(project, excluded) ==
  /\ job = NoJob /\ jobs < MaxJobs
  /\ jobs' = jobs + 1
  /\ job' = [pc |-> "check", project |-> project, excluded |-> excluded]
  /\ UNCHANGED <<db, worker, sending, uploaded>>

\* WorkerRunning: ErrWorkerRunning unless --force. Then SchemaVersions, the counts,
\* which are all that a dry run wants, and VACUUM INTO a backup of the database; an
\* error of any, or a dry run, ends it.
CheckAndBackup ==
  /\ job.pc = "check"
  /\ \/ job' = NoJob
     \/ \E force \in BOOLEAN : (worker => force) /\ job' = [job EXCEPT !.pc = "tx"]
  /\ UNCHANGED <<db, worker, sending, uploaded, jobs>>

\* A mistake to catch: the DELETE is not scoped like the INSERT.
RequeueUnscoped ==
  LET scope == filterFor(job.project, job.excluded)
  IN  /\ job.pc = "tx" /\ job' = NoJob
      /\ undo' = [exists |-> TRUE, rows |-> undo.rows \cup (excl \cap scope)]
      /\ excl' = {} /\ synced' = synced \ scope
      /\ UNCHANGED <<worker, sending, uploaded, jobs>>

\* A mistake to catch: the UPDATE forgets the excluded projects.
RequeueExcluded ==
  LET scope == filterFor(job.project, {})
  IN  /\ job.pc = "tx" /\ job' = NoJob
      /\ undo' = [exists |-> TRUE, rows |-> undo.rows \cup (excl \cap scope)]
      /\ excl' = excl \ scope /\ synced' = synced \ scope
      /\ UNCHANGED <<worker, sending, uploaded, jobs>>

\* The transaction, which has the database for itself: the baseline rows in scope
\* move to the undo table, and every row in scope is no longer stamped.
Requeue ==
  LET scope == filterFor(job.project, job.excluded)
  IN  /\ job.pc = "tx" /\ job' = NoJob
      /\ undo' = [exists |-> TRUE, rows |-> undo.rows \cup (excl \cap scope)]
      /\ excl' = excl \ scope
      /\ synced' = synced \ scope
      /\ UNCHANGED <<worker, sending, uploaded, jobs>>

\* A statement or the commit fails, or the process dies: SQLite rolls back.
BackfillFails ==
  /\ job.pc = "tx" /\ job' = NoJob
  /\ UNCHANGED <<db, worker, sending, uploaded, jobs>>

\* UndoBackfill: one transaction, whether or not the worker is running. Without
\* an undo table there is nothing to undo; a failure rolls back.
UndoBackfill ==
  /\ undo.exists
  /\ excl' = excl \cup undo.rows
  /\ synced' = synced \cup (undo.rows \cap Local)
  /\ undo' = NoUndo
  /\ UNCHANGED <<worker, sending, uploaded, job, jobs>>

-----------------------------------------------------------------------------
(* claude-mem's worker, external                                           *)

WorkerStarts ==
  /\ ~worker /\ worker' = TRUE
  /\ UNCHANGED <<db, sending, uploaded, job, jobs>>

\* It is stopped, or dies: nobody hears the answers that are under way.
WorkerStops ==
  /\ worker /\ worker' = FALSE /\ sending' = {}
  /\ UNCHANGED <<db, uploaded, job, jobs>>

\* connect's restartWorker: stopped, and started again.
RestartWorker ==
  /\ worker' = TRUE /\ sending' = {}
  /\ UNCHANGED <<db, uploaded, job, jobs>>

\* A pending row is sent, and the hub stores it or never gets it.
WorkerSends(r) ==
  /\ worker /\ r \in Pending \ sending
  /\ sending' = sending \cup {r}
  /\ uploaded' \in {uploaded, uploaded \cup {r}}
  /\ UNCHANGED <<db, worker, job, jobs>>

\* The hub's acknowledgement: the row is stamped.
WorkerStamps(r) ==
  /\ r \in sending \cap uploaded
  /\ sending' = sending \ {r} /\ synced' = synced \cup {r}
  /\ UNCHANGED <<excl, undo, worker, uploaded, job, jobs>>

\* The push failed, or its answer was lost: the row stays pending.
WorkerGivesUp(r) ==
  /\ r \in sending /\ sending' = sending \ {r}
  /\ UNCHANGED <<db, worker, uploaded, job, jobs>>

-----------------------------------------------------------------------------
\* What a backfill does after it has started, and what may happen beside it.
BackfillStep == CheckAndBackup \/ Requeue \/ BackfillFails \/ UndoBackfill
WorkerStep   == \/ WorkerStarts \/ WorkerStops
                \/ \E r \in Rows : WorkerSends(r) \/ WorkerStamps(r) \/ WorkerGivesUp(r)

\* Type invariant of the database part. The rows that came from other devices are
\* stamped, as they came, and stay so: a backfill is for locally authored ones.
BackfillTypeOK ==
  /\ synced \subseteq Rows /\ Foreign \subseteq synced /\ excl \subseteq Rows
  /\ undo \in [exists : BOOLEAN, rows : SUBSET Rows] /\ (~undo.exists => undo.rows = {})
  /\ worker \in BOOLEAN /\ sending \subseteq Local /\ uploaded \subseteq Local
  /\ job \in [pc : {"off", "check", "tx"}, project : Named \cup {AnyProject},
              excluded : SUBSET Named]
  /\ jobs \in 0..MaxJobs

\* "a --project run cannot destroy another project's baseline": every row of the
\* launch baseline is in the exclusions or in the undo table, never in both and
\* never in neither, so that an undo at any time brings the whole of it back.
BaselinePartition == excl \cup undo.rows = Baseline /\ excl \cap undo.rows = {}

\* "queued memories were un-queued", and no others: a local row that counts as
\* uploaded is on the hub, or is one the launch baseline declares so. What a
\* baseline row in the exclusions has is a stamp.
StampsHonest == synced \cap Local \subseteq uploaded \cup excl /\ excl \subseteq synced

\* Both, over every sequence of backfills with different scopes, undos, failures
\* and a worker that uploads, stamps and restarts in between.
BaselineKept == BaselinePartition /\ StampsHonest
=============================================================================
