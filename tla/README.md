# A TLA+ model of cmemlan

cmemlan is a hub that lets several machines share one claude-mem memory. Each
machine's claude-mem worker pushes the rows it wrote to the hub and pulls the
rows of the others; the hub keeps one operation log in SQLite. This directory
models the hub's store and HTTP server, the life of the serve process and its
files, paging and wire format, the replication between hub and devices, pairing,
and the device's side: its settings file and the backfill of its database. TLC
checks the models on small instances, and TLAPS proves for every instance all
the invariants that hold, and the safety properties of steps but for one.

## The system

| Component | State | Operations | What is hard |
|---|---|---|---|
| store (`internal/store`) | tables `ops`, `meta` (epoch, head_seq), `devices`; per process a mutex and a cached epoch | Open, Push, Changes, RevokeDevice, SeenDevice, BumpEpoch, Close | several processes on one file; transactions that fail or die; Open repairs what it takes for damage |
| HTTP server (`internal/hub`) | in-flight slots, options fixed at start | status, push, changes, pair; authentication, revocation | checks made before the store's lock; late requests |
| pairing window (`internal/pair/window_file.go`) | `pairing.json`, its lock file | Open, Redeem, Close | two programs share files; a dead process leaves its lock |
| key (`internal/pair/pair.go`) | file `psk`; serve's copy in memory | LoadOrCreate, Rotate | copies that go stale |
| serve (`internal/cli/serve.go`, `lockfile.go`) | pid file | start, shutdown | staleness test of the pid file; deaths between two calls |
| device setup (`internal/cli/connect.go`, `internal/settings`) | claude-mem's settings file and its backups | connect, restore | read-modify-write beside another writer; one step of several failing |
| backfill (`internal/clientdb`) | claude-mem's database, a record of what was changed | Backfill, UndoBackfill | rows pushed between the two; a list of projects that goes stale |
| wire format (`internal/proto`) | none | parse, emit | decimal range, byte-exact bodies |
| sync client (claude-mem; not in this repository) | rows with `synced_at`, cursor, known epoch | write, push, pull, replay | lost and repeated exchanges |

`cmemlan serve` is the process that answers devices. `cmemlan devices` and
`cmemlan revoke` open the same database from processes of their own, and
`cmemlan pair` writes the window file that serve's `/pair` handlers read. A
device's client talks to the hub over HTTP only, and treats every failure alike:
it tries again later. What makes the whole correct:

- the log is numbered without a gap, a revision has one number, an
  acknowledgement is never broken, and committed rows are never touched;
- a cursor is meaningful exactly as long as the epoch it was taken under;
- a page is contiguous, bounded and never empty while rows remain;
- a row is stamped as synced only when the hub has it, and all devices converge;
- a revoked device stays out; a pairing code works once;
- every request is answered and gives its slot back; an op that a conforming
  client makes is accepted;
- a hub that died comes back, and devices that were paired stay paired;
- connect keeps what others wrote to the settings file, or gives up, and a backfill
  loses nothing of the launch baseline and queues nothing the user excluded.

`PROJECT.json` lists what is hard to test in this code, line by line, with the
properties that would catch it.

## Modules

| Module | Models | Built on |
|---|---|---|
| `LogTable` | the `ops` table as a value | |
| `OpLog` | abstract: the log, the acknowledgements and the epoch the hub promises | `LogTable` |
| `HubStore` | store.go, ops.go, devices.go: every process that has the database open | `LogTable`; instantiates `OpLog` |
| `HubRestore` | the database file deleted or replaced while nobody has it open | `HubStore` |
| `HubServer` | middleware.go, server.go, handlers.go: requests on their way through the hub | `HubStore` |
| `WireFormat` | dec.go, unquote.go, wrapper.go: pure functions | |
| `ChangesPage` | changes.go and `handleChanges` | `WireFormat` |
| `Relay` | an op from a client's outbox through validation and log to a puller | `ChangesPage` |
| `SyncSystem` | hub, devices and network | (the hub is `OpLog`'s log as a sequence) |
| `PairingWindow` | window_file.go and `handlePair` | |
| `ServeProcess` | serve.go, lockfile.go, pair.go, first Open: the processes of a data directory | |
| `SettingsFile` | settings.go, connect.go: claude-mem's settings file | |
| `Backfill` | backfill.go, clientdb.go: claude-mem's database | |
| `Device` | one machine: both, and backfill_cmd.go | `SettingsFile`, `Backfill` |
| `HubStoreProofs` | lemmas about the table, theorems about the store | `HubStore` |
| `HubServerProofs`, `HubRestoreProofs` | theorems about the server, and about a replaced file | `HubStoreProofs` |
| `RelayProofs` | theorems about pages, decimals, literals and the relay | `Relay` |
| `SyncProofs` | theorems about the replication | `SyncSystem`; instantiates `OpLog` |
| `PairingProofs`, `ServeProofs`, `DeviceProofs` | theorems about the module each extends | |
| `MC...` | constants of the TLC instances | |

Operators whose comment says "A mistake to catch" are not part of any
specification. Each is a plausible wrong version of the definition that follows
it; put in its place, it makes a property fail (`mutants` in `PROJECT.json`).

### HubStore

A step is one SQL statement or one lock operation.

- `proc[p]` is process p's `Store`: how far its Open has come, the epoch it
  cached and the two values `verifyHeadConsistency` read. `LoadMeta`,
  `ReadHead`, `ReadMaxSeq`, `RepairHead` and `BumpEpoch` are the statements of
  Open; the last two wait for SQLite's write lock. `Stop` is Close, an error
  return and a crash in one.
- `req[r]` is a push request inside serve: `PushArrive` (admitted by `authed`),
  `PushLock` (mutex and second revocation check), `PushBegin`, one `PushKnownOp`
  or `PushNewOp` per op, `PushCommit` or `PushFail`, `PushDone`. `tx` is the open
  transaction: its view of the table, its counter, its acknowledgements.
- `RevokeDevice` runs in a command-line process, `SeenDevice` in serve.
- `acked` records every acknowledgement a committed push gave; `minted` makes
  each random epoch a fresh one.

Of a row the model keeps the revision and the digest: no property depends on
more. The `batch` map of Push is not a variable because it caches what the
transaction's own rows say. The database starts with its meta row.

### HubServer

Adds to `HubStore` what surrounds a push: `Accept` takes one of the slots,
`Refusal` is everything that is answered from the request alone, in the order of
the wrappers, the router and `authed`, `Authed` is the revocation check, `ReadHub`
and `RecordDevice` are the two halves of `/status` and `/changes`, `HandlePush`
takes the steps of `HubStore`'s Push and turns its result into an answer. `Panic`
may strike any handler that is executing, which one blocked in `Store.mu.Lock` is
not (`Running`), and runs its deferred calls; `ServeStops` takes all
requests along. `HubStore` has the check of `authed` and the arrival in one step;
here they are two, so a revocation can fall in between. That `/status` takes the
mutex once more to read the cached epoch is part of `RecordDevice`.

### HubRestore

Adds `Wipe` (file deleted), `TakeBackup` and `Restore`, and a history variable
with the highest number committed under each epoch, which is how far a client's
cursor may have come. A restored copy is any committed state, so it also stands
for the commits a power failure takes back under `synchronous(NORMAL)`.

### ChangesPage

`Changes` is the row loop as a function of the log, the cursor and the limit:
`RowsAfter` is the query, `Turn` what the loop does with a row, `Scan` its state
after each of them. It is compared with an independent contract (`PageContract`)
on every log up to the bound, and run under a client that pulls while the log
grows (`CatchesUp`).

### WireFormat and Relay

`WireFormat` has the functions that stand between bytes and rows: canonical
decimals and their ranges, the decoder of string literals with its treatment of
half surrogate pairs, the checks of `ParseOp` in their order. A literal is a
sequence of symbols, one for each kind of character the decoder tells apart. The
client's side, which text a literal stands for and which literals it may use, is
defined independently (`Utf8`, `Literals`). Every loop is a recursive function of
the steps so far (`ValueUpTo`, `DigitsUpTo`, `BytesUpTo`), or of the input that is
left (`Unquoted`). `Relay` sends every conforming op and
one op for each way of failing a check into the hub: a conforming op must be
taken, since a refused one would block the client's outbox for ever, and no other
may be. Conforming are ops of kind observation with a local id; a request has the
right protocol version and one op, so that the checks of the request as a whole
(version, `MaxOpsPerPush`) have nothing to refuse.

### SyncSystem

The hub is reduced to the log that `HubStore` was shown to implement, with epoch
and user id. The client is external: it is modelled from docs/protocol.md and
from the assumptions stated in the hub's code. A call is under way in stages
(sent, handled, answered) and may be given up at any of them; an abandoned push
may still be handled later (`HandleLatePush`), because Push runs
`WithoutCancel`.

`Push` appends what the log does not have, and `Outbox` is what is not stamped.
Both are `Without`, which picks the elements by their rank; `MCSyncSystem` has TLC
compare it with `SelectSeq`, whose recursion the prover cannot follow
(`WithoutIsSelectSeq`).

### PairingWindow

A step is one file system call. `at[a]` is where a caller of Open or Redeem is,
with its code and the window it has read. Every call may fail, where the code
handles the failure and where it ignores it, as it does when a lock cannot be
removed (`BreakFails`, `UnlockFails`); serve (all its handlers) or a `pair` command
may die anywhere. A lock file ages only when nobody is inside: the critical section lasts
milliseconds and the limit is a minute. A machine suspended inside it is outside
this assumption. `stolen` records that a caller removed a lock which was not the
stale one it had looked at; the promises of the window are stated up to then.

### ServeProcess

A step is one call on the data directory. `at[c]` is how far a process has come
and what it has read: `serve` takes the lock, opens the database, loads the key,
listens and shuts down; `devices` opens the database and `pair` loads the key
without a lock; `rotate-token` replaces the key. Any may die anywhere, and pids
are reused. A file that is removed or replaced while another process has it open
takes that process's write along: `lock.by` and `psk.gen` say whose file it is. One
rotation runs at a time. Any start may find its port taken; that another hub is the
reason is not required, which allows more than the code does.
`raced` records that two first runs overlapped: both may then find no meta row or
no key, and each goes on with its own.

### SettingsFile, Backfill and Device

In `SettingsFile` a step is one call of Update or Restore, and a WriteFile is two:
it truncates, then writes. The calls of a connect are Read, Stat, ReadFile for the
backup (`CopyFile`), WriteFile of it (`CreateBackup`, `FillBackup`), the temporary
file (`WriteTemp`), Stat again (`Restat`), `Rename`; those of a `--undo` are `Undo`
(LatestBackup, ReadFile), `Truncate`, `Restore`. Any of them may fail or be the last
before the process dies (`ConnectFails`). claude-mem, its user and other connects
write the same file in between, and a connect at work takes note of what it cannot
see: `early` is a write between its Read and its first Stat, `late` one after its
last look at the file, which is the second Stat, or the first where that found no
file. `baks` has every write of a backup: a name holds what was last written to it,
and two connects in one millisecond may have the same name (`Taken`, `Shared`). The
file may be unparsable, or missing, to begin with.

In `Backfill` the two transactions are one step each, because SQLite
gives them the database; the worker starts, stops, sends, stamps and loses
answers around them. `Device` puts them together: the backfill takes the list of
excluded projects from the file as it is at that moment and uses it later, and
connect ends by restarting the worker. The list is there only where path and file
can be read, the file parses and the value is a JSON string with a list in it
(`ListReadable`): any error, and a value in another form (`form`), such as a JSON
array, leaves the backfill without it. Only what begins like an array in a string,
and is none, may leave some of the names. `stale` marks a backfill that did not get
the list, or whose file has been written since.

## Runs

| Run | Checks | Result |
|---|---|---|
| `store` | TypeOK, LogGapless, KeysUnique, AcksDurable, HeadNotAhead, AnswersComplete, AppendOnly, RevokedStaysRevoked, ImplementsOpLog | hold |
| `server` | RevokedGetsNothing, AnnouncedIsServable, RequestAnswered, OverloadEnds, RevocationTakesEffect | hold |
| `store_ack` | AckWithinHead | violated |
| `restore` | SoundAfterRestore, WipeStartsEpoch | hold |
| `restore_epoch` | EpochNamesOneLog | violated |
| `changes` | TypeOK, PageContract, CatchesUp, OutboxDrains | hold |
| `sync` | TypeOK, NothingSkipped, StampedIsStored, NoDuplicates | hold |
| `sync_converges` | Converges | holds |
| `pairing` | TypeOK, ExclusiveUnlessStolen, SingleUse, Budget, ClosedStaysClosed, LockFreed | hold |
| `pairing_crash` | Exclusive | violated |
| `serve` | TypeOK, SettledLockStands, PairedStaysPaired, HubComesBack | hold |
| `device` | TypeOK, BaselineKept, ConnectKeepsOthers, ReplacedIsBackedUp, ExclusionHonoured | hold |

### What the violated ones show

- `store_ack`: `verifyHeadConsistency` reads head_seq and MAX(seq) in separate
  statements. A `devices` or `revoke` command running beside a busy hub can see
  a difference that is only its own delay. It then rotates the epoch of a log
  that is in order, and may write an older counter over a newer one; a retried
  push is answered with numbers above head_seq, and pushes of new ops fail on
  the primary key until the hub is opened again. The running hub keeps the old
  epoch cached: its `/status` and `/changes` then report different ones. The log
  itself stays intact: that is what `store` and the theorems establish under the
  same race.
- `restore_epoch`: a restored file agrees with itself, so the comparison at Open
  cannot notice the restore. The epoch stays, and a device whose cursor is beyond
  the restored log misses what is pushed up to it.
- `pairing_crash`: after a process died holding the lock, two callers may both
  decide to remove it, and the second removes the first one's new lock.
  `ExclusiveUnlessStolen` shows that this is the only way in.

A remark on a wipe: docs/architecture.md says that after it "clients replay from
zero". The new database also has a new user id, so its devices are refused until
they are paired again (docs/troubleshooting.md says so). `Converges` holds
because `FairSpec` has them paired again, and fails without that conjunct.

### Where the code's promises end

Several properties name the cases in which they do not hold. TLC finds a
counterexample when one of these conditions is taken out, so each is a real gap
and not a precaution:

- `SettledLockStands`: the lock file is created empty and filled afterwards, and
  Remove takes whatever file is there. Two starts at the same time may each
  remove the other's lock and both serve.
- `HubComesBack`: a lock with the pid of a live process that is not a hub keeps
  every start out (in a container the hub is often pid 1 again), and a death
  inside the write of a new key leaves an empty file that LoadOrCreate refuses
  until `rotate-token` replaces it.
- `PairedStaysPaired`: first runs that overlap, such as `devices` beside the
  first `serve`, leave two meta rows (the primary key is the random user id), or
  a key in one process that is not the one in the file. After `rotate-token` the
  running hub goes on with the old key while `/pair` hands out the new one.
- `ConnectKeepsOthers`: Update parses the file (settings.go:55) before it takes the
  Stat (:60) that the second one is compared with. A write in between, such as
  claude-mem's of its device id, is in neither the new file nor an error: connect
  renames over it and exits with 0. The comments at settings.go:24 ("Every write
  path preserves it") and :117 ("a concurrent write would otherwise be silently
  discarded"), the test at settings_test.go:147 and the design (re-stat "and abort
  if the file changed underneath") say otherwise; a Stat before the Read would close
  this. A write between the second Stat and the rename is lost as well, and so is
  any write where there was no file at the first Stat, as there is then no second
  one. The file that is replaced in these ways may be one that does not parse
  (settings.go:39).
- `ReplacedIsBackedUp`: the write before the first Stat is in the backup, since that
  is read afterwards, and only there; the other two kinds are nowhere. A backup is
  named by the millisecond (settings.go:66), so that of two connects in one of them
  the second overwrites the backup of the first.
- No property is stated of what `--undo` leaves. Restore writes the file in place: a
  death there leaves half a file, which every later connect refuses. A backup whose
  write was cut short is the newest and is what `--undo` puts back. `--undo` takes no
  backup itself, looks at no time, and restores a file from before claude-mem minted
  its device id. `ConnectKeepsOthers` shows only that no connect writes over what is
  left.
- `ExclusionHonoured`: `excludedProjects` returns no list, and the backfill queues
  excluded projects too, on any error of the path or of Read
  (backfill_cmd.go:98-105), for a file that does not parse, and for a value that is
  not a JSON string (settings.go:156), although a list in a JSON array is meant to be
  tolerated (backfill_cmd.go:110), which it is only inside a string. A list changed
  while the backfill is under way is not read again.
- `Budget` counts the attempts that reached the file. The write of one may fail
  unnoticed (window_file.go:133), and docs/security.md:64 promises that five wrong
  guesses destroy the window.
- A lost rotation: a process that dies between the repair of head_seq and the new
  epoch (store.go:213) leaves a database in which the next Open finds no drift. The
  log stays sound; that clients are told of the repair is a promise no property
  makes.
- `BaselineKept` says nothing of rows outside the baseline that a backfill queued
  again: `--undo` leaves those queued, and they are uploaded a second time.

Seen while reading, and not the subject of a run: `revoke` tells its user to restart
the hub "so the change takes effect immediately" (pair_cmd.go:132), which the check
at every request makes unnecessary (`RevocationTakesEffect`); two `rotate-token` at
once share the temporary file `psk.tmp` (pair.go:77); `status` and `doctor` send no
X-Device-Id, which `authed` answers with 400; `EmitAck` writes an id with
`strconv.Quote`, which is Go's syntax and not JSON's for unprintable characters;
`/status` reports the cached epoch and `/changes` the stored one.

### Bounds

- `store`: two requests, one command-line process, one device, three revisions,
  two digests, MaxSeq 2, two epochs. Two requests and a racing Open are what the
  interleavings need; three revisions exhaust two numbers; the batches contain an
  empty push, rival bodies of a revision, a repeat within a push and a known op
  before a new one. The race needs one spare epoch.
- `server`: two requests at a time and two slots, two devices, a log of one
  number and twelve shapes of requests: one device pushes, the other pulls, and
  there is one for each way to be refused. Two requests are what it takes to hold the mutex and to wait for
  it, and both slots can be taken.
- `restore`: one request, two revisions, two epochs: a backup must be older than
  the log by one commit.
- `changes`: pages of up to three rows and three grains of eight bytes, rows below,
  at and above the cap, limits -1..3; texts of up to four characters, the greatest
  length a body may have here, with every way to escape them; the numbers are
  scaled down (`MaxUint64`, `MaxInt64`, `MaxBodyBytes`), the relations between
  them kept.
- `sync`: two devices, three memories, so that an outbox holds two rows and a
  page does not hold the log; one late request; two epochs, so that there is one
  rotation or one wipe. `sync_converges`: two memories, pages of one, and batches
  that the limit never cuts.
- `pairing`: two redeemers, one opener, two attempts, one crash, and any number of
  failed calls: two callers and one abandoned lock are what the lock can go wrong
  with.
- `serve`: two serves, one other command at a time; the number of keys in use,
  rotations and faults is bounded by the cfg. Every race here is between two
  processes and at most one dead one.
- `device`: two connects or undos at a time, each of which may fail or die at every
  call; two commands in all (`MaxRuns`), of connect, `--undo` and backfill, and one
  write by claude-mem or its user. Every race of the settings file here is between
  two of these: a connect and a writer, two connects, a connect and a `--undo`, a
  backfill and any of them. A backup of an earlier connect may be there at the
  start, so that a `--undo` needs no command before it. Four rows: two with a project,
  of which one is in the baseline, one without a project, one of another device.

### Fairness

- HubServer: a request goroutine that can run does (WF), and a waiter on
  `sync.Mutex` is not passed over for ever, as the mutex enters starvation mode
  after 1 ms (SF of a waiting push and of `RecordDevice`). Nothing is assumed of
  commands, of crashes or of `PushCommit` winning over `PushFail`.
- Relay: the client retries its push and keeps polling; which limit it uses is
  arbitrary.
- ServeProcess: a process that runs goes on (WF), and the hub is started again
  when it is down: by the service manager (Restart=on-failure, KeepAlive, which
  service.go writes) or by its user. Commands need not run.
- SyncSystem: flusher and poller are timers of their own (SF of `SendPush`,
  `SendPull`); a request that arrives is answered and the answer handled (WF);
  the network recovers some time (`NetworkRecovers`), after arbitrarily many
  failures; users pair their devices again (WF of `Reconnect`).
- PairingWindow: callers run, the file system does not fail for ever (SF of
  creating and of removing a lock), devices go on trying, a minute passes.

## Theorems

They hold for every value of the constants. What is assumed of these is named
in the module that declares them, and evaluated by TLC in every run:

| Assumption | Says |
|---|---|
| `StoreAssumption` | bounds are naturals, batches are sequences of ops, the names of nobody are not names of somebody |
| `ServerAssumption` | requests have the shape of requests, there is a slot, and a device that gives an id gives its own |
| `WireAssumption` | an int64 holds no more than a uint64, a uint64 holds 1, and the limits on bodies and device ids are positive |
| `PageAssumption` | a page may hold a row, the log's numbers fit an int64 |
| `RelayAssumption` | the client's texts are within the limit on bodies and its revisions are positive and fit a uint64; junk has literals but is not conforming; the grain is positive |
| `SyncAssumption` | every memory has an author; limits are positive, bounds naturals |
| `PairingAssumption` | serve's handlers and `pair` commands are different callers; bounds are naturals |
| `ServeAssumption` | finitely many processes, with pids for all serves and more keys than are ever in use, so that a random key is one that nobody has |
| `SettingsAssumption`, `BackfillAssumption`, `DeviceAssumption` | bounds are naturals, "no hub" names neither a hub nor a connect, the baseline is of local rows, the projects are those of the rows |

| Theorem | Statement |
|---|---|
| `StoreInvariant`, `StoreTypeOK` | `Spec => []IndInv`, `Spec => []TypeOK` |
| `StoreLogGapless`, `StoreKeysUnique`, `StoreHeadNotAhead` | the log has no gap, a revision has one number, head_seq is not ahead |
| `StoreAcksDurable` | acknowledgements are kept |
| `StoreAnswersComplete` | every op of a push is answered, one number per revision |
| `StoreAppendOnly`, `StoreRevocationStays` | action properties |
| `StoreImplementsOpLog` | `HubStore` refines `OpLog` |
| `ServerImplementsStore` | `HubServer` refines `HubStore`, and so `OpLog` |
| `ServerKeepsPromises` | the store's promises hold behind the server |
| `ServerRevokedGetsNothing` | a device revoked before its request arrived gets nothing |
| `ServerAnnouncedIsServable` | an announced number is in the log when it is sent |
| `RestoreSound` | a deleted or restored file leaves a sound log |
| `RestoreWipeStartsEpoch` | without a restore, no number of the epoch is beyond the log |
| `RelayTypeOK` | the cursor stays within the log |
| `RelayPageContract` | every page keeps the contract, for any log, row sizes, cursor and limit |
| `PullNeverStalls` | a client that has not caught up gets a page it can apply |
| `DecRoundTrip`, `DecCanonical` | `ParseDec` and `Dec.String` are inverses: no number has two strings |
| `UnquoteInverts` | the decoder gives back the text of every literal a client may write |
| `LiteralFits` | no literal exceeds six times its text plus two |
| `ConformingAccepted` | `ParseOp` refuses nothing that a conforming client makes |
| `OutboxNeverStuck` | whatever heads the outbox can be stored, or is junk that is given up on |
| `SyncTypeOK`, `SyncNoDuplicates` | the log of the replication holds a memory once |
| `SyncNothingSkipped` | a device skips nothing of the log it follows |
| `SyncStampedIsStored` | what a following device has stamped is in the log |
| `SyncImplementsOpLog` | the hub of the replication refines `OpLog` between two wipes |
| `PairingTypeOK`, `PairingExclusive` | the window's lock excludes, up to a stolen one |
| `PairingSingleUse`, `PairingBudget` | a code works once; wrong codes are limited |
| `PairingClosedStaysClosed` | a window that is gone is not written again |
| `ServeTypeOK`, `ServeSettledLockStands` | a settled lock stays its serve's |
| `ServePairedStaysPaired` | a paired device stays paired |
| `DeviceTypeOK` | types, the bound on the writes of backups, and that no row of another device is queued |
| `DeviceBaselineKept` | the launch baseline is never lost, and stamps are honest |
| `DeviceExclusionHonoured` | excluded projects are not queued, but for a list that could not be had or is old |
| `DeviceConnectKeepsOthers` | a connect replaces no unparsable file and keeps what others wrote, but for what it cannot see |
| `DeviceReplacedIsBackedUp` | what a connect replaces is what its backup holds, but for a late write or a shared name |

`ServerInvariant`, `RestoreInvariant`, `SyncInvariant`, `PairingInvariant` and
`ServeInvariant` state the inductive invariants the others follow from. TLC
finds each of them to hold on the instance of its run.

### The arguments

**Store.** None of the store's safety properties is inductive. Three things are
missing from them, and `IndInv` adds each: the open transaction's view is itself a
gapless log that extends the committed one and already satisfies its
acknowledgements (`TxInv`), so that a commit has nothing left to prove; what a
process read in Open is at most what the log holds now (`LogInv`), so that a stale
repair still does not put the counter ahead; and a request's acknowledgements are
those recorded (`ReqInv`). The key step is `PushNewOp`: the counter may lag behind
the log after a stale repair, and it is the primary key (`CanInsert`) that then
refuses the insert, so an insert that succeeds is always at the end of the log
(`InsertAtHead`). The refinement needs only that a committing transaction's view
is the log `Accept` describes. `IndInv` is in two parts: `CoreInv`, which is about
the database and its processes, and `AckInv`, which is about what clients have
been told and does not survive a restore.

**Server.** `ServerImplementsStore` is a refinement with the identity as its
mapping: every step of the server is a step of the store or invisible there. The
one that takes an argument is `Panic`, which unwinds a push wherever it is. It is
`PushFail`, `PushDone` or a refused `PushLock` of the store, and which one depends
on who holds the mutex: `MutexInv` says it is the request past the check inside
Push. (The proof is what showed that a goroutine waiting for the mutex must be
excluded from `Panic`: it executes nothing that could panic.) `HttpInv` says that
a request that arrived revoked is before the check, where the table still says
revoked because no step takes that back, or is answered without data; and that
the head_seq a handler read stays within a log that only grows.

**Restore.** `CoreInv` is kept because a copy is a committed state and therefore
itself sound (`BackupInv`), and because a process that has closed the file
remembers nothing of it (`ClosedInv`). `PeakInv` follows the highest number of
each epoch: a new epoch has none, and a commit is at the end of the log.

**Pages and literals.** What is proved here is what loops compute, for inputs of
every length. The library's induction theorems cannot be used for that, as they
take a predicate for a parameter. `RelayProofs` therefore starts from the one fact
that has none, that a well-founded relation has minimal elements: a set of numbers
that contains 0 and is closed under successor up to n contains 0..n (`Induct`,
`InductComplete`), and a recursive definition that looks only back defines a
function (`Recursion`, `Iteration`). Predicates become sets of numbers, and each
loop of the models gets a lemma that states its equations (`ScanIs`, `BytesUpToIs`,
`ValueUpToIs`, `UnquotedIs`, ...).

`PageContract` then follows from the loop's invariant `TakenSoFar`: after i rows the
loop has taken the first n, their bytes are within the cap unless n is 1, and if it
has stopped, the row behind them would have broken a bound. Asking for one row more
than the limit is what makes `more` right at the end of the log (`Left`).
`DecRoundTrip` and `DecCanonical` are inductions on the digits.

For the decoder, the invariant has to say what may follow. A literal l of the first
i code units is the text so far (`Writes`): whatever decodes to w behind l decodes
to the text and w with it, unless the last unit is a high surrogate and the escape
of a low one follows. In the middle of a pair that is false, and the literal is
instead one that lacks the second half (`WritesHigh`). `EscapeDecodes` and
`PairDecodes` are the two kinds of steps; that the decoder looks only ahead
(`UnquotedLooksAhead`) makes the two directions meet, as the client writes from the
left and the function reads what is left. `LiteralFits` is the same induction on
lengths: a pair is twelve bytes in the literal for four in the text. Together they
give `ConformingAccepted`, which is what docs and comments promise of `ParseOp`, and
`OutboxNeverStuck`.

**Replication.** `SyncInv` speaks of what is under way. A page of the hub's epoch
continues the cursor of the device it is sent to (`PageOK`); the rows of an answer
are in the log before they are stamped, and what has been applied or stamped
belongs to the log as long as the device follows its epoch (`FollowsOK`); a device
that has met no epoch has nothing from a hub (`FreshOK`). A new epoch then
threatens nothing, since no device and no page can have met it. `NoDuplicates`
needs that a batch names a memory once (`BatchInv`), also one that is handled long
after its client gave up. `PushFacts` is what `Push` does to any log: it keeps it
as a prefix, adds exactly the batch, and repeats nothing. That also makes it what
`OpLog` calls accepting a batch: `SyncImplementsOpLog` maps the sequence to a table,
and the acknowledgements to all of its rows, since a row gets there only by a push
that is answered. Deleting the database is the one step `OpLog` does not have.

**Pairing.** The promises speak of the file and its counts; what keeps them is that
a caller inside the lock acts on the window it has read. Until a lock is stolen,
whoever is inside is alone and its lock is there (`LockInv`), what it has read is
what the file holds (`ReadInv`), a code not yet written was never used
(`DrawnInv`), and the counts agree with the file (`CountInv`).

**Serve.** For `SettledLockStands`: while a serve that filled its lock alone
stands, no other is past the lock file, about to fill one or about to remove one
(`SoloInv`). For `PairedStaysPaired`: what a device was given and what a serve has
loaded agree because both agree with the files, so the invariant relates each to
the meta row (`MetaInv`) and to the key file and its generation (`KeyInv`). That a
new key exists at all is a counting argument (`FreshKeyExists`).

**Device.** Proved in two halves, as every step is one of the settings file, one
of the database, or both at once (`SettingsPart`, `DatabasePart`).
`BaselineKept` is inductive as it stands: the work is in the transaction's
algebra of sets (`RequeueKeeps`, `UndoKeeps`). `ExclusionHonoured` needs that a
running backfill has the list of the file or is marked `stale` (`ListInv`), and
that only the transaction clears a stamp. The two properties of the settings file
share `FileInv`, which says what Update's second Stat is worth (`Covered`): as long
as the first one holds, the file is the one that was read and parsed, unless a write
came before that Stat (`Same`), and it is what the backup holds, unless the name is
shared (`Safe`); past the last look both last until somebody writes. Every step that
writes the file makes all Stats taken before it old (`WriteKeeps`); every other step
of a connect has only its own part of the invariant to keep (`BesideKeeps`,
`ConnectKeeps`). The number of writes to backups is bounded because each connect is
counted before it may create one and fill it (`Counters`, `Ahead`, `Writing`).

### Model-checked only

- Liveness (`RequestAnswered`, `OverloadEnds`, `RevocationTakesEffect`,
  `CatchesUp`, `OutboxDrains`, `HubComesBack`, `Converges`, `LockFreed`): it needs
  fairness and ENABLED.
- The second half of `OutboxDrains`, that junk is never stored: it is a statement
  about the particular ops in `Junk`, one for each check of `ParseOp`, and not one
  about every op that is not conforming. (The hub accepts more than claude-mem sends,
  such as a device id of any length up to the limit.)
- That `Without` is `SelectSeq` (`WithoutIsSelectSeq`), which takes induction over a
  RECURSIVE operator.

### A note on the prover

tlapm 1.4.5 tells its SMT solver that every value has a length, and that a function
whose domain is 1..n has the length n. Together these make a sequence of every
function, and an obligation that mentions both `Len` and a function on 0..n can be
proved for no good reason. The models have such functions: every loop here starts at
0. All proofs were therefore also checked with the first of these facts taken out
of the solver's input, and hold without it.

## Not modelled

Discovery (a wrapper over an mDNS library, whose result is shown to the user),
the bind policy (a pure decision over classes of addresses, taken once before
anything starts), service installation, fixtures and `record.go` (they write
files the system does not read back), status and doctor (they only read),
argument parsing, paths, logging. `codes.go` holds an in-memory window that only
its tests use. `emit.go` composes fixed text around values that are stored as
they came.
