# A TLA+ verification of the K98 statistics database

The repository is the SQL Server side of a Discord bot: tables, stored
procedures, triggers and the scripts that deploy them. The bot publishes
statistics files, calls the procedures and exports what they compute; its own
code is not in the repository and appears here as an environment. Most of
`sql_schema/` computes reports with set-based statements. The part with
protocols, and with the failures that are hard to test, is much smaller: the
import of immutable files, the outcome receipts of a coordinated import, the
evidence the export jobs leave, the frozen boards of an event, the runner that
applies a release, and the Python programs that rehearse such a release with
real runners on a disposable database. This project models those.

## 1. Inventory

| Component | State | Operations | Interacts with | Hard behaviour |
| --- | --- | --- | --- | --- |
| Immutable-file import (`CLAIM_KS4_IMPORT_FILE`, `IMPORT_STAGING_PROC[_CORE]`, `UPDATE_ALL2` Phase A, `UPDATE_ALL`, `ARCHIVE_IMPORT_STAGING_FILE`, the hash and lock helpers) | `KS4_ImportFileClaim`, `KS4_ImportFileReceipt`, `KingdomScanData4/5`, the application lock, three directories | claim, import, archive, retry | every caller shares the lock; files move with `xp_cmdshell`, outside any transaction | concurrent callers of one name, the same bytes under two names, crashes between a file move and its record |
| Coordinated outcome (`usp_S11RunStatsImport`, `usp_S11ValidateStatsReportStage`, `usp_S11CompleteStatsReports[Core]`) | `StatsImportExecution`, `StatsImportReportContinuation`, session locks | run once, commit with Phase A, three report checkpoints, recovery | wraps `UPDATE_ALL2`; reads the export ownership rows | a disconnect skips CATCH, scan or configuration drift between stages, replay |
| Export execution (`usp_ExportExecutionSessionTransition`, `...StreamTransition`, `usp_ExportProviderRequestEventAppend`) | sessions, streams, request events, fences | open, freeze, close; prepare, dispatch, resolve a request | bot workers, provider requests | owners replaced between the authority's reading and its call, late answers |
| Export containment and closeout (`usp_Export*ContainTargets`, `usp_ExportLegacyCloseout`, `usp_ExportReconciliationProofIssue`) | contained targets, proofs, holds | contain, attest, close | streams of the same account | containment against a writer that is still alive |
| Export replacement and enrolment (`usp_ExportReplacement*`, `usp_Export*EnrollmentTransition`) | plans, verifications, activations | plan, verify, activate | containment evidence | activation on stale verification |
| Import audit (`usp_ImportAudit_*`) | batches and phases | start, record, complete, fail | all importers | a phase after the end of its batch |
| Pipeline receipts (`ProcessingPipelineRun/Stage`) | two tables | made by the bot | - | only constraints are here |
| MGE finalisation (three triggers) | events, awards, signups, the inventory of final targets | freeze, complete, settle a target | bot | statements over several events beside a completion |
| Log backup queue | `LogBackupTriggerQueue` | get, mark, clean up | filled by the last report stage | two workers with one trigger, triggers that age unread |
| KVK ingest | `KVK` scans, windows | ingest, recompute, clean up | exports | allocation inside a KVK |
| Summaries and deltas | report tables | rebuild | after every import | arithmetic, not control |
| Registry, locations, votes, leadership review, retention | bot data | upserts, deletes, purges | bot | little interleaving |
| Release runner (`Deploy-SqlMigration.ps1`, `SqlDeploy.ModuleRelease.ps1` and its profiles) | `SchemaMigrationHistory`, `DeploymentRunHistory`, an application lock, the objects of a release | Preflight, Status, Verify, Apply | operators, other releases, whoever alters the database | a process that dies with an open transaction, a commit whose reply is lost, drift |
| Rehearsals (`validation/rehearse_*.py`, `mge_finalisation_*.py`) | a program counter, children, threads, sessions, open finally blocks | run, spawn, kill, alter, compare | real runners and sessions on one database | a timeout in the middle of a fault, a thread that waits for a lock of its parent |
| Promotion, nightly export | files | operator-run scripts | database | retention of snapshots |

`PROJECT.json` lists every component with its status and, under `hazards`, the
places where this code can go wrong in ways a test would hardly reach.

What makes each component correct, as far as it has been worked out:

* import: one scan for one content; a name is closed once; the rows of a scan
  are the bytes its receipt names; archived is evidence; every retry ends;
* outcome: an import is never replayed; a completed receipt has all stages;
  each stage saw the data of the import; the recovery entry finishes what a
  disconnect left;
* export evidence: nothing is sent under an old fence; a seal is the whole
  ledger; no file is released while an outcome is unknown; activation only on
  evidence that is still current;
* release runner: one writer, a release applied once, and an exit code that
  stays true whatever died, was lost or drifted;
* rehearsals: they pass on the runner as it is, they claim only what is so, and
  they leave nothing behind however they end;
* the rest: frozen boards stay frozen and have their whole inventory, a queue
  entry is marked once.

## 2. Modules

| Module | What it is |
| --- | --- |
| `ImportLedger` | abstract specification: contents are accepted at most once with growing scan orders, names are closed at most once |
| `ImportPipeline` | the import pipeline, one action per point where sessions can interleave; the properties; the refinement of `ImportLedger` |
| `MCImportPipeline` | symmetry for TLC |
| `ImportPipelineProofs` | the theorems that hold whoever breaks the file protocol, and their proofs |
| `ImportRulesProofs` | the theorems that need the file protocol to be kept, on top of it |
| `OutcomeLedger` | abstract specification: a preparation is executed once, committed once and reported on in order |
| `StatsOutcome` | the coordinated import around Phase A; its properties; the refinement of `OutcomeLedger` |
| `MCStatsOutcome` | symmetry for TLC |
| `StatsOutcomeProofs` | the theorems and their proofs |
| `ReleaseLedger` | abstract specification: a migration is applied once, by an attempt that nobody was told had been rolled back |
| `ReleaseRunner`, `MCReleaseRunner` | the release runner as processes with a client and a server side; the refinement of `ReleaseLedger` |
| `ReleaseRunnerProofs` | the theorems and their proofs |
| `Rehearsal` | the language of the release rehearsals: steps, children, faults, finally blocks, timeouts; its processes are `ReleaseRunner` |
| `RehearsalProofs` | the theorems that hold of every script, and their proofs |
| `ModuleRehearsal`, `TableRehearsal`, `RecoveryRehearsal`, `MgeRehearsal` | the four programs as scripts in that language, and what each says of a PASS |
| `BoardFreeze` | events, signups, awards and inventories under transactions with locks, the three triggers and the completion |
| `BoardFreezeProofs` | the theorems and their proofs |
| `BoardQualification` | the cases N03 to N15 of the MGE qualification as a script; its sessions are `BoardFreeze` |
| `MCRehearsal` | composes the four scripts and the cases with their fairness |
| `ExportLedger` | what export evidence promises its readers |
| `ExportStream`, `MCExportStream` | sessions, streams, requests, containment and closeout of export jobs |
| `ExportStreamProofs` | the theorems and their proofs |
| `LogBackupQueue`, `LogBackupQueueProofs` | the trigger queue of log backups; theorems |
| `MCBotRecords` | composes `LogBackupQueue` and `BoardFreeze` for TLC |

The first two state machines share Phase A and the archive. `ImportPipeline` looks
inside them, at files, digests and the mutex; `StatsOutcome` takes the import as
one step that gives an open file the next scan order, which is what
`ImportLedger` allows, and looks at what happens around it.

### 2.1 State of `ImportPipeline`

| Variable | Code |
| --- | --- |
| `claim[f]` | row of `KS4_ImportFileClaim`: `ClaimStatus` and `FileDigest`; status `"none"` is no row |
| `receipt[b]` | row of `KS4_ImportFileReceipt` with digest `b`: `ScanOrder`, the file name behind `SourcePath`, `ArchiveStatus = 'archived'`; scan 0 is no row |
| `ks4`, `ks5` | which content the rows of a `SCANORDER` hold |
| `lock` | owner of the transaction-owned application lock |
| `ready`, `claimed`, `archive` | what each directory holds under a name |
| `sealed[f]` | the file was given to the `xp_cmdshell` identity and its access list reset |
| `pc`, `file`, `entry` | where a session is, on which name, under which public procedure |
| `saw`, `digest`, `staged` | its locals: `@ReadyExists`/`@ClaimedExists`, the digest variable, the bulk-loaded staging |
| `calm` | failures have stopped (used by liveness alone) |

SHA-256 is taken to be injective: a digest *is* a content. A file name is a
model value; the check of its form is a precondition on `Files`.

### 2.2 Actions

`CLAIM_KS4_IMPORT_FILE` is `ClaimOpen` (first transaction), `ProbeReady`,
`ProbeClaimed`, `ProbeArchive` (three separate reads of the file system and the
decision), `Move`, `Verify`, `Harden` (the three `ICACLS` commands), `Hash`,
`Bind` (second transaction) and `ClaimCatch`. `IMPORT_STAGING_PROC_CORE` with
its callers is `ImportOpen` (lock, claim, first hash, receipt check), `Load`
(`BULK INSERT`), `Rehash` and `Commit` (allocation, canonical staging, receipt,
claim, KS5, KS4, `COMMIT`). `ARCHIVE_IMPORT_STAGING_FILE` is `ArchiveOpen`
(including the reconciliation of a move made before), `ArchiveMove` and
`ArchiveVerify`. A step between two file commands under the lock is an action
of its own, because the file system is not covered by the lock; database-only
work inside a transaction is one action, because the lock and the
`UPDLOCK, HOLDLOCK` reads isolate it.

`Throw` is a failed step: the claim goes to its CATCH block, the others roll
back. `Fault` is a failure the code does not decide (a command, a statement or
the 60 second lock timeout) and `Disconnect` a lost connection, where no CATCH
block runs. Files that were moved stay moved in both cases. `Publish` is the
producer, `Rewrite` everyone who can still write a file. Two constants say who
keeps the protocol of `immutable_file_protocol.md`: `Republish` (a name is used
again) and `Tamper` (a hardened or archived file is rewritten).

What the source does not determine is nondeterministic: `MOVE` onto an existing
destination replaces it or fails.

Left out: `LastError`, timestamps and printed summaries; path drift (51877,
51843), since paths are functions of the name and nothing updates them;
`FIX_IMPORT_STAGING`; the rows themselves (`Malformed` stands for every refusal
of canonical staging); the report work that `UPDATE_ALL` does inside its
transaction, except that it delays the commit, which `Load` and `Rehash` already
allow.

### 2.3 State of `StatsOutcome`

| Variable | Code |
| --- | --- |
| `execution[p]` | row of `StatsImportExecution`: `State`, file, `ScanOrder`, `LastRunCounter`, whether `Resolution` is set; state `"none"` is no row |
| `continuation[p]` | row of `StatsImportReportContinuation`: `LatestScanOrder` (equal to `ScanOrder`), the version of `ConfigurationJson`, `CompletedStage`, `planned` for `ReportKVK`/`ReportScan` being set; `latest` 0 is no row |
| `holder`, `doubtful` | which preparation holds the resource `sql_snapshot:legacy_outputs` with matching owner and fence; whether it is `uncertain` and the resource blocked |
| `claim[f]`, `latest` | `ClaimStatus` and `MAX(SCANORDER)` of `KingdomScanData4`, as the validation reads them |
| `config` | version of the contents of `ProcConfig` |
| `reports[k]` | the scan and the configuration the tables of report stage k were last built from |
| `counter` | `MAX(LastRunCounter)` of `SP_TaskStatus` |
| `runLock[p]`, `guard` | session-owned locks `S11:stats-import:<id>` and `k98-legacy-output-snapshot` |
| `importLock` | the transaction-owned KS4 import lock |
| `pc`, `call` | where a session is, and its locals: entry, preparation, file, stage, `planned`, the configuration version a stage started with |

### 2.4 Actions of `StatsOutcome`

`usp_S11RunStatsImport` is `CallRun` (execution lock), `Enter` (the single
UPDATE that makes a prepared receipt running), `Finish` and `Catch`. Phase A of
`UPDATE_ALL2` is `OpenPhaseA` and `CommitPhaseA`, then `Archive`.
`usp_S11CompleteStatsReportsCore` is `OpenReports` and, for each of its three
transactions, `OpenStage` and `CommitStage`. `usp_S11CompleteStatsReports` is
`CallRecovery` and `Validate`, then the same archive and reports.
`usp_S11ValidateStatsReportStage` is the predicate `Admitted` with its parts
`HoldsBothLocks`, `Reportable`, `Owned` and `Current`. `CallLegacy` is
`UPDATE_ALL2` without a preparation: it runs through the same steps, and its
validation stops after the import lock.

A transaction another session can meet half-way is two steps, the lock and the
commit: the stage's admission is decided at the first and its writes appear at
the second, so that what may change between them is up to the locks, as in the
code. The validation takes the import lock with a timeout of 0 and fails when it
is taken; Phase A waits.

`Fault` is an error of any statement (`XACT_ABORT` rolls back), `Disconnect` a
session that ends without its CATCH block; its session locks stay until
`EndSession`. `Prepare`, `Doubt`, `Release`, `Settle` and `Withdraw` are the
bot's and the administrators' part in `ExportPreparation`, `ExportResource` and
`Resolution`, modelled from what the code here checks and from the recovery
documents. `Reconfigure` is a change of `ProcConfig`, which the `HOLDLOCK` read of
a coordinated stage excludes until it commits.

Left out: the contents of reports; the audit rows, log-space notes and
`LogBackupTriggerQueue`; `RecoveryActionID` and `RecoveryState`; `InputDigest`
(that a bound digest may change is finding 1); `GenerationJson`, which with
`CK_ExportPreparation_Generation` makes `p.State = 'committed'` in the
validation unreachable.

### 2.5 `ReleaseRunner`

| Variable | Code |
| --- | --- |
| `image[m][i]` | each object, grant or child receipt of a migration: as reviewed before, as reviewed after, or other |
| `receipt[m]`, `attempt[a]` | rows of `SchemaMigrationHistory` and `DeploymentRunHistory` (with the release named in `ErrorMessage`) |
| `lock` | the session-owned lock `K98_Module_Release_v1` |
| `pc`, `job`, `reading`, `mine`, `code` | a process: where it is, operation and call, outcome read so far, its attempt, its exit code |
| `conn`, `server` | its connection, and what its transaction is on the server |
| `denied` | history: attempts of which some runner said `rolled_back` |

`Invoke-K98ModuleRelease` is `Launch`, `TakeLock`, `Unready`, `ReadHistory` and
`ReadImages` (`Get-K98ModuleOutcome`), `Finish`, `InsertAttempt`, `Begin`,
`Change`, `WriteReceipt`, `RequestCommit`, `Acknowledge`, and of its catch block
`Rollback` with `MarkFailed`. The client and the server are told apart: a commit
that was sent is carried out by `ServerCommit` whether or not the client is still
there, and the lock and the transaction of a dead process stay until `Reap`.
`Kill` and `LoseConnection` may strike anywhere, `Drift` alters an object no open
transaction holds. A call names a migration, a profile, a pin (the reviewed
bytes) and a release. The four profiles differ in what their statements do with
an object that is not as reviewed: `CREATE OR ALTER` of `module_grants_v1`
replaces it (`Overwrites`), the others fail.

### 2.6 Rehearsals

A rehearsal is a sequential Python program, so it is a sequence of steps
(`ModuleScript`, `TableScript`, `RecoveryScript`, `MgeScript`) and `Rehearsal` is
the machine that runs it: `Outer` and `Compare` start a runner and look at its
exit code, `SpawnChild`, `AwaitMarker` and `Undo` are the paused child and its
`process.kill()`, `AlterDatabase` what the program does to the database itself,
`Inspect` its counts, `PushFinally` and `RunFinally` its finally blocks, and
`TimeOut` the end of a `timeout=`. A fault that the program writes into a copy of
the runner is a place at which the runner pauses, throws or loses its reply. A
loop whose turns differ only in what is altered is one turn. `OccupyLock` is the
program's own connection, which takes the runner's lock without waiting and stops
the program when it is refused (`rehearse_guided_recovery_release.py:432`).

Four named assumptions say what a script is: it runs two processes
(`ProcessesAssumption`), names what there is (`ScriptsAssumption`), gives
attempts to another profile only where every earlier Apply of that migration was
made to throw in its change (`RebindAssumption`), and follows whatever it starts
or switches on at once by the `finally` that undoes it, the tracking of a table
inside that of its database (`GuardsAssumption`). TLC evaluates all four on the
four scripts in the run `rehearsed`.

`BoardQualification` does the same for the cases of
`mge_finalisation_cases.py`: its sessions are the program, a thread beside it
and a child; `Send` starts a statement, `Stands` is a boundary where a session is
stopped (`BoundaryCursor` in the child, an uncommitted statement in the program),
`Blocked` the query for a blocked session, `LockTimeout` the
`SET LOCK_TIMEOUT 10000` of every connection, `LoseFaith` the end of the
program's own patience. `timely` and `prompt` say that no call exceeds its time.

### 2.7 `BoardFreeze`

A statement takes the locks of the rows it writes (`StartRows`), its trigger the
locks of the events they are in and go to, one by one (`LockEvent`), then it is
refused or goes on (`Check`, with `RowsRefusal`, `EventsRefusal` and
`CompletionRefusal`), and its effect appears at `Commit`. `Abort` is a deadlock
victim or a lost connection. The completion reads the boards together with the
update of the status (`SetCompleted`) and inserts the inventory
(`InsertInventory`) in the same transaction. `ReadTarget` and `SettleTarget` are
the delivery with its compare-and-set on the revision; only the qualification
cases use them.

### 2.8 `ExportStream`

Every procedure call is one action, since each takes the exclusive application
locks of its account and resources first. What matters is what the authority has
read *before* the call: `seen` (job, fence, versions) and `seal` (stream version
and ledger) are readings of any earlier time, and each action compares them with
the present as the procedure does. `Claim`, `Replace`, `StartAttempt` and
`EndJob` are the bot's, modelled from what the procedures check.

`ExportLedger` is what remains for a reader of the tables who knows nothing of
sessions, owners, fences and versions: streams that are new, active or sealed,
calls with a state, and concluded jobs.

### 2.9 `LogBackupQueue`

`QueueTrigger` is the insert of the last report stage, `GetPending`,
`MarkProcessed` and `Cleanup` the three procedures, `Tick` the clock. A worker
reads a list, works it off in order and may die (`Abandon`).

## 3. Properties

Of the import:

* `OneScanPerContent`: no two receipts share a scan, and the rows of a KS5 scan
  are the bytes the receipt of that scan names. It needs the ACL takeover, both
  hashes and the receipt check together: with a file still open to the producer
  the content can change before `BULK INSERT` and change back before the rehash.
* `BoundBytesStay`: from the binding of a digest on, the file is in exactly one
  SQL-owned directory, with those bytes, out of the producer's reach.
* `ArchivedIsEvidence`: claim and receipt agree on what is archived; a closed
  duplicate points at another name's receipt.
* `PipelineInvariant`: the inductive invariant behind it, see section 6.
* `EveryScanPromoted`: a scan of Phase A is in KS4 too.
* `ClaimAdvances`: a slower session or its CATCH block never takes a status back.
* `DigestIsBoundOnce`: a bound digest is never replaced.
* `ImplementsLedger`: refinement of `ImportLedger`.
* `EveryFileSettles`: a published name is eventually archived or closed as a
  duplicate.

Of the coordinated outcome:

* `ReceiptsAgree`: whatever is lost in between, execution receipt and
  continuation tell the same story: committed if and only if it can be
  continued, completed if and only if all reports are delivered and counted.
* `CompletedIsArchived`: a completed import rests on an archived file, also
  when recovery completed it.
* `CompletionIsCoherent`: when a preparation completes, all its reports are
  built from its own scan and configuration, although the stages ran in
  different sessions and legacy calls rebuilt the same tables in between.
* `CompletionIsOwned`: no completion after the ownership was withdrawn.
* `ReceiptsMoveUnderLock`: between preparation and settlement a receipt moves
  only under the execution lock. This is what `usp_S11RunStatsImport:37` tells
  an administrator to rely on.
* `OutcomeInvariant`: the inductive invariant, see section 6.
* `ImplementsOutcomes`: refinement of `OutcomeLedger`.
* `CommittedIsFinished`: a committed import that stays current and owned is
  finished.

Of the release runner:

* `OneWriter`: a transaction of a release belongs to the owner of the lock, also
  when its process is dead and the server has not noticed.
* `ReceiptsLinked`: a receipt and the one attempt that succeeded name each other.
* `RolledBackIsFinal`: an attempt of which a runner said `rolled_back` never
  succeeds afterwards. It is what makes exit code 11 safe to act on, and it
  depends on the order in which the server ends a lost session.
* `ZeroIsMine`: exit code 0 is said of the caller's own release only.
* `OverReviewed`: a release is committed over objects that are as reviewed; it
  holds of the profiles that compare their preimages (see section 7).
* `LedgerSpec`: refinement of `ReleaseLedger`.

Of the rehearsals:

* `Passes`: when no call exceeds its time, every program comes to its end with
  PASS, whatever the interleaving of children, threads and server. It relates
  hundreds of expected exit codes, counts and error numbers to the model of the
  runner and of the triggers: a change of either that a rehearsal would notice
  breaks it.
* `EvidenceIsTrue`: what a program writes of a PASS is so in the database. It
  contains `Attested` (what a program was once told with exit code 0 is so to its
  end, whatever it alters, kills or times out afterwards) and `EndsClean` (a
  program that has ended has no runner left and no tracking on, and of a process
  it killed only what the server has not noticed).
* `LeavesNothing`: however a program ends, it leaves no process, no transaction,
  no lock and no altered database setting.

Of the exports:

* `DispatchIsOwned`: what is sent is sent for the job that owns the file at that
  moment under its current fence, and never to an isolated file.
* `OneOutstanding`: one request without an outcome at a time and account.
* `SealIsComplete`: the digest a closed or contained stream carries, computed
  from an earlier reading, is that of everything it ever recorded.
* `CloseoutIsKnown`: after a closeout no mutation of the job is in doubt.
* `ContainedHoldsNothing`: a contained or closed job occupies nothing.
* `ImplementsEvidence`: refinement of `ExportLedger`. Beyond the invariants it
  says of every step that a call moves forward once and only while its stream is
  active, that no call follows a change with an unknown outcome in its stream,
  that a sealed stream is never written again and that a concluded job neither
  writes nor sends a change.

Of the boards and the queue:

* `FrozenStays`: a completed event, its signups and its awards stay as they were
  committed; nothing moves in or out, also by a statement that began before.
* `InventoryWhole`: a completed event has exactly one target per board.
* `OneMarks`: one worker alone is told that he has marked a trigger.
* `ForgottenStays`: a trigger nobody read in time is never handed out again and
  never cleaned away.

## 4. Runs

| Run | Instance | Shows |
| --- | --- | --- |
| `import_protocol` | 2 sessions, 2 names, 2 contents, history {2}, scans up to 4; protocol kept | all safety and action properties and the refinement, about 400 000 states under symmetry |
| `rules_broken` | 2 sessions, 1 name, 2 contents of which one is malformed, 1 free scan; protocol broken | the inductive invariant, from which the refinement follows, does not depend on the producer or the operators |
| `import_settles` | 2 sessions, 1 name, 1 content, fair | every crash point is recovered from |
| `outcome_protocol` | 2 sessions, 1 preparation, 2 files, 2 scans, 1 configuration change, KVK from the second new scan | the receipts and coherent completion, about 670 000 states |
| `outcome_handover` | 2 sessions, 2 preparations, 2 files, 1 scan left | ownership, the invariant and the refinement, about 350 000 states |
| `outcome_settles` | 2 sessions, 1 preparation, 2 files, fair | recovery finishes, about 240 000 states |
| `release_protocol` | 2 processes, 2 releases of one migration, 3 attempts, history bound 2, one object that may drift | the runner under deaths, lost replies and drift, about 870 000 states |
| `rehearsed` | the 4 scripts with 2 processes and 6 attempts; the cases with 3 sessions, 21 events, 8 rows, 3 boards; each with and without an exceeded timeout | the programs against the models, about 4 500 states |
| `export_evidence` | 2 jobs of one file and account, 2 streams, 2 requests, fences up to 2, one probe at most | the export properties and the refinement, about 850 000 states |
| `bot_records` | queue: 3 triggers, 2 workers, clock up to 4; boards: 2 events, 2 rows, 2 sessions, 1 board | queue and boards, about 970 000 states |
| `digest_rebound` | 1 session, `Tamper` | finding 1 |
| `first_scan` | empty scan tables | finding 2 |

Bounds. Two sessions are enough for every race on one name (the second claim,
the late CATCH block); two names with a common content give the duplicate; the
two contents give the change and change back. History {2} leaves a gap below
the newest scan, so that allocation must take the maximum and not the first free
number. `MaxScan` stands for 2147483647: in `rules_broken` the range is used up
after one import. For the outcome, two sessions are the original and the
recovery, or a coordinated import and a legacy one; two files let a legacy
import overtake the coordinated one; `KvkStart = 3` makes the second stage skip
or run depending on which import came first; two preparations are what a
withdrawn ownership needs. `MaxConfig` bounds the configuration changes and
exists for TLC alone. Two runners are the one that dies and the one that comes
after it; two releases of a migration are what a wrong adoption needs; three
attempts exceed the history bound of 2 (256 in the code). In `export_evidence`
two fences are an owner and its replacement, and two jobs one that was contained
and one that uses its file afterwards; `Within` keeps the second request, the
second job and the probe apart, and lets two jobs send mutations only. In `bot_records` the ages are shorter than the clock, so that a
trigger ages unread and a processed one is cleaned up; two events in one
statement and two sessions give the deadlock; `Within` keeps one edited text at
a time, which is enough to notice a change. The scripts of `rehearsed` have no
bound: they are the programs. The theorems hold for every value of these constants.

## 5. Fairness

`FairSpec` asks weak fairness of every session's own steps (a session that is
not blocked runs on; the server does not suspend a batch forever), that
failures stop at some point (`CalmDown`), and strong fairness of the calls for
each name: the bot retries a name until it is closed. The last one is an
assumption about the bot, taken from the recovery rules of
`immutable_file_protocol.md`; it is strong because all sessions can be busy
again and again. No fairness is asked of the producer, of `Fault` or of
`Disconnect`.

For `StatsOutcome`, `FairSpec` asks weak fairness of `Step` (it contains
`EndSession`: the server ends a lost session), `CalmDown`, and strong fairness of
`Recover`: the bot calls recovery again whenever it can take both locks. After
`CalmDown` only calls that hold both locks begin. `CommittedIsFinished` does not
promise anything of an import that was overtaken: a receipt left
`import_committed` by a disconnect, whose scan is no longer the latest, is
refused by every validation, and no statement of this repository moves it to
`partial`, so it waits for the withdrawal by an administrator.

For the rehearsals, weak fairness is asked of the program's own steps, of every
runner and session that is not paused, of the server (it commits what it was
sent and ends the session of a dead process) and of `LockTimeout`, which is
enabled only where the connection has one: `SET LOCK_TIMEOUT 10000`
(`rehearse_mge_finalisation.py:310`). Without it a program whose thread waits for
a lock of the program's own connection never ends, because the executor joins
the thread before the connection is closed. No fairness is asked of `TimeOut` or
`LoseFaith`: whether a call exceeds its time is not up to the program. The other
runs check safety alone and assume none.

## 6. Proofs

`ImportPipelineProofs` proves, for every set of sessions, names and contents,
every scan range and history, and with the protocol kept or broken:

* `TypeCorrect`: `Spec => []TypeOK`. `AtWork` makes it inductive: a step that
  uses the local digest has one.
* `InvariantHolds`: `Spec => []PipelineInvariant`. `ArchivedIsEvidence` alone is
  not inductive: a session about to write the archived status must still see the
  receipt it saw when it took the lock. `MutexHeld` (locked steps are held by the
  lock owner alone) and `FoundUnderMutex` (what a session found is still true)
  carry that across steps; `ReceiptsAreOwned` and `ClaimsAreBacked` tie receipts
  and claims in both directions; `ScansAreUsedOnce` keeps the history below every
  allocation. The delicate step is `ClaimCatch`, which writes without the lock:
  it is harmless because it changes only claims nobody owns a receipt of, and
  because its row lock keeps it away from the name the lock owner works on.
* `EvidenceHolds`: `Spec => []ArchivedIsEvidence`, from the two above.
* `Implements`: `Spec => ImplementsLedger`: the commit of Phase A is an
  acceptance, the archive of a duplicate a rejection, everything else a stutter.

`StatsOutcomeProofs` proves, for every set of sessions, preparations and files,
every scan range, every number of configuration changes and every start of the
KVK:

* `TypeCorrect`: `Spec => []TypeOK`.
* `OutcomeHolds`: `Spec => []OutcomeInvariant`. `ReceiptsAgree` is not inductive:
  the commit of a stage does not look at the ownership, the locks or the data
  again. `LocksAreHeld` says which session is inside a transaction with the
  import lock, and `StageIsAdmitted` that what its validation found is still
  true when it commits: the execution lock keeps the other sessions of the
  preparation out, the guard keeps `Settle` and `Withdraw` out, the import lock
  keeps Phase A out, and the table locks keep the configuration. `ArchivedFirst`
  carries the archive into the reports. `ReportsAreFresh` says that a legacy stage
  cannot spoil a delivered report of an import that is still current, since both
  would be built from the same scan and configuration.
* `ReceiptsHold`, `CompletionOwned`, `CompletionCoherent`, `MovesUnderLock`: the
  properties of the same names, from that invariant. Lemmas `ReceiptMoves` and
  `BotMoves` classify every step by what it does to the receipts (enter, commit,
  deliver, catch; prepare, settle), and the proofs go by these cases instead of
  by the actions.
* `ImplementsTheOutcomes`: `Spec => ImplementsOutcomes`. Lemma `RowMaps` turns a
  change of one preparation's rows into a change of one row of the ledger; the
  new scan order is above all earlier ones by `ReportsAreFresh`.

`ReleaseRunnerProofs` proves, for every set of processes, calls, objects and
attempts and every history bound: `ReleaseInvariantHolds`, and from it
`ReleaseTypesHold`, `OneWriterHolds`, `ReceiptsLinkedHolds`, `RolledBackHolds`,
`ZeroIsMineHolds`, `AppliedOnceHolds`, `OverReviewedHolds` and
`ReleaseKeepsLedger` (the refinement). `RolledBackIsFinal` is not inductive: an
attempt may be denied only while nothing on the server can still commit it.
`LockHeld` ties every transaction and every reading to the owner of the lock,
`ServerAgrees` the server's side of a transaction to where its process is,
`AttemptInFlight` says that an attempt in flight is `Started` and not denied, and
`NoReceiptYet` that a missing row found under the lock stays missing until its
finder writes it. `OverReviewedHolds` assumes that no call has the profile that
overwrites.

`BoardFreezeProofs` proves `BoardInvariantHolds`, `FrozenHolds` and
`InventoryHolds` for every set of sessions, events, rows and boards.
`LocksHeld`, `EventsKnown` and `CheckStands` say that a transaction holds what
it writes and what it checked, that the events it holds are still those of its
rows (nobody else can move them), and that what the check found is still so at
the commit. Lemma `PrivateStep` covers every step that commits nothing,
`CommitStep` the others, by what they change for the other transactions.

`LogBackupQueueProofs` proves `QueueTypesHold`, `OneMarksHolds` (from
`AnswersAgree`: nobody was told anything of a pending row) and
`ForgottenStaysHolds`, for every number of triggers and workers.

`ExportStreamProofs` proves, for every set of jobs, accounts, files, sessions,
streams and requests and every greatest fence, `ExportTypesHold`,
`ExportInvariantHolds` and from it `OneOutstandingHolds`, `SealIsCompleteHolds`,
`CloseoutIsKnownHolds`, `ContainedHoldsNothingHolds` and `DispatchIsOwnedHolds`.
Every conjunct of `ExportInvariant` is there because a step of an authority rests
on something it read before:

* `SealsStand`: a reading of a stream is its ledger as long as the version is the
  same. A closure compares versions only, never ledgers, so `SealIsComplete`
  needs that no step changes a ledger and leaves the version. Lemmas
  `EventAdvances`, `PrepareAdvances` and `OutcomeAdvances` say so of each step
  that records something, `OtherLedgers` that it leaves the other streams alone.
* `OneActive` and `OneCall`: `OneOutstanding` counts the requests of all active
  streams of an account, while `OpenStream` looks for another stream and `Prepare`
  for another request of its own stream.
* `RequestsFit` and `LedgerCounted`: a stream that is not open yet has no
  requests, and the stored number of the last one is how many there are.
* `OwnedAreMembers` and `NeverAgain`: containment and closeout free the resources
  of a job that are its members. That none comes back needs that a job owns its
  members only and that one which was contained or closed out is never claimed.

`ContainedHoldsNothing` and `CloseoutIsKnown` are kept together: a closeout finds
every request settled, and no stream of the job sends a mutation afterwards
because the job holds nothing. `DispatchIsOwned` is proved of the step: the
dispatch alone moves a request to `dispatch_intent`, in the transaction in which
it reads the owner and the containment again. That the file it reads them of is
one of the job's, and that a probe sends no mutation, is `RequestsFit`: the
request was checked when it was prepared, not when it is sent.

`ImplementsEvidenceHolds`: `ExportSpec => ImplementsEvidence`, the refinement of
`ExportLedger`. A preparation is a `Write`, a dispatch a `Send`, an outcome a
`Decide`, a closeout a `Conclude`, and everything about sessions, owners and
versions is a stutter. A closure is a `Show` because the digest it was given is
the ledger (`SealsStand`). A containment is one `Show` or none: the job has at
most one active stream (`OneActive`), and its closed streams, which are sealed
for a second time, show what they showed before (`SealIsComplete`; lemma
`ContainShows`). That a job which is concluded writes and sends no change is
`NeverAgain`, which the abstract specification has no counterpart of.

`ImportRulesProofs` assumes `RulesKept` (`~Republish`, `~Tamper`) as a hypothesis
of each theorem, since the properties are false without it (section 7 for the
digest; a republished name for the bytes). Sessions may still be lost at every
point, fail and wait for each other, and any number may work on one name.
`RulesHold` proves `RulesInvariant`, and from it follow `BytesStay`,
`ScansAreContents`, `ClaimsAdvance` and `DigestsStay`:

* `OnePlace` and `SealedIsKept`: the producer publishes a name that is nowhere
  else, so a `Move` never meets a file in `Import_Claimed`, and what is
  hardened can only travel to the archive. `Holds` is what remains the same on
  that way (lemma `HoldsKept`).
* `KnownBySession`: between hardening and hashing, hashing and binding, and under
  the mutex, what a session found is still so. A session that hashed and then
  waited for the lock may find the claim imported or archived by another, but
  the bytes it hashed are the bytes of the claim. So a second binding finds the
  digest that is bound already, and of a duplicate its receipt (`BoundAgain`):
  this is what keeps `duplicate` from becoming `claimed` again.
* `ClaimsAreHeld`: a claim without a binding has no digest, one with a binding
  has that of its file.
* `ScansHaveReceipts`: what `BULK INSERT` staged is what was hashed, so the
  receipt names the content of the scan.

Three lemmas carry the proof. `DiskStep`, `ClaimMove` and `SessionMove` say
what any step does to one file, one claim and one session; the invariant is then
checked against these few cases. `PromotionHolds` needs a scan in
`KingdomScanData4` before the first call (`History4 # {}`) and no rule of the
protocol: `MAX` of an empty table is the NULL of finding 2.

`RehearsalProofs` proves that the runner keeps its promises inside a rehearsal,
for every script that satisfies the four assumptions of 2.6, with timeouts at
every point. A rehearsal does to the runner what no other caller may: it writes
into its tables, occupies its lock, kills its processes and makes it throw, so
the theorems of `ReleaseRunnerProofs` do not carry over. `RunnerMoves` shows that
a process of a rehearsal still takes steps of `ReleaseRunner` only, and the lemmas
`AlteredKeeps`, `OccupiedKeeps` and `ReboundKeeps` that the program's own changes
keep `ReleaseInvariant`. `RehearsalInvariantHolds` adds to it:

* `ScriptStands`: the call the program waits for is the step it is at, so that the
  exit code it compares answers its own question.
* `ApplyOnly`: only Apply has a transaction, and a process that returned has none.
* `Unstained`: the delicate one. `rehearse_table_release.py:920` gives all
  attempts of a migration to another profile by an UPDATE without a filter on
  their status. Done to an attempt that had succeeded or was about to, this would
  leave a receipt that names an attempt of another release. That it does not rests
  on the order of the script alone: until then every Apply of the migration throws
  in its change, so no transaction of it gets further than `open`.
* `Attested`: an answer of Status, Verify or Apply is kept because receipts never
  change (`ReceiptsStand`) and a rebound migration has none.

From it follow `AttestedHolds`, `RehearsedOneWriter`, `RehearsedReceiptsLinked`,
`RehearsedRolledBack`, `RehearsedZeroIsMine`, `RehearsedAppliedOnce` and
`RehearsedLedger` (the refinement of `ReleaseLedger`, in which the program's own
changes are stutters).

`EndsCleanHolds` is the safety half of `LeavesNothing`, for every script. What is
inductive is `FinallyInvariant`: a running child and a switched-on setting are
owed to a block that was entered or is the next step (`Guarded`; between the two
no step can fail, which is why `GuardsAssumption` asks for *at once*), and
`InnerFirst`: the database refuses to end its tracking while a table is tracked,
so in the order in which the blocks run the table's comes before the database's.
Without it the setting would stay on after the last block. That the blocks are run
at all is liveness and stays with TLC.

Assumptions: the named assumptions of each module (the sets are what they are named for;
the special values are not members of them), `RulesKept` in `ImportRulesProofs`, the
non-empty history in `PromotionHolds` and the profile in `OverReviewedHolds`. The
proofs use no property of the file system beyond what the actions say. All
inductive invariants were model-checked on the instances of section 4 before
they were proved.

Only model-checked: of `EvidenceIsTrue` what each program says of its own
migrations and events (`ModuleEvidence` and the others), which is about fixed
scripts that TLC runs through completely, so that there is no parameter to
generalise over (`Attested` and `EndsClean`, its general part, are proved); the
qualification cases, which plant rows and settle targets outside the steps
`BoardFreezeProofs` is about; and the liveness properties `Passes`,
`LeavesNothing`, `EveryFileSettles` and `CommittedIsFinished`, since liveness
under fairness is outside the prover.

## 7. Findings

1. `CLAIM_KS4_IMPORT_FILE:243` replaces `FileDigest` on every repeated claim. The
   protocol says a claimed name is verified against the stored digest and a
   mismatch fails closed. Run `digest_rebound`.
2. `UPDATE_ALL2:195` compares with NULL when `KingdomScanData4` is empty, so the
   first scan is committed and archived but never promoted, nor is any later one;
   `UPDATE_ALL:136` uses `ISNULL(.., 0)`. Run `first_scan`.

Observed while modelling, without a run of their own:

* `CREATE OR ALTER` of a `module_grants_v1` release replaces an object that was
  altered between the check of its image and the statement, although
  `docs/module-release.md:74` calls drift "unresolved and never replayed"; the
  window is inside one transaction and short. `OverReviewed` excludes the profile.
* `dbo.ExportTargetContainment.Table.sql:3` says that no release of a contained
  target exists; `usp_ExportLegacyCloseout` releases it.
* `usp_ExportProviderRequestEventAppend` bounds the scope by 65536 bytes for
  every purpose, while `usp_ExportExecutionStreamTransition` opens enrolment
  streams with up to 524288.

## 8. Not modelled

* Preparations, pools, epochs and output operations as owners of export streams;
  replacement, enrolment, rollover and reconciliation proofs: their evidence is
  computed by the bot and compared as opaque digests.
* The continuation of a failed qualification (`continue_mge_finalisation.py`),
  the paging case N16, the rehearsals of single migrations
  (`rehearse_guided_recovery_migrations.py`, `rehearse_p0_receipts.py`,
  `rehearse_stats_postimages.py`) and the builders of migrations: sequences of
  queries and comparisons without children, faults or concurrency.
* The gates of `Deploy-SqlMigration.ps1` before the runner, promotion, nightly
  export: operator-run checks of files.
* KVK ingest, summaries, registry, votes, reports: set-based data work inside
  single transactions.
* The bot, Discord, Google and Windows: environment actions, each marked
  external in `PROJECT.json`.

## 9. Plan

What could come next, in this order:

1. Replacement and enrolment on top of `ExportStream`, with preparations as
   owners.
2. The continuation of a failed qualification on top of `BoardQualification`,
   and `FrozenStays` inside the qualification, which needs the cases as a constant
   of that module, as the programs are one of `Rehearsal`.
3. A composition in which `ImportPipeline`'s `Commit` and archive drive
   `StatsOutcome`, so that the scan a receipt names is the scan the file got.
