# OperatorOS: specifications, model checking and proofs

TLA+ modules of the parts of OperatorOS that keep state which is hard to get
right: the replacement of the database by a restored backup, the backups and the
lock around it, the deployment of a release, the workflows that write attendance,
and who may log in. Each module is translated
from the source; `PROJECT.json` maps its definitions to the lines they model,
lists the runs, the mutants that show each property can fail, the hazards of
the code, and the theorems.

- [1. The system](#1-the-system)
- [2. Components and what makes them correct](#2-components-and-what-makes-them-correct)
- [3. Plan](#3-plan)
- [4. Restore: AtomicRestore, RestoreSwap](#4-restore-atomicrestore-restoreswap)
- [5. Deployment: ReleaseSwitch, Deployment](#5-deployment-releaseswitch-deployment)
- [6. Attendance: five modules](#6-attendance-five-modules)
- [7. Access: Login, Lockout, LoginRateLimiter](#7-access-login-lockout-loginratelimiter)
- [8. Backups: DataRootLock, BackupStore, BackupCatalogue, Safeguards](#8-backups-datarootlock-backupstore-backupcatalogue-safeguards)
- [9. Runs](#9-runs)
- [10. What is proved](#10-what-is-proved)
- [11. Only model-checked, and not modelled](#11-only-model-checked-and-not-modelled)
- [12. Disagreements between code and documentation](#12-disagreements-between-code-and-documentation)
- [13. Running the tools](#13-running-the-tools)

## 1. The system

OperatorOS is an offline-first administration system for a school. One Bun
process (Elysia, `apps/api`) serves a React application (`apps/web`) and owns
one SQLite file through `bun:sqlite` (`packages/db`). Workbooks come in and go
out through `packages/excel`; requests and responses are typed by
`packages/contracts`. Around the process are three kinds of command: the backup
CLI and the administrator recovery CLI, which open the same data root; the
development runtime; and on a server `scripts/operatoros_deploy.py`, which
installs a release of Podman Quadlet units and a directory of web files.

How the parts interact decides the grain of the models.

- **The API is single-threaded and its handlers are mostly synchronous.** SQLite
  and file calls block, so a handler without an `await` is one step for every
  other request. What interleaves are requests: a preview staged by one is
  committed by another after the data moved. The handlers with an `await` before
  a write are login and setup (password hash), uploads (reading and parsing the
  file) and the start and stop of the server.
- **Processes meet at the data root.** The API (on Linux) and the backup CLI
  take the same `flock`, held by a child process; the development `ensure`
  step and the recovery CLI do not. A restart decides what to do from the
  files it finds.
- **Processes die.** Restore and deployment are sequences of renames, fsyncs
  and restarts that can stop after any of them.
- **Users work in turns.** Corrections, imports, roster changes and progression
  span several requests with anything in between.

## 2. Components and what makes them correct

For each part: its state, its operations, and what has to be true of it.
Parts without a module yet are listed with the reason in `PROJECT.json`.

| Part | State | Operations | Correct when |
| --- | --- | --- | --- |
| Restore transaction (`restore-transaction.ts`, `safety.ts`, `backup-cli.ts`) | four file names in the data root, the SQLite handle, sessions, restore audit | stage, swap, roll back, clean up, restart | the current database survives every failure, crash and power loss; verdict and audit say what happened |
| Backup store (`safety.ts`, `security/backup-*.ts`) | pairs of artifact and metadata, audit lines | create, list, verify, delete, import, evict | a listed backup is whole; retention never removes the newest or the restore's source; a half-removed pair does no harm |
| Data-root lock and server (`backup-operation-lock*.ts`, `server.ts`) | lock-holding child, handle, listening server | acquire, lose, stop, release | two owners never write the database; every start either serves or has released all it took |
| Backup scheduler (`safety.ts`) | one configuration row with `next_run_at`, a timer | tick, configure, start, stop | every due slot is tried once, and an enabled schedule keeps making backups |
| Authentication (`auth/service.ts`) | users, sessions, failure counters | set up, log in, validate, log out, change roles | no session outlives a revocation, a locked or inactive account gets none, setup happens once |
| Login rate limiter (`auth/rate-limit.ts`) | buckets of address, account, and all | consume, prune, evict, reset | no window admits more than its threshold while its bucket is kept; the global bucket always is |
| Attendance review (`attendance.ts`) | records, overrides, history, corrections, periods | override, enter, request, decide, finalize, reopen | overrides agree with evidence and history; finalized dates do not move |
| Attendance import (`attendance-import.ts`, `upload-conflicts.ts`, `machine-attendance-preview.ts`) | batches with staged rows, device identities | preview, retry, commit, apply, link | a commit writes what was previewed, only if nothing moved, and loses no scan |
| Absence ledger (`manual-absence.ts`) | numbered revisions of a class-month | save, submit, reopen | a month with a finalized date is locked; revisions only grow |
| Student import and rollback (`student-import-sessions.ts`, `student-update*.ts`, `roster.ts`) | sessions, applied actions with checksums, students, enrolments | import, preview rollback, commit rollback | each action is compensated at most once, and a session is reported rolled back only when it is |
| Progression (`progression.ts`) | preview batches with versions, enrolments | preview, override row, revalidate, commit | one destination enrolment per student and year, from a source that did not move |
| Data reset (`data-reset.ts`) | tables of a scope, delete guards, document files | reset | all or nothing, with a backup, and the guards are back |
| Report files (`upp-report-files.ts`, `upp-reports.ts`, `student-iom-files.ts`) | files named by content, rows that refer to them | store, refer, remove | a reference always has its file |
| Database migration (`packages/db`) | schema version, old and new file | open, create, migrate | no committed row is lost in the switch of files |
| Deployment (`operatoros_deploy.py`) | unit, its copy, SPA pointer, records, transaction marker, containers | deploy, roll back, recover | between transactions one whole release is installed and served; an interrupted one can be ended |
| Web session (`AuthContext.tsx`, `sessionSync.ts`) | cached user, request epoch, tabs | log in, log out, revalidate, broadcast | one user's data never shows in another's session |
| Masters, grades, staff, calendar, follow-ups | rows | one transaction per request | constraints of SQLite; little that takes several steps |
| Analytics, reports, readiness, data quality | none | queries | arithmetic over rows, tested with fixtures |

The hard behaviours, by kind, with the line where each bites, are the `hazards`
of `PROJECT.json`: 30 that properties cover, three of modelled parts that none
covers, with the reason, and seven of parts that wait for their module.

## 3. Plan

In order of what a failure would cost. Each module takes its parameters as
constants with named assumptions, has one action per operation, and declares no
`RECURSIVE` operator, so that it can be proved about.

1. `AtomicRestore`, `RestoreSwap` and its proofs: **done**.
2. `ReleaseSwitch`, `Deployment` and their proofs: **done**.
3. `AttendanceRecords`, `AttendanceReview`, `AttendanceImport`,
   `AbsenceLedger`, their composition `Attendance`, and its proofs: **done**.
4. `AccessClock`, `LoginRateLimiter`, `Lockout`, `Login` and the proofs of both:
   **done**.
5. `DataRootLock`, `BackupStore`, their composition `Safeguards` with the
   scheduler and the reset, the abstract `BackupCatalogue`, and the proofs:
   **done**.
6. `ReportFiles`: the files the rows refer to, with uploads, the reset's
   clean-up and the installation of attachments by a restore. Property: a
   reference always has its file.
7. `ImportRollback`, `Progression`: provenance and versioned previews.
8. `Migration`, `WebSession`.

## 4. Restore: AtomicRestore, RestoreSwap

`performRestoreSwap` parks the active database as `*.rollback`, renames a
decrypted candidate into its place, reopens it, lets the caller validate it, and
removes the parked file; any failure runs `restorePriorActive`. The API calls it
with its own handle (`safety.ts`), the CLI with none, and the CLI can also
install a database into a root that has none, by a hard link.

**State.** A database file is a *version*, a number: 0 exists at first, each
restore stages the next. `ns` is the directory as processes see it (active,
candidate, rollback, rejected files). `disk` is the set of directories that a
power loss could leave: every rename adds its effect to each member, a directory
fsync that succeeds makes it `{ns}`. `data` says how much of a version's bytes
is on disk. `op` is the restore in progress with its program counter; the steps
are named after the calls. `handleOn` is the file the SQLite handle is open on.
`carried` holds the versions whose backed-up sessions are not revoked, `logged`
those with a completion line. `safe` and `unresolved` are history variables.

**Actions.** One for each fallible call, in the order of the code, each with a
disjunct for its failure (`Fault`) that leads where the code's `catch` leads.
`CleanScratch` is part of `Boot` and `StartCli`, as in the code. `Kill` ends the
process; `PowerLoss` also picks one directory of `disk`, tears any file not
forced, and drops any audit lines. `EnsureFresh` is `dev-db-cli ensure`, which
creates a database although a rollback copy is pending. `OperatorRecover` is the
runbook's procedure and external to the code.

**Refinement.** `AtomicRestore` is the promise: one current database, perhaps one
staged, the databases that a power loss cannot take away, and an answer. The
current database is replaced at one instant (`Commit`), only by one that would
survive with it at that instant, and is never without a surviving copy; the
answer is "replaced" exactly if that happened, and "kept" or "unknown" if not.
`RestoreSwap` implements it (`RestoresAtomically`) with `current` read from
`safe`, `staged` from the candidate of a restore that is under way, `kept` from
the versions whose bytes are forced and whose file is at the active or the
rollback path of every member of `disk`, and `answer` from the verdict of a
restore that has ended. Everything between staging and `LogCompleted`, and
every step of a rollback, is then a `Move`: copies come and go, and nothing else
changes. `Create` is `ensure` in a root without a database.

**Abstractions.** Decryption and validation are one step that may fail
(`Checked`). Closing SQLite in the rollback does not fail. A database's contents
are its version and whether sessions are revoked.

**Fairness.** `WF_vars(Running)`: a synchronous restore runs to its end unless
its process dies. Nothing else is assumed; no restore need ever start.

**Properties.** `DurableSafe`: the database the last settled restore left is
whole and at the active or the rollback path of every directory a power loss
could leave. `HandleOnActive`: no write can go to a parked file.
`VerdictHonest`: "committed", "rolled back", "unchanged" are true of every such
directory when reported. `AuditTruthful`: the completion line is there exactly
for what the API committed. `StrayServedOnlyWhilePending`: another database is
served only beside a rollback copy, which blocks the next restore.
`SettledSessionsRevoked`, `ScratchCleared`, `RestoresAtomically`, and
`RestoreSettles` (liveness).

## 5. Deployment: ReleaseSwitch, Deployment

`operatoros_deploy.py` changes four files (the API unit, its reviewed copy, the
SPA link, `current-release.json`) and restarts two containers between writing a
marker, `active-transaction.json`, and archiving it. A call that raises runs
`restore_snapshot`; a killed command leaves the marker, which blocks every
deployment until `rollback` is called with the release the marker names.

**State.** `unit`, `copy`, `pointer`, `current` are the files; `loaded`, `api`,
`web` are what systemd has loaded and the containers run. `records` are the
retained release records, under a release ID or under `legacy-<commit>`, which
is modelled by the commit. `marker` is the snapshot to return to; its `tried`
says that a restore has begun, `repeated` that a second one has: both are
history, no guard of the unmutated model reads them. `cmd` is the command that
holds the lock.

**Actions.** `BeginDeploy`, `BeginRollback`, `Resume` are the three ways in with
the checks the code makes; then one action per call. `Then(done, next, fails)`
is a call that may raise with its effect done or not; a restart that fails
leaves the old container, none, or the new one that came up too late. The
restore skips what does not differ from the snapshot, as the code does. `Kill`
and `Reboot` may happen at any point; `ServiceUp` is systemd's
`Restart=on-failure` or the operator.

**Refinement.** `ReleaseSwitch` is the promise: one installed release, and a
transaction that opens and then closes on one release, whole. `Deployment`
implements it with `installed` read from the three files when no marker is
there and from the marker's snapshot otherwise (`SwitchesAtomically`).

**Fairness.** `WF(Working)`: the command runs on. `WF(ServiceUp)`: the unit file
has `Restart=on-failure`. `WF(Recover)`: the operator answers a marker with the
command the runbook gives. Under these every transaction closes
(`TransactionsClose`); without the third a marker may stay for ever.

**Abstractions.** Verification of artifacts, attestations, image store and
schema changes nothing installed and is an outcome of the step it precedes.
The text of the marker's phase is not read by any decision. `SIGINT` is a kill:
`except Exception` does not catch it.

## 6. Attendance: five modules

`AttendanceRecords` is the store the workflows share: one record per student
and date, at most one override on it, the override's history, the finalized
dates. `AttendanceReview` has the handlers of `attendance.ts`,
`AttendanceImport` those of the importers, `AbsenceLedger` the class-month
ledger; `Attendance` composes them: a step is a step of one, and the frame of
the others is stated in its `Next`. `MCAttendance` gives TLC instances.

**Every handler here is synchronous, so one action is one request.** What
interleaves are requests of several users. A preview stores proposals that a
later request commits; a correction stores a snapshot that a later request
compares; finalization, device links and other writers act in between.

**Correspondence.** A scan time is there or not; the cutoff's judgement of an
arrival is a choice from `Arrivals`. An override has a `stamp` for `reviewed_at`,
which has a resolution of one second: the next write may or may not get a
different one (`NextStamps`), since that is how the snapshot of a correction
tells two writings apart. `history` keeps the last entry of a record, which is
the one an action property can compare. A decided correction keeps only its
outcome, and a batch's row only what a later request reads: source scans, class,
what the preview showed as existing, and the proposal. `Fresh` is the check of
`commitPreview` row by row; one refused row refuses the commit. `MachineApply`
projects the workbook again inside its transaction, so it depends on nothing
staged. The unique keys of the tables are the functions' shape: one record per
student and date, one override per record, one latest ledger revision per month.

**Properties.** `OriginalIsEvidence`: an override names the status of the
evidence beneath it. It fails if any importer changes a record under an
override, by whatever order of preview, review and commit. `FinalizedFrozen`:
no workflow moves a finalized date or its month's ledger. `HistoryAccounts`:
each change of an override is filed with the status that was in force and the
one that now is, although a correction files what it saw when it was requested.
`ScansKept`: no order of previews and commits loses a scan.
`ContestedStaysOut` does not hold (section 12).

These are safety properties and need no fairness; the code promises no progress
here, since every step waits for a user.

## 7. Access: Login, Lockout, LoginRateLimiter

`Login` is `auth/service.ts` with the recovery CLI, `LoginRateLimiter` is
`auth/rate-limit.ts`; `AccessClock` gives both their time. The limiter stands in
front of the login route and forgets an account when a login succeeds.

**State.** `users` and `sessions` are the rows, `completed` the first-run flag.
`logins` are the logins that wait in `verifyPassword`, each with the hash it has
read, `setups` the setups that wait in `Bun.password.hash`. `buckets` is the
limiter's `Map`. `late`, a history field, marks a login that waited while the CLI
replaced its password; `admitted`, a history variable, has for each key and instant
how many attempts of the last window were admitted at it.

**Actions.** `BeginLogin` is `authenticate` up to the `await`; `FailLogin` and
`PassLogin` are the two transactions after it, which look at the lock again and
at nothing else. `Validate` is every other request's session check, `Recover` the
CLI's transaction, `BeginSetup` and `FinishSetup` the two halves of
`provisionFirstAdmin`. `Consume` prunes, touches three buckets, displaces the
bucket seen longest ago when the table is full, and counts in all three or none.

**Refinement.** `Lockout` is the promise in which nothing waits: a guess is
judged at one instant, a miss adds one, `MaxFailed` misses lock, a lock admits
nobody, and one first account is made. `Login` implements it
(`ImplementsLockout`): concurrent misses lose no count, a lock set meanwhile is
seen, and of two setups that pass the token together the second is refused.

**Properties.** `OldPasswordOnlyWaiting`: after a recovery an open session of the
old password belongs to a login that was waiting when the CLI ran; the code does
not compare the hash again, so this is as much as holds. `SessionsEnd`: no
activity counts at or after the idle or the absolute limit and a revoked session
never changes. `WithinLimits`: a bucket that was never displaced admits no more
than twice its threshold in any window, because windows are fixed; a bucket's
own window no more than the threshold. `WindowsKept`: the server's bucket is
never displaced and a live count falls only by displacement or by its own reset.

**Abstractions.** A password stands for its hash. `is_active` and the role are
constant, since no operation of the code changes them. Buckets seen at the same
instant may be displaced in any order, where the code takes the first inserted.
One clock serves the limiter (monotonic) and the rows (wall clock), so a step of
the wall clock alone is not modelled here. These are safety properties: a login
need never be answered, and no fairness is assumed.

## 8. Backups: DataRootLock, BackupStore, BackupCatalogue, Safeguards

`DataRootLock` has the processes and the lock, `BackupStore` the directory,
`Safeguards` what the processes do: the API makes backups on request, on
schedule, before a restore and before a data reset, and deletes them; the CLI
makes one alone or before a restore.

**State.** `phase` is where a server (`server.ts`) or a CLI run is, `holder`
whose child holds the kernel's lock, `lost` the servers whose child died although
they had not killed it. A start passes through `acquiring` (flock is spawned),
`booting` (it has the lock and becomes the runtime) and `granted` (the child has
noted its parent and said LOCKED) to `serving`, or with an open database to
`failing`. The lock of a server that is gone is held by an `Orphan`, whose child
had noted its parent or was killed, or by a `Stray`, whose child had not;
`adrift` are the servers killed before their child had tried the lock. `art` and `meta` are the two files of each name, by the
number of the snapshot they belong to. `job` is the backup a process is in the
middle of, `slot` is `next_run_at` (0: disabled). `same` knows the data by the
last snapshot that holds the same data, which is how "this backup holds what is
about to be replaced" can be said. `overlapped`, a history variable, becomes true
when two processes use the root at once.

**Actions.** `createBackup` and `publishBackup` are synchronous: no other handler
runs in between, and `backupBusy` is never seen set. Their steps are separate
actions (`Begins`, `Snapshot`, `PlaceArtifact`, `PlaceMetadata`, `Retains`,
`Evicts`, `EvictsMetadata`, `Concludes`) since the process can be killed between
them (`Dies`), each may fail (`BackupFails`), and the clock moves, also back
(`Clock`). `Restores` and `Resets` replace the data; the steps of the swap are
those of `RestoreSwap`. `Polls` stores the next slot before the backup begins.
`Lifecycle` has the lock's steps in a server's life, among them the start that
fails, before the database is open or after it, when the HTTP server is stopped
first. `ChildEnds` has what happens to children: one killed by somebody else, an
orphan's poll of its parent, a child adrift that tries the lock, the end of a
stray.

**Properties.** `LockedWhileInUse`: whoever has the database open holds the lock,
unless somebody else killed its child. `PairsMatch`: what is listed is an
artifact with its own metadata, although names are reused and files of a pair are
placed and removed one by one. `SafetyBackupHolds`: when the data is about to be
replaced, a listed backup holds exactly that data and the restored one is still
listed, also if the clock was set back. `EvictsOldest`: retention takes a backup
off the list only if `Limit` that are not older stay. `SlotOnce`: a slot is
attempted once. `LostStops`: a server that lost its lock ends, wherever in its
life the child's end is noticed. `LockReturns`: a lock whose child has noted its
parent is put to use or comes free, wherever from there to `release()` the start
fails, times out, stops or is killed, while requests are served and children die.
It promises nothing of a child before that: `backup-operation-lock-holder.ts:1`
reads the parent after flock has the lock and the runtime is up, so a server
killed earlier leaves a child that line 3 never ends. Unless its write of LOCKED
fails, it holds the lock, and starts are refused with BACKUP_OPERATION_LOCKED,
until somebody ends it.

**Refinement.** `BackupCatalogue` is the promise without files: a name is listed
with one snapshot, whole, until it is withdrawn, whole; what is listed was the
data when it was; a restore swaps the data of one listed snapshot for that of
another. `Safeguards` implements it (`KeepsCatalogue`) with `listed` read from
the names that have both files. Publishing takes effect at the second rename
and a removal at the first, whatever is killed or fails beside them, and
retention must spare both the backup of what is replaced and the one that
replaces it, or a restore would be none of the catalogue's steps.

**Fairness.** Weak fairness of a server's synchronous work (it runs to its end or
dies) and of the orphan's poll (a 250 ms timer) or the signal it was sent; none of
a stray's end, which nothing in the code brings about; strong fairness of a server's
lifecycle steps: its event loop takes every event in turn, but requests may be
handled first any number of times, so the step is not continuously enabled.

**Abstractions and bounds.** Encryption, payload, checksums and audit lines are
not looked into. Daily, weekly and interval schedules are any later slot, at most
`MaxPeriod` away; a restored database brings any slot. The API never deletes a
file without its other half, and neither does the model. `Overlaps` is a bound:
once a second process uses the root, which takes a lost lock, jobs are dropped
and the processes only come to their ends; the directory's properties are stated
up to that point. The lock is taken on Linux for the canonical data root only,
which is what is modelled. A slot whose server was killed starts again once the
child of its last run has tried the lock, so each slot has one child adrift at
most. `Polls` stores the next slot and begins the backup in one step: a kill
between the two leaves what a kill before the first file leaves. A slot that a
restored database brings back may be due again, and `SlotOnce` does not speak of
it. `operationLockLost` in `server.ts` cannot be seen set
after `onLost` without `stop` running, so its `throw` is not an action of its own.

## 9. Runs

| Run | Module, configuration | Question | Bounds | Result |
| --- | --- | --- | --- | --- |
| `restore_swap` | `RestoreSwap`, `RestoreSwap.cfg` | the ten properties of section 4 | 2 versions after the first, 2 faults, 2 crashes | holds |
| `retry_before_recovery` | `RestoreSwap`, `RetryBeforeRecovery.cfg` | does a failed rollback block the next restore? | 2 versions, 2 faults | violated |
| `deployment` | `MCDeployment`, `Deployment.cfg` | the seven properties of section 5 | 2 releases of 2 commits, 2 faults, 2 crashes | holds, 165 thousand states |
| `recovered_runs` | `MCDeployment`, `RecoveredRuns.cfg` | does a second attempt to restore leave the restored release running? | 2 faults, 1 crash | violated |
| `status_after_rollback` | `MCDeployment`, `StatusAfterRollback.cfg` | does `status` accept a correct rollback? | no faults | violated |
| `shared_commit` | `MCDeployment`, `SharedCommit.cfg` | is what was checked what is restored, with two builds of a commit? | 1 crash | violated |
| `attendance_review` | `MCAttendance`, `AttendanceReview.cfg` | reviews and corrections in depth | 1 date, 1 batch, 2 stamps, 2 revisions, 3 statuses | holds, 957 thousand states |
| `attendance_import` | `MCAttendance`, `AttendanceImport.cfg` | previews and commits in depth | 2 dates, 2 batches, 3 workbooks | holds, 553 thousand states |
| `contested_rows` | `MCAttendance`, `ContestedRows.cfg` | does a contradicted row stay out? | 1 date, 2 batches | violated |
| `login` | `MCLogin`, `Login.cfg` | waiting logins and setups against the lockout, the recovery CLI and both session limits | 2 accounts, 3 waiting logins, 2 waiting setups, 1 session, 5 instants | holds, 930 thousand states |
| `login_rate_limiter` | `MCLoginRateLimiter`, `LoginRateLimiter.cfg` | counts, windows and displacement | 2 addresses, 2 accounts, 3 entries, 6 instants, window of 2 | holds, 31 thousand states |
| `safeguards` | `MCSafeguards`, `Safeguards.cfg` | backups, retention, schedule and lock with kills and failures | 1 server slot, 1 CLI, 2 snapshots, retention limit 1, 2 instants | holds, 213 thousand states |

**Why the bounds are enough.** Restores: two versions let a second restore find
what a failed first one left; two faults let the rollback fail too, which is
where verdicts differ; two crashes let a restart itself be interrupted. A third
fault adds only a failure of best-effort clean-up. Deployment: with two faults
the restore fails as well as the switch, with two crashes the retry of a restore
does; two releases suffice because a transaction involves the installed and one
other, and a third commit would only add records nobody reads. Attendance: a
record interferes with another only inside one batch or one mass override, both
of which two dates exhibit; two batches allow a preview and the retry of its
conflicts, or two previews of the same evidence; two stamps allow both answers
to "was the override written again since?". Logins: three that wait exceed
`MaxFailed` of two, so that a miss waits behind the one that locks; two accounts
and two setups show interference; five instants contain a lock, its end and both
limits of a session. The limiter has one entry fewer than the buckets of two
logins, so live windows are displaced, and more than two windows of time.
Backups: with a limit of one every second backup evicts; two instants and a clock
that goes back give every order of two names and dates; server and CLI are the
two processes a root can have, and a third only repeats the second's refusal. A
run with three snapshots and the safety properties alone was also made (2.9
million states). The theorems of section 10 have no bounds.

The runs of restores, deployment and attendance check for deadlock: users and
operators can always do something, so a state without a successor would be an
error of the model. The other three switch it off because their bounds end time
or, after an overlap, every process; what must go on there is stated as a
liveness property. The
runs of all four actors of attendance share one composition, so that every
action fires in at least one of them.

## 10. What is proved

`tlapm` checks every leaf; there are no axioms. Constants are only assumed to
be what the modules' named assumptions say, which the runs evaluate.

**RestoreSwapProofs.** Every safety invariant of section 4, for any numbers of
versions, faults and crashes. `CurrentSurvives` is `[]DurableSafe`. `DurableSafe` says where the current
version is but not why it stays there. The inductive invariant `SInv` adds that
until the commit the prior file of a running restore is the current version
(`PriorIsSafe`), that new files never take its number (`Numbered`), that a
restore lives no longer than its process (`DownIsIdle`), and, step by step, where
the swap has put the prior file and the candidate on every possible disk
(`Places`). Every rename keeps one of the two names because of `Places`: once the
directory was forced between the two renames the prior file is the rollback copy
of every disk (`RollbackForced`), so the promotion and a rollback that parks the
candidate cannot lose it; before `logCompleted` the candidate is durable and
active on every disk, so it may become the current version there.

The other six invariants are proved from `HInv`, on top of `SInv`: the handle is
closed from the moment the swap closes it until the swap or its rollback opens
it (`HandleClosed`), the active path is where the step of the swap has put it
(`ActivePath`), a restore belongs to its own process and its candidate is never
its prior file (`OwnsRestore`, which needs that no place names a number not yet
given out, `NumbersTaken`), the rollback's verdict is one of two
(`RollbackVerdict`), and neither the audit nor the sessions of the candidate get
ahead of the commit (`CandidateLogged`, `CandidateRevoked`).
`StrayOnlyWhilePending` needs no invariant of its own: the current database is at
one of two places by `DurableSafe`, the handle is on the active one, so a stray
there leaves the current one as the rollback copy.

`RestoreIsAtomic` proves the refinement, initial states and every step. On top of
`HInv` it needs `CommitTold`: what each step of a restore implies about whether
the commit has happened and about the verdict on its way, through the rollback
and the failures of the clean-up, so that the answer given at the end is true of
the commit that happened or did not several steps before. `DurableSafe` is what
makes every other step a `Move`.

**DeploymentProofs.** `TypeCorrect`, and under `DistinctCommits` (one build per
commit) `CoherentAlways`, `RecoverableAlways` and `SwitchIsAtomic`. The
assumption is needed: finding 4 of section 12 shows what happens with two builds of
one commit. `IInv` connects files, records, marker and program counter:
a retained record describes the one build it is filed under (`Filing`), the
current record says what a retained one says (`Cites`), what is installed can be
named by its commit once anything is retained (`Adopted`), the marker's snapshot
fits the record it cites (`MarkerSound`), a command has a retained goal
(`Purpose`), and each step finds the files as far as the command has come
(`Progress`). `SwitchIsAtomic` proves the
initial states and the steps of the refinement: every step of `Deployment` is
`Begin`, `Close` or a stutter of `ReleaseSwitch`.

`ServedAlways` and `SuccessAlwaysServes` need no assumption on commits. `JInv`
follows the containers: before any attempt to restore, what has not been changed
is being served (`Untouched`), the switch and the first attempt have brought them
as far as their step (`Switched`, `Restored`), and a restore is marked as tried
before it changes a file (`Tried`). The first attempt is what makes it inductive:
it restarts what differs from the snapshot, and `Untouched` says the rest was
never restarted onto anything else. A second attempt finds files the first put
back and nothing to restart, which is finding 2.

**AttendanceProofs.** `TypeCorrect`, `OriginalAlways`, and the action properties
`FinalizedAlways`, `HistoryTrue` and `ScansAlways`, for any students, dates,
batches and workbooks. `OriginalIsEvidence` is not inductive: a commit writes
what an earlier preview staged. `IInv` therefore says of every staged row what
its proposal may be (`RowsSound`): a committable row proposes well-formed
evidence, a new row saw no record, an unchanged row proposes what it saw, and a
proposal keeps the scans of what it saw. Together with the commit's own test
that the record is what the preview saw, a commit changes no record under an
override and loses no scan. Each handler has a lemma that bounds its effect
(`ReviewEffect`, `ImportEffect`), and the theorems are stated from those, so a
new handler needs one lemma.

**LoginProofs.** `LoginTypeCorrect`, `OldPasswordGone`, `SessionsDoEnd` and
`LoginImplementsLockout`, for any accounts, waiting logins and periods. `Inv`
adds what a session's expiry is bounded by (`SessionsBounded`) and that a waiting
login holds its account's hash unless the CLI came in between
(`WaitingCurrent`); without the second nothing connects the password a session
was opened with to the account's.

**LoginRateLimiterProofs.** `TypeCorrect`, `WithinLimitsAlways` and
`WindowsKeptAlways`, for any addresses, accounts, thresholds, window and
capacity. `TypeOK` bounds the table, which one attempt touches up to six times
(three looks, three counts), each of them perhaps a displacement. `Advanced` says
what one touch leaves true of any other bucket, and composes; `Carried` says what
became of one bucket after a number of its own attempts. `WithinLimits` is about
any window, the code only has fixed ones. `Limited` makes it inductive: the last
window holds at most `Threshold` plus what the running bucket has counted, and
since that bucket was made no more were admitted than it counted; when it runs
out and a new one is made, its count is at most `Threshold` and starts again
at 0. `MaxEntries >= 3` is assumed, as the constructor demands; the code's
value is 10,000.

**SafeguardsProofs.** `SafeguardsTypeCorrect`, `LockHeldWhileInUse`,
`PairsDoMatch`, `SafetyBackupKept` and `SlotAttemptedOnce`, for any servers, CLI
runs, retention limit and clock. `Locks` extends the lock property back to the
moment the server is granted the lock, and a CLI at work has it for certain. The directory's properties rest on two invariants:
`Alone`, until two processes overlap one at most uses the root and only it has a
job; and `Placed`, what the directory holds at each step of a job (`Working`) -
a chosen name is vacant, a placed artifact has its job's snapshot, the snapshot is
still the data, and neither the new backup nor the restored one is on the list of
what to evict.

`EvictsOldestAlways` is the action property. Names are compared by creation,
second and suffix, a strict order on what is listed (`NewerOrder`). `ExcessSpares`
takes, of everything beyond the limit, one with the fewest newer names (the
proper subset order on finite sets is well founded, which the library proves):
those newer ones are at least `Limit`, none of them beyond the limit, and as
recent as everything beyond. `Spared` carries this through the pass, in which
names leave the list one after the other, removals fail, and a half-removed name
is off the list already.

`CatalogueKept` proves that `Safeguards` implements `BackupCatalogue`. It adds one
invariant to those above: the candidate of a restore was made of what the backup
it restores holds (`Sourced`), because that backup stays listed and no file that
is placed or removed meanwhile is one of its two.

## 11. Only model-checked, and not modelled

Left to TLC: the liveness properties `RestoreSettles`, `TransactionsClose`,
`LostStops` and `LockReturns`, and the fairness half of `SwitchesAtomically`
(fairness and `ENABLED` are beyond the prover). Every other property of a passing
run is proved for all values of the constants. Nothing recursive over data is
specified, so no theorem needs an induction that the provers cannot do.

Not modelled inside the modelled parts:

- RestoreSwap: the content of databases, encryption, the safety backup before a
  restore (one of the outcomes of `Checked`), the name patterns of scratch files.
- Deployment: power loss (the SPA link is replaced without an fsync of its
  directory, a listed hazard), container crashes outside restarts, the image
  store.
- Attendance: users and capabilities beyond who may approve what, clock times,
  class and enrolment filters, the totals of the ledger, follow-ups, upload
  logs, and the audit tables other than the override history. Deleting records
  is done by the data reset only, which is not part of the composition.
- Access: capabilities, the setup token and cookie, the audit of logins.
- Backups: the content of artifacts, downloads, audit lines, scratch directories
  (an interrupted CLI backup leaves one that no start removes), the CLI's
  migration and disposable restore, the files of a reset.

The parts of section 2 without a module are left out for the reasons given with
each in `PROJECT.json`: some wait for their place in the plan, the others are
queries, layouts, types or single transactions in which a model checker has
nothing to interleave.

## 12. Disagreements between code and documentation

Five runs expect a violation. Each checks one sentence the repository says of
itself, quoted in `PROJECT.json`.

1. `retry_before_recovery`: the runbook says a rollback that could not be
   verified requires operator recovery before a retry; the only gate is a
   `*.rollback` file, which is already renamed back when the last two steps of
   the rollback fail.
2. `recovered_runs`: the second attempt of a restore compares files the first
   attempt put back, so it restarts nothing and archives the transaction with
   the failed release still running.
3. `status_after_rollback`: after a rollback to a `legacy-` record the name in
   the current record is not that of the SPA directory and `status` reports an
   inconsistency.
4. `shared_commit`: the record of what is installed is kept per commit, so with
   two builds of one commit the recovery checks one and restores the other.
5. `contested_rows`: a retried conflict is rebuilt as a workbook without
   duplicates, so a row the workbook contradicts becomes committable.

## 13. Running the tools

    tlc -workers 2 -config Deployment.cfg MCDeployment
    tlc -workers 2 -config RestoreSwap.cfg RestoreSwap
    tlapm AttendanceProofs.tla

A mutant of a definition `Op` stands before it as `Op_Something`, with the bug
in its comment; `PROJECT.json` pairs it with the property that catches it. To try
one, replace the body of `Op` by a call of the mutant and run the configuration.
