---------------------------- MODULE RestoreSwap ----------------------------
(***************************************************************************)
(* The replacement of the active SQLite file by a restored one             *)
(* (apps/api/src/domains/restore-transaction.ts), driven by the API        *)
(* restore (domains/safety.ts) and by the restore CLI (backup-cli.ts),     *)
(* under file-system failures, killed processes and power loss, and what   *)
(* the next start does with the files it finds.                            *)
(*                                                                         *)
(* A database file is a version: 0 is the database the data root starts    *)
(* with, each restore stages the next one.  The directory entries of the   *)
(* data root are one record; `disk` holds every such record that a power   *)
(* loss could leave, so a directory fsync makes it a singleton.            *)
(***************************************************************************)
EXTENDS Naturals

CONSTANTS
  None,         \* no file at a path, no open handle
  MaxVersions,  \* bound: databases staged or created after the first
  MaxFaults,    \* bound: file-system calls that fail
  MaxCrashes    \* bound: killed processes and power losses

ASSUME BoundsAssumption ==
  /\ MaxVersions \in Nat /\ MaxFaults \in Nat /\ MaxCrashes \in Nat
  /\ None \notin Nat

VARIABLES
  ns,         \* directory entries as the running processes see them
  disk,       \* directory records a power loss can leave behind
  data,       \* how much of each version's bytes has reached the disk
  carried,    \* versions holding backed-up sessions that are not revoked
  logged,     \* versions with a restore_completed audit record
  mode,       \* owner of the data-root lock: "api", "cli", or "down"
  handleOn,   \* version the owner's SQLite handle is open on
  op,         \* the restore in progress, or the last one's verdict
  safe,       \* history: version the last settled restore left current
  unresolved, \* history: a rollback could not be verified, no operator since
  budget      \* versions, faults and crashes used so far

vars == <<ns, disk, data, carried, logged, mode, handleOn, op, safe,
          unresolved, budget>>

Version == 0..MaxVersions
Slot    == Version \union {None}
Dir     == [active : Slot, candidate : Slot, rollback : Slot,
            rejected : SUBSET Version]

SwapStep == {"syncCandidate", "close", "parkActive", "syncParked", "promote",
             "syncPromoted", "reopen", "afterSwap", "syncCommit",
             "logCompleted", "dropRollback", "syncDropped"}
RollbackStep == {"rbPark", "rbMove", "rbSync", "rbReopen", "rbDrop"}
InstallStep  == {"link", "checkLink", "unlink"}
Step    == {"idle", "stuck", "staged", "finally"}
             \union SwapStep \union RollbackStep \union InstallStep
Outcome == {"none", "not_applied", "committed", "rolled_back", "unchanged",
            "recovery_required", "interrupted"}

TypeOK ==
  /\ ns \in Dir
  /\ disk \in SUBSET Dir
  /\ ns \in disk
  /\ data \in [Version -> {"absent", "written", "durable", "torn"}]
  /\ carried \in SUBSET Version
  /\ logged \in SUBSET Version
  /\ mode \in {"api", "cli", "down"}
  /\ handleOn \in Slot
  /\ op \in [step : Step, tool : {"api", "cli"}, prior : Slot, cand : Slot,
             parked : Slot, verdict : Outcome]
  /\ safe \in Slot
  /\ unresolved \in BOOLEAN
  /\ budget \in [versions : 0..MaxVersions, faults : 0..MaxFaults,
                 crashes : 0..MaxCrashes]

----------------------------------------------------------------------------
(* File-system calls.                                                      *)

Pending == ns.rollback # None   \* hasPendingRestoreRollback

\* A rename, link or unlink: seen at once, on disk or not until a fsync.
\* Changes not yet forced may reach the disk in any combination.
Rebind(Change(_)) ==
  /\ ns' = Change(ns)
  /\ disk' = disk \union {Change(d) : d \in disk}

\* A directory fsync that succeeds forces the entries as they are.
SyncDir == disk' = {ns} /\ UNCHANGED ns

SyncFile(v) == data' = [data EXCEPT ![v] = "durable"]

SameDir   == UNCHANGED <<ns, disk>>
SameFiles == UNCHANGED <<ns, disk, data>>

\* One file-system call throws; the bound keeps the faults finite.
Fault ==
  /\ budget.faults < MaxFaults
  /\ budget' = [budget EXCEPT !.faults = @ + 1]

NoFault == UNCHANGED budget

Readable(v) == v # None /\ data[v] \in {"written", "durable"}

\* The entry changes the swap makes.
Park(d)     == [d EXCEPT !.active = None, !.rollback = op.prior]
PutUp(d)    == [d EXCEPT !.active = op.cand, !.candidate = None]
Reject(d)   == [d EXCEPT !.active = None, !.rejected = @ \union {ns.active}]
BringBack(d) == [d EXCEPT !.active = ns.rollback, !.rollback = None]
PutBack(d)  == [d EXCEPT !.active = op.parked, !.rejected = @ \ {op.parked}]
Discard(d)  == [d EXCEPT !.rejected = @ \ {op.parked}]
DropCopy(d) == [d EXCEPT !.rollback = None]
LinkUp(d)   == [d EXCEPT !.active = op.cand]
Unlinked(d) == [d EXCEPT !.active = None]
\* Mutant: the finally block deletes every file the restore made.
Cleaned_AllFiles(d) == [d EXCEPT !.candidate = None, !.rollback = None]

Cleaned(d)  == [d EXCEPT !.candidate = None]

----------------------------------------------------------------------------
(* Where the restore is, and where it goes next.                           *)

At(step) == mode # "down" /\ op.step = step

Goto(step) == op' = [op EXCEPT !.step = step] /\ UNCHANGED unresolved

\* Leave the transaction with a verdict, through the caller's finally block.
Leave(verdict) ==
  /\ op' = [op EXCEPT !.step = "finally", !.verdict = verdict]
  /\ unresolved' = (unresolved \/ verdict = "recovery_required")

\* Enter restorePriorActive, which first closes the handle.  The verdict is
\* what the caller will report when the prior file is back and verified.
RollBack(verdict) ==
  /\ op' = [op EXCEPT !.step = "rbPark", !.verdict = verdict]
  /\ handleOn' = None
  /\ UNCHANGED unresolved

\* Most steps of the swap touch neither sessions, audit, lock nor history.
Frame == UNCHANGED <<carried, logged, mode, safe>>

----------------------------------------------------------------------------
(* Staging: the candidate is decrypted next to the active file, checked,   *)
(* and the safety backup and the audit storage are verified.               *)

NextVersion == budget.versions + 1

Stage(tool) ==
  /\ mode = tool
  /\ op.step = "idle"
  /\ ~Pending
  /\ tool = "api" => handleOn # None  \* preflight reads through the handle
  /\ budget.versions < MaxVersions
  /\ budget' = [budget EXCEPT !.versions = @ + 1]
  /\ LET Staged(d) == [d EXCEPT !.candidate = NextVersion] IN Rebind(Staged)
  /\ data' = [data EXCEPT ![NextVersion] = "written"]
  /\ carried' = IF tool = "api" THEN carried \union {NextVersion} ELSE carried
  /\ op' = [step |-> "staged", tool |-> tool, prior |-> ns.active,
            cand |-> NextVersion, parked |-> None, verdict |-> "none"]
  /\ UNCHANGED <<logged, mode, handleOn, safe, unresolved>>

Checked ==
  /\ At("staged")
  /\ \/ NoFault /\ Goto(IF op.prior = None THEN "link" ELSE "syncCandidate")
     \/ Fault /\ Leave("not_applied")
  /\ SameFiles /\ UNCHANGED handleOn /\ Frame

----------------------------------------------------------------------------
(* performRestoreSwap.                                                     *)

SyncCandidate ==
  /\ At("syncCandidate")
  /\ \/ NoFault /\ SyncFile(op.cand) /\ SyncDir /\ Goto("close")
     \/ Fault /\ SameFiles /\ Leave("unchanged")
  /\ UNCHANGED handleOn /\ Frame

\* Mutant: the swap does not close the handle.
Close_Skipped ==
  /\ At("close")
  /\ NoFault /\ UNCHANGED handleOn /\ Goto("parkActive")
  /\ SameFiles /\ Frame

Close ==
  /\ At("close")
  /\ \/ NoFault /\ handleOn' = None /\ Goto("parkActive")
     \/ Fault /\ UNCHANGED handleOn /\ Leave("unchanged")
  /\ SameFiles /\ Frame

\* syncFile and rename in one try: if either throws the active file is still
\* in place, and reopening it is attempted without looking at the result.
ParkActive ==
  /\ At("parkActive")
  /\ \/ /\ NoFault /\ SyncFile(op.prior) /\ Rebind(Park)
        /\ Goto("syncParked") /\ UNCHANGED handleOn
     \/ Fault /\ SameFiles /\ handleOn' \in {None, ns.active} /\ Leave("unchanged")
  /\ Frame

\* Mutant: the directory is not forced between the two renames.
SyncParked_Skipped ==
  /\ At("syncParked")
  /\ NoFault /\ SameDir /\ Goto("promote") /\ UNCHANGED <<handleOn, data>> /\ Frame

SyncParked ==
  /\ At("syncParked")
  /\ \/ NoFault /\ SyncDir /\ Goto("promote") /\ UNCHANGED handleOn
     \/ Fault /\ SameDir /\ RollBack("unchanged")
  /\ UNCHANGED data /\ Frame

Promote ==
  /\ At("promote")
  /\ \/ NoFault /\ Rebind(PutUp) /\ Goto("syncPromoted") /\ UNCHANGED handleOn
     \/ Fault /\ SameDir /\ RollBack("rolled_back")
  /\ UNCHANGED data /\ Frame

SyncPromoted ==
  /\ At("syncPromoted")
  /\ \/ NoFault /\ SyncDir /\ Goto("reopen") /\ UNCHANGED handleOn
     \/ Fault /\ SameDir /\ RollBack("rolled_back")
  /\ UNCHANGED data /\ Frame

Reopen ==
  /\ At("reopen")
  /\ \/ NoFault /\ Readable(ns.active) /\ handleOn' = ns.active /\ Goto("afterSwap")
     \/ Fault /\ RollBack("rolled_back")
  /\ SameFiles /\ Frame

\* Mutant: the API trusts the backup's sessions.
AfterSwap_NoRevoke ==
  /\ At("afterSwap")
  /\ \/ /\ NoFault /\ Goto("syncCommit")
        /\ handleOn' = IF op.tool = "api" THEN handleOn ELSE None
     \/ Fault /\ RollBack("rolled_back")
  /\ SameFiles /\ Frame

\* The API revokes the restored sessions here and keeps its handle; the CLI
\* verifies that staging revoked them and closes.
AfterSwap ==
  /\ At("afterSwap")
  /\ carried' = IF op.tool = "api" THEN carried \ {op.cand} ELSE carried
  /\ \/ /\ NoFault /\ Goto("syncCommit")
        /\ handleOn' = IF op.tool = "api" THEN handleOn ELSE None
     \/ Fault /\ RollBack("rolled_back")
  /\ SameFiles /\ UNCHANGED <<logged, mode, safe>>

\* Mutant: the completion record is appended before the commit is forced.
SyncCommit_LogsFirst ==
  /\ At("syncCommit")
  /\ logged' = IF op.tool = "api" THEN logged \union {op.cand} ELSE logged
  /\ \/ /\ NoFault /\ SyncFile(op.cand) /\ SyncDir
        /\ Goto("logCompleted") /\ UNCHANGED handleOn
     \/ Fault /\ SameFiles /\ RollBack("rolled_back")
  /\ UNCHANGED <<carried, mode, safe>>

SyncCommit ==
  /\ At("syncCommit")
  /\ \/ /\ NoFault /\ SyncFile(op.cand) /\ SyncDir
        /\ Goto("logCompleted") /\ UNCHANGED handleOn
     \/ Fault /\ SameFiles /\ RollBack("rolled_back")
  /\ Frame

\* beforeCommit: the API's completion record is the last step that can still
\* roll back.  The CLI has none.  Past it the candidate is the current one.
LogCompleted ==
  /\ At("logCompleted")
  /\ \/ /\ NoFault /\ safe' = op.cand /\ Goto("dropRollback") /\ UNCHANGED handleOn
        /\ logged' = IF op.tool = "api" THEN logged \union {op.cand} ELSE logged
     \/ op.tool = "api" /\ Fault /\ RollBack("rolled_back") /\ UNCHANGED <<logged, safe>>
  /\ SameFiles /\ UNCHANGED <<carried, mode>>

DropRollback ==
  /\ At("dropRollback")
  /\ \/ NoFault /\ Rebind(DropCopy)
     \/ Fault /\ SameDir
  /\ Goto("syncDropped")
  /\ UNCHANGED <<data, handleOn>> /\ Frame

\* Mutant: a clean-up that fails is reported as a failed restore.
SyncDropped_Fails ==
  /\ At("syncDropped")
  /\ \/ NoFault /\ SyncDir /\ Leave("committed")
     \/ Fault /\ SameDir /\ Leave("recovery_required")
  /\ UNCHANGED <<data, handleOn>> /\ Frame

SyncDropped ==
  /\ At("syncDropped")
  /\ \/ NoFault /\ SyncDir
     \/ Fault /\ SameDir
  /\ Leave("committed")
  /\ UNCHANGED <<data, handleOn>> /\ Frame

----------------------------------------------------------------------------
(* restorePriorActive.                                                     *)

\* Mutant: the active path is parked without asking whether a file is there.
RbPark_Unchecked ==
  /\ At("rbPark")
  /\ \/ /\ NoFault /\ Rebind(Reject)
        /\ op' = [op EXCEPT !.step = "rbMove", !.parked = ns.active]
        /\ UNCHANGED unresolved
     \/ Fault /\ SameDir /\ Leave("recovery_required")
  /\ UNCHANGED <<data, handleOn>> /\ Frame

\* The directory fsync after parking is best effort, so nothing relies on it:
\* leaving the entries unforced covers both of its results.
RbPark ==
  /\ At("rbPark")
  /\ \/ ns.active = None /\ NoFault /\ SameDir /\ Goto("rbMove")
     \/ /\ ns.active # None /\ NoFault /\ Rebind(Reject)
        /\ op' = [op EXCEPT !.step = "rbMove", !.parked = ns.active]
        /\ UNCHANGED unresolved
     \/ ns.active # None /\ Fault /\ SameDir /\ Leave("recovery_required")
  /\ UNCHANGED <<data, handleOn>> /\ Frame

\* If the prior file cannot be moved back the displaced copy is, quietly.
RbMove ==
  /\ At("rbMove")
  /\ \/ NoFault /\ Rebind(BringBack) /\ Goto("rbSync") /\ UNCHANGED handleOn
     \/ /\ Fault /\ Leave("recovery_required")
        /\ \/ op.parked # None /\ Rebind(PutBack) /\ handleOn' \in {None, op.parked}
           \/ SameDir /\ UNCHANGED handleOn
  /\ UNCHANGED data /\ Frame

\* Mutant: a failed directory fsync is ignored here too.
RbSync_Ignored ==
  /\ At("rbSync")
  /\ \/ NoFault /\ SyncDir
     \/ Fault /\ SameDir
  /\ Goto("rbReopen")
  /\ UNCHANGED <<data, handleOn>> /\ Frame

RbSync ==
  /\ At("rbSync")
  /\ \/ NoFault /\ SyncDir /\ Goto("rbReopen")
     \/ Fault /\ SameDir /\ Leave("recovery_required")
  /\ UNCHANGED <<data, handleOn>> /\ Frame

RbReopen ==
  /\ At("rbReopen")
  /\ \/ NoFault /\ Readable(ns.active) /\ handleOn' = ns.active /\ Goto("rbDrop")
     \/ Fault /\ UNCHANGED handleOn /\ Leave("recovery_required")
  /\ SameFiles /\ Frame

RbDrop ==
  /\ At("rbDrop")
  /\ \/ NoFault /\ IF op.parked = None THEN SameDir ELSE Rebind(Discard)
     \/ Fault /\ SameDir
  /\ Leave(op.verdict)
  /\ UNCHANGED <<data, handleOn>> /\ Frame

----------------------------------------------------------------------------
(* CLI restore into a data root without an active database.                *)

Link ==
  /\ At("link")
  /\ \/ NoFault /\ SyncFile(op.cand) /\ Rebind(LinkUp) /\ Goto("checkLink")
     \/ Fault /\ SameFiles /\ Leave("not_applied")
  /\ UNCHANGED handleOn /\ Frame

CheckLink ==
  /\ At("checkLink")
  /\ \/ NoFault /\ SyncDir /\ safe' = op.cand /\ Leave("committed")
     \/ Fault /\ SameDir /\ UNCHANGED safe /\ Goto("unlink")
  /\ UNCHANGED <<data, handleOn, carried, logged, mode>>

Unlink ==
  /\ At("unlink")
  /\ \/ NoFault /\ ns' = Unlinked(ns) /\ disk' = {Unlinked(ns)} /\ Leave("not_applied")
     \/ /\ Fault /\ Leave("recovery_required")
        /\ SameDir \/ Rebind(Unlinked)
  /\ UNCHANGED <<data, handleOn>> /\ Frame

----------------------------------------------------------------------------
(* The caller's finally block.                                             *)

\* Mutant: the finally block expects a candidate to remove.
Settle_NeedsCandidate ==
  /\ At("finally") /\ ns.candidate # None
  /\ NoFault /\ Rebind(Cleaned) /\ op' = [op EXCEPT !.step = "idle"]
  /\ mode' = IF op.tool = "api" THEN mode ELSE "down"
  /\ handleOn' = IF op.tool = "api" THEN handleOn ELSE None
  /\ UNCHANGED <<data, carried, logged, safe, unresolved>>

\* The CLI closes, appends its completion record on a best effort and exits.  If the
\* API cannot remove the candidate, restoreBusy is never reset.
Settle ==
  /\ At("finally")
  /\ \/ NoFault /\ Rebind(Cleaned) /\ op' = [op EXCEPT !.step = "idle"]
     \/ /\ Fault /\ ns.candidate # None /\ SameDir
        /\ op' = [op EXCEPT !.step = IF op.tool = "api" THEN "stuck" ELSE "idle"]
  /\ IF op.tool = "api" THEN UNCHANGED <<mode, handleOn, logged>>
     ELSE /\ mode' = "down" /\ handleOn' = None
          /\ \/ op.verdict = "committed" /\ logged' = logged \union {op.cand}
             \/ UNCHANGED logged
  /\ UNCHANGED <<data, carried, safe, unresolved>>

----------------------------------------------------------------------------
(* Processes starting and ending.                                          *)

\* Mutant: scratch is left to the next restore.
CleanScratch_Never == SameDir

\* cleanupInterruptedBackupScratch, run by whoever has just taken the lock.
CleanScratch == IF Pending THEN SameDir ELSE Rebind(Cleaned)

\* startServer: lock, cleanup, openDatabase; a failed open releases the lock.
Boot ==
  /\ mode = "down"
  /\ CleanScratch
  /\ IF Readable(ns.active) THEN mode' = "api" /\ handleOn' = ns.active
                            ELSE UNCHANGED <<mode, handleOn>>
  /\ UNCHANGED <<data, carried, logged, op, safe, unresolved, budget>>

StartCli ==
  /\ mode = "down"
  /\ CleanScratch
  /\ mode' = "cli"
  /\ UNCHANGED <<data, carried, logged, handleOn, op, safe, unresolved, budget>>

Stop ==
  /\ mode # "down"
  /\ op.step \in {"idle", "stuck"}
  /\ mode' = "down"
  /\ handleOn' = None
  /\ op' = [op EXCEPT !.step = "idle"]
  /\ UNCHANGED <<ns, disk, data, carried, logged, safe, unresolved, budget>>

\* start-dev.sh runs `dev-db-cli ensure` first: a missing database is created,
\* whether or not a rollback copy is pending.
EnsureFresh ==
  /\ mode = "down"
  /\ ns.active = None
  /\ budget.versions < MaxVersions
  /\ budget' = [budget EXCEPT !.versions = @ + 1]
  /\ ns' = [ns EXCEPT !.active = NextVersion]
  /\ disk' = {ns'}
  /\ SyncFile(NextVersion)
  /\ safe' = IF Pending THEN safe ELSE NextVersion
  /\ UNCHANGED <<carried, logged, mode, handleOn, op, unresolved>>

Crash ==
  /\ budget.crashes < MaxCrashes
  /\ budget' = [budget EXCEPT !.crashes = @ + 1]
  /\ mode' = "down"
  /\ handleOn' = None
  /\ op' = [op EXCEPT !.step = "idle",
              !.verdict = IF op.step = "idle" THEN @ ELSE "interrupted"]
  /\ UNCHANGED <<carried, safe, unresolved>>

Kill == mode # "down" /\ Crash /\ SameFiles /\ UNCHANGED logged

\* What was not forced may be lost: entries, file bytes, audit lines.
PowerLoss ==
  /\ Crash
  /\ ns' \in disk
  /\ disk' = {ns'}
  /\ \E torn \in SUBSET {v \in Version : data[v] = "written"} :
       data' = [v \in Version |->
                  IF v \in torn THEN "torn"
                  ELSE IF data[v] = "written" THEN "durable" ELSE data[v]]
  /\ logged' \in SUBSET logged

\* External: the runbook's operator recovery puts the current database back at
\* the active path and removes the rollback copy, with every process stopped.
OperatorRecover ==
  /\ mode = "down"
  /\ Pending \/ unresolved \/ ~Readable(ns.active)
  /\ ns' = [ns EXCEPT !.active = safe, !.rollback = None]
  /\ disk' = {ns'}
  /\ unresolved' = FALSE
  /\ UNCHANGED <<data, carried, logged, mode, handleOn, op, safe, budget>>

----------------------------------------------------------------------------
InitFrom(first) ==
  /\ ns = [active |-> first, candidate |-> None, rollback |-> None, rejected |-> {}]
  /\ disk = {ns}
  /\ data = [v \in Version |-> IF v = first THEN "durable" ELSE "absent"]
  /\ carried = {} /\ logged = {}
  /\ mode = "down" /\ handleOn = None
  /\ op = [step |-> "idle", tool |-> "api", prior |-> None, cand |-> None,
           parked |-> None, verdict |-> "none"]
  /\ safe = first
  /\ unresolved = FALSE
  /\ budget = [versions |-> 0, faults |-> 0, crashes |-> 0]

\* With a database, or on a data root that has none yet.
Init == \E first \in {0, None} : InitFrom(first)

SwapNext ==
  \/ SyncCandidate \/ Close \/ ParkActive \/ SyncParked \/ Promote
  \/ SyncPromoted \/ Reopen \/ AfterSwap \/ SyncCommit \/ LogCompleted
  \/ DropRollback \/ SyncDropped

RollbackNext == RbPark \/ RbMove \/ RbSync \/ RbReopen \/ RbDrop

InstallNext == Link \/ CheckLink \/ Unlink

\* The restore runs synchronously: no other request is served in between.
Running == Checked \/ SwapNext \/ RollbackNext \/ InstallNext \/ Settle

Lifecycle == Boot \/ StartCli \/ Stop \/ EnsureFresh \/ Kill \/ PowerLoss \/ OperatorRecover

Next == Stage("api") \/ Stage("cli") \/ Running \/ Lifecycle

Spec == Init /\ [][Next]_vars

\* A synchronous handler runs to its end unless the process dies.
FairSpec == Spec /\ WF_vars(Running)

----------------------------------------------------------------------------
(* Properties.                                                             *)

\* Whatever a power loss leaves, the database of the last settled restore is
\* whole, at the active path or as the rollback copy ("the prior active file
\* is never removed before a commit or a verified rollback").
DurableSafe ==
  safe # None =>
    /\ data[safe] = "durable"
    /\ \A d \in disk : safe \in {d.active, d.rollback}

\* The open SQLite handle is always on the file at the active path: no write
\* can go to a file that the swap has moved aside.
HandleOnActive == handleOn # None => handleOn = ns.active

\* The verdict the caller is about to report is true of every state a power
\* loss could leave: the candidate is active after "committed", the prior file
\* after "rolled_back", and never the candidate after the other two.
VerdictHonest ==
  op.step = "finally" =>
    /\ op.verdict = "committed" => \A d \in disk : d.active = op.cand
    /\ op.verdict = "rolled_back" => \A d \in disk : d.active = op.prior
    /\ op.verdict \in {"unchanged", "not_applied"} =>
         ns.active = op.prior /\ \A d \in disk : d.active # op.cand

\* Once some restore has settled, the API serves another database between
\* requests only while a rollback copy is pending, which blocks the next one.
StrayServedOnlyWhilePending ==
  /\ mode = "api" /\ op.step \in {"idle", "stuck"}
  /\ safe # None /\ handleOn \notin {None, safe}
  => Pending

\* A restore that settles has revoked the sessions its backup carried.
SettledSessionsRevoked == safe \notin carried

\* The recovery history claims completion of exactly what the API committed,
\* and of nothing that was rolled back.
AuditTruthful ==
  op.step = "finally" =>
    /\ op.verdict # "committed" => op.cand \notin logged
    /\ op.verdict = "committed" /\ op.tool = "api" => op.cand \in logged

\* No decrypted candidate outlives its restore in a serving API, unless it is
\* kept for the operator beside a pending rollback copy.
ScratchCleared ==
  mode = "api" /\ op.step = "idle" /\ ~Pending => ns.candidate = None

\* What a power loss cannot take away, and what has been reported.
Kept == {v \in Version :
           data[v] = "durable" /\ \A d \in disk : v \in {d.active, d.rollback}}

Reported ==
  CASE op.step # "idle" \/ op.verdict \in {"none", "interrupted"} -> "none"
    [] op.step = "idle" /\ op.verdict = "committed" -> "replaced"
    [] op.step = "idle" /\ op.verdict \in {"not_applied", "rolled_back", "unchanged"} -> "kept"
    [] op.step = "idle" /\ op.verdict = "recovery_required" -> "unknown"

Promise == INSTANCE AtomicRestore WITH
  Databases <- Version,
  current   <- safe,
  staged    <- IF op.step = "idle" THEN None ELSE op.cand,
  kept      <- Kept,
  answer    <- Reported

\* Through renames, failures, rollbacks and restarts, a restore replaces the
\* current database at one instant by the one it staged, once both would
\* survive a power loss, or not at all, and its verdict says which.
RestoresAtomically == Promise!Spec

\* Every restore that starts reaches a verdict or dies with its process.
RestoreSettles == op.step = "staged" ~> op.step \in {"idle", "stuck"}

\* Documented of the API: a rollback that could not be verified requires operator
\* recovery before a retry.
NoRetryBeforeRecovery ==
  [][op.tool = "api" /\ op.step = "idle" /\ op'.step = "staged" => ~unresolved]_vars

=============================================================================
