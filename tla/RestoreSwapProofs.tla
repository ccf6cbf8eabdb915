------------------------- MODULE RestoreSwapProofs -------------------------
(***************************************************************************)
(* Type correctness and every safety invariant of the restore, for every   *)
(* bound on versions, faults and crashes, and that it implements           *)
(* AtomicRestore.                                                          *)
(***************************************************************************)
EXTENDS RestoreSwap, TLAPS

\* A restore in progress has a candidate: what makes TypeOK inductive.
CandidateKnown == op.step \notin {"idle", "stuck"} => op.cand \in Version

TInv == TypeOK /\ CandidateKnown

----------------------------------------------------------------------------
\* The changes the swap and its rollback make keep records well typed.
LEMMA ChangesType ==
  ASSUME TypeOK, NEW d \in Dir
  PROVE  /\ Park(d) \in Dir /\ PutUp(d) \in Dir /\ BringBack(d) \in Dir
         /\ PutBack(d) \in Dir /\ Discard(d) \in Dir /\ DropCopy(d) \in Dir
         /\ LinkUp(d) \in Dir /\ Unlinked(d) \in Dir /\ Cleaned(d) \in Dir
         /\ ns.active # None => Reject(d) \in Dir
BY DEF TypeOK, Dir, Slot, Park, PutUp, BringBack, PutBack, Discard, DropCopy,
       LinkUp, Unlinked, Cleaned, Reject

LEMMA InitType == Init => TInv
<1>1. SUFFICES ASSUME NEW first \in {0, None}, InitFrom(first)
               PROVE  TInv
  BY DEF Init
<1>2. 0 \in Version /\ None \in Slot /\ first \in Slot
  BY BoundsAssumption DEF Version, Slot
<1>3. ns \in Dir
  BY <1>1, <1>2 DEF InitFrom, Dir, Slot
<1>4. data \in [Version -> {"absent", "written", "durable", "torn"}]
  BY <1>1 DEF InitFrom
<1>5. op \in [step : Step, tool : {"api", "cli"}, prior : Slot, cand : Slot,
              parked : Slot, verdict : Outcome] /\ op.step = "idle"
  BY <1>1, <1>2 DEF InitFrom, Step, Outcome
<1>6. budget \in [versions : 0..MaxVersions, faults : 0..MaxFaults,
                  crashes : 0..MaxCrashes]
  BY <1>1, BoundsAssumption DEF InitFrom
<1> QED
  BY <1>1, <1>2, <1>3, <1>4, <1>5, <1>6 DEF InitFrom, TypeOK, TInv, CandidateKnown

\* Moving on, leaving, and entering the rollback keep `op` well typed.
LEMMA ControlType ==
  ASSUME TInv
  PROVE  /\ \A s \in Step : Goto(s) =>
              /\ op' \in [step : Step, tool : {"api", "cli"}, prior : Slot, cand : Slot,
                          parked : Slot, verdict : Outcome]
              /\ unresolved' \in BOOLEAN
              /\ op'.cand = op.cand /\ op'.step = s
         /\ \A v \in Outcome : Leave(v) \/ RollBack(v) =>
              /\ op' \in [step : Step, tool : {"api", "cli"}, prior : Slot, cand : Slot,
                          parked : Slot, verdict : Outcome]
              /\ unresolved' \in BOOLEAN
              /\ op'.cand = op.cand
  BY DEF TInv, TypeOK, Goto, Leave, RollBack, Step, SwapStep, RollbackStep, InstallStep

LEMMA BudgetType ==
  ASSUME TypeOK, NoFault \/ Fault
  PROVE  budget' \in [versions : 0..MaxVersions, faults : 0..MaxFaults,
                      crashes : 0..MaxCrashes]
  BY BoundsAssumption DEF TypeOK, NoFault, Fault

THEOREM TypeStep == TInv /\ [Next]_vars => TInv'
<1> SUFFICES ASSUME TInv, [Next]_vars PROVE TInv'
  OBVIOUS
<1> USE ControlType, BudgetType, ChangesType, BoundsAssumption
      DEF TInv, TypeOK, CandidateKnown, Frame, SameFiles, SameDir, At
<1>s. /\ SwapStep \subseteq Step /\ RollbackStep \subseteq Step /\ InstallStep \subseteq Step
      /\ {"idle", "stuck", "staged", "finally"} \subseteq Step
  BY DEF Step
<1>1. ASSUME NEW tool \in {"api", "cli"}, Stage(tool) PROVE TInv'
  <2>1. NextVersion \in Version /\ budget'.versions \in 0..MaxVersions
    BY <1>1 DEF Stage, NextVersion, Version
  <2>2. /\ ns' = [ns EXCEPT !.candidate = NextVersion]
        /\ disk' = disk \union {[d EXCEPT !.candidate = NextVersion] : d \in disk}
    BY <1>1 DEF Stage, Rebind
  <2>3. \A d \in Dir : [d EXCEPT !.candidate = NextVersion] \in Dir
    BY <2>1 DEF Dir, Slot
  <2>4. ns' \in Dir /\ disk' \in SUBSET Dir /\ ns' \in disk'
    BY <2>2, <2>3
  <2>5. op' \in [step : Step, tool : {"api", "cli"}, prior : Slot, cand : Slot,
                 parked : Slot, verdict : Outcome] /\ op'.cand \in Version
    BY <1>1, <1>s, <2>1 DEF Stage, Dir, Slot, Outcome
  <2>6. budget' \in [versions : 0..MaxVersions, faults : 0..MaxFaults,
                     crashes : 0..MaxCrashes]
    BY <1>1, <2>1 DEF Stage
  <2> QED
    BY <1>1, <2>1, <2>4, <2>5, <2>6 DEF Stage
<1>2. CASE Checked
  BY <1>2, <1>s DEF Checked, Outcome, SwapStep, InstallStep
<1>3. CASE SyncCandidate
  BY <1>3, <1>s DEF SyncCandidate, SyncFile, SyncDir, Outcome, SwapStep
<1>4. CASE Close
  BY <1>4, <1>s DEF Close, Outcome, SwapStep, Slot
<1>5. CASE ParkActive
  BY <1>5, <1>s DEF ParkActive, SyncFile, Rebind, Outcome, SwapStep, Slot, Dir
<1>6. CASE SyncParked
  BY <1>6, <1>s DEF SyncParked, SyncDir, RollBack, Outcome, SwapStep, Slot
<1>7. CASE Promote
  BY <1>7, <1>s DEF Promote, Rebind, RollBack, Outcome, SwapStep, Slot
<1>8. CASE SyncPromoted
  BY <1>8, <1>s DEF SyncPromoted, SyncDir, RollBack, Outcome, SwapStep, Slot
<1>9. CASE Reopen
  BY <1>9, <1>s DEF Reopen, RollBack, Outcome, SwapStep, Slot, Dir
<1>10. CASE AfterSwap
  BY <1>10, <1>s DEF AfterSwap, RollBack, Outcome, SwapStep, Slot
<1>11. CASE SyncCommit
  BY <1>11, <1>s DEF SyncCommit, SyncFile, SyncDir, RollBack, Outcome, SwapStep, Slot
<1>12. CASE LogCompleted
  BY <1>12, <1>s DEF LogCompleted, RollBack, Outcome, SwapStep, Slot
<1>13. CASE DropRollback
  BY <1>13, <1>s DEF DropRollback, Rebind, SwapStep
<1>14. CASE SyncDropped
  BY <1>14, <1>s DEF SyncDropped, SyncDir, Outcome
<1>15. CASE RbPark
  <2>1. ns' \in Dir /\ disk' \in SUBSET Dir /\ ns' \in disk'
    BY <1>15 DEF RbPark, Rebind
  <2>2. /\ op' \in [step : Step, tool : {"api", "cli"}, prior : Slot, cand : Slot,
                    parked : Slot, verdict : Outcome]
        /\ unresolved' \in BOOLEAN /\ op'.cand = op.cand
    <3>1. CASE ns.active # None /\ op' = [op EXCEPT !.step = "rbMove", !.parked = ns.active]
               /\ UNCHANGED unresolved
      BY <3>1, <1>s DEF RollbackStep, Dir
    <3>2. CASE Goto("rbMove") \/ Leave("recovery_required")
      BY <3>2, <1>s DEF RollbackStep, Outcome
    <3> QED
      BY <1>15, <3>1, <3>2 DEF RbPark
  <2> QED
    BY <1>15, <2>1, <2>2 DEF RbPark
<1>16. CASE RbMove
  BY <1>16, <1>s DEF RbMove, Rebind, Outcome, RollbackStep, Slot
<1>17. CASE RbSync
  BY <1>17, <1>s DEF RbSync, SyncDir, Outcome, RollbackStep
<1>18. CASE RbReopen
  BY <1>18, <1>s DEF RbReopen, Outcome, RollbackStep, Dir
<1>19. CASE RbDrop
  BY <1>19, <1>s DEF RbDrop, Rebind
<1>20. CASE Link
  BY <1>20, <1>s DEF Link, SyncFile, Rebind, Outcome, InstallStep
<1>21. CASE CheckLink
  BY <1>21, <1>s DEF CheckLink, SyncDir, Outcome, InstallStep
<1>22. CASE Unlink
  BY <1>22, <1>s DEF Unlink, Rebind, Outcome
<1>23. CASE Settle
  BY <1>23, <1>s DEF Settle, Rebind, Slot
<1>24. CASE Boot
  BY <1>24 DEF Boot, CleanScratch, Rebind, Dir
<1>25. CASE StartCli
  BY <1>25 DEF StartCli, CleanScratch, Rebind
<1>26. CASE Stop
  BY <1>26, <1>s DEF Stop, Slot
<1>27. CASE EnsureFresh
  <2>1. NextVersion \in Version
    BY <1>27 DEF EnsureFresh, NextVersion, Version
  <2>2. ns' \in Dir /\ disk' = {ns'} /\ safe' \in Slot
    BY <1>27, <2>1 DEF EnsureFresh, Slot, Dir
  <2>3. budget' \in [versions : 0..MaxVersions, faults : 0..MaxFaults,
                     crashes : 0..MaxCrashes]
    BY <1>27, <2>1 DEF EnsureFresh, NextVersion, Version
  <2> QED
    BY <1>27, <2>1, <2>2, <2>3 DEF EnsureFresh, SyncFile
<1>c. ASSUME Crash
      PROVE  /\ op' \in [step : Step, tool : {"api", "cli"}, prior : Slot, cand : Slot,
                         parked : Slot, verdict : Outcome]
             /\ op'.step = "idle" /\ mode' = "down" /\ handleOn' \in Slot
             /\ budget' \in [versions : 0..MaxVersions, faults : 0..MaxFaults,
                             crashes : 0..MaxCrashes]
             /\ UNCHANGED <<carried, safe, unresolved>>
  <2>1. budget' \in [versions : 0..MaxVersions, faults : 0..MaxFaults,
                     crashes : 0..MaxCrashes]
    BY <1>c DEF Crash
  <2>2. op' \in [step : Step, tool : {"api", "cli"}, prior : Slot, cand : Slot,
                 parked : Slot, verdict : Outcome] /\ op'.step = "idle"
    BY <1>c, <1>s DEF Crash, Outcome
  <2> QED
    BY <1>c, <2>1, <2>2 DEF Crash, Slot
<1>28. CASE Kill
  BY <1>28, <1>c DEF Kill
<1>29. CASE PowerLoss
  <2>1. data' \in [Version -> {"absent", "written", "durable", "torn"}]
    BY <1>29 DEF PowerLoss
  <2> QED
    BY <1>29, <1>c, <2>1 DEF PowerLoss
<1>30. CASE OperatorRecover
  <2>1. ns' \in Dir /\ disk' = {ns'}
    BY <1>30 DEF OperatorRecover, Dir, Slot
  <2> QED
    BY <1>30, <2>1 DEF OperatorRecover
<1>31. CASE UNCHANGED vars
  BY <1>31 DEF vars
<1> QED
  BY <1>1, <1>2, <1>3, <1>4, <1>5, <1>6, <1>7, <1>8, <1>9, <1>10, <1>11, <1>12,
     <1>13, <1>14, <1>15, <1>16, <1>17, <1>18, <1>19, <1>20, <1>21, <1>22, <1>23,
     <1>24, <1>25, <1>26, <1>27, <1>28, <1>29, <1>30, <1>31
     DEF Next, Running, SwapNext, RollbackNext, InstallNext, Lifecycle

\* The restore's state stays well typed, whatever fails and whoever dies.
THEOREM TypeCorrect == Spec => []TypeOK
<1>1. TInv => TypeOK
  BY DEF TInv
<1> QED
  BY InitType, TypeStep, <1>1, PTL DEF Spec

----------------------------------------------------------------------------
(* DurableSafe.  Alone it is not inductive: a rename keeps the current     *)
(* database at one of its two places only because of where the restore has *)
(* already put it, so the strengthening says that, step by step.           *)

\* Until the commit, a restore's prior file is the current database.
BeforeCommit ==
  {"staged"} \union RollbackStep \union InstallStep
    \union (SwapStep \ {"dropRollback", "syncDropped"})

PriorIsSafe ==
  /\ op.step \in BeforeCommit /\ safe # None => op.prior = safe
  /\ op.step \in InstallStep => op.prior = None

\* New files never reuse the number of the current one.
Numbered ==
  /\ safe # None => safe <= budget.versions
  /\ op.step \notin {"idle", "stuck"} => op.cand <= budget.versions

\* On every record a power loss could leave.
RollbackForced == \A d \in disk : d.rollback = op.prior

\* Where the swap has put the prior file and the candidate.
Places ==
  /\ op.step = "syncParked" => ns.rollback = op.prior /\ ns.active = None
  /\ op.step \in {"promote", "syncPromoted", "reopen", "afterSwap", "syncCommit",
                  "logCompleted"} => RollbackForced
  /\ op.step \in {"syncPromoted", "reopen", "afterSwap", "syncCommit", "checkLink"} =>
       ns.active = op.cand
  /\ op.step \in {"logCompleted", "checkLink"} => data[op.cand] = "durable"
  /\ op.step = "logCompleted" => \A d \in disk : d.active = op.cand
  /\ op.step = "dropRollback" => \A d \in disk : d.active = safe
  /\ op.step \in {"rbPark", "rbMove"} => ns.rollback = op.prior
  /\ op.step = "rbPark" /\ ns.active # None => RollbackForced
  /\ op.step = "rbMove" /\ op.parked # None => RollbackForced
  /\ op.step \in {"staged", "rbPark"} \union SwapStep => op.parked = None

\* A restore lives no longer than its process.
DownIsIdle == mode = "down" => op.step = "idle"

SInv == TInv /\ DurableSafe /\ PriorIsSafe /\ Numbered /\ Places /\ DownIsIdle

LEMMA InitS == Init => SInv
<1>1. SUFFICES ASSUME NEW first \in {0, None}, InitFrom(first)
               PROVE  SInv
  BY DEF Init
<1>2. op.step = "idle"
  BY <1>1 DEF InitFrom
<1>3. TInv
  BY <1>1, InitType DEF Init
<1>4. DurableSafe /\ Numbered /\ DownIsIdle
  BY <1>1, BoundsAssumption DEF InitFrom, DurableSafe, Numbered, DownIsIdle, Version
<1> QED
  BY <1>2, <1>3, <1>4 DEF SInv, PriorIsSafe, Places, BeforeCommit, SwapStep,
     RollbackStep, InstallStep

\* What each change of entries does to the two places that matter.
LEMMA ChangeFields ==
  ASSUME TypeOK, NEW d \in disk
  PROVE  /\ Park(d).active = None /\ Park(d).rollback = op.prior
         /\ PutUp(d).active = op.cand /\ PutUp(d).rollback = d.rollback
         /\ Reject(d).active = None /\ Reject(d).rollback = d.rollback
         /\ BringBack(d).active = ns.rollback /\ BringBack(d).rollback = None
         /\ PutBack(d).active = op.parked /\ PutBack(d).rollback = d.rollback
         /\ Discard(d).active = d.active /\ Discard(d).rollback = d.rollback
         /\ DropCopy(d).active = d.active /\ DropCopy(d).rollback = None
         /\ LinkUp(d).active = op.cand /\ LinkUp(d).rollback = d.rollback
         /\ Unlinked(d).active = None /\ Unlinked(d).rollback = d.rollback
         /\ Cleaned(d).active = d.active /\ Cleaned(d).rollback = d.rollback
  BY DEF TypeOK, Dir, Park, PutUp, Reject, BringBack, PutBack, Discard, DropCopy,
         LinkUp, Unlinked, Cleaned

\* Control moves change the step and nothing else of the restore's identity.
SameRestore == op'.prior = op.prior /\ op'.cand = op.cand /\ op'.parked = op.parked

LEMMA ControlFields ==
  ASSUME TypeOK
  PROVE  /\ \A s \in Step : Goto(s) => op'.step = s /\ SameRestore
         /\ \A v \in Outcome : Leave(v) => op'.step = "finally" /\ SameRestore
         /\ \A v \in Outcome : RollBack(v) => op'.step = "rbPark" /\ SameRestore
         /\ NoFault \/ Fault => budget'.versions = budget.versions
  BY DEF TypeOK, Goto, Leave, RollBack, NoFault, Fault, SameRestore

\* Forcing a version's bytes makes that version durable and spoils no other.
LEMMA SyncFileData ==
  ASSUME TypeOK, NEW v \in Version, SyncFile(v)
  PROVE  /\ data'[v] = "durable"
         /\ \A w \in Version : data[w] = "durable" => data'[w] = "durable"
  BY DEF TypeOK, SyncFile

LEMMA SomeSteps ==
  /\ {"link", "checkLink", "unlink", "syncCandidate", "close", "parkActive",
      "syncParked", "promote", "syncPromoted", "reopen", "afterSwap", "syncCommit",
      "logCompleted", "dropRollback", "syncDropped", "rbPark", "rbMove", "rbSync",
      "rbReopen", "rbDrop", "finally", "idle", "stuck", "staged"} \subseteq Step
  /\ {"not_applied", "unchanged", "rolled_back", "recovery_required", "committed"}
       \subseteq Outcome
  BY DEF Step, SwapStep, RollbackStep, InstallStep, Outcome

THEOREM SafeStep == SInv /\ [Next]_vars => SInv'
<1> SUFFICES ASSUME SInv, [Next]_vars PROVE SInv'
  OBVIOUS
<1>t. TInv'
  BY TypeStep DEF SInv
<1>u. TypeOK /\ CandidateKnown /\ op.step \in Step /\ op.verdict \in Outcome /\ ns \in disk /\ safe \in Version \union {None}
  BY DEF SInv, TInv, TypeOK, Slot
<1>v. ns' \in disk'
  BY <1>t DEF TInv, TypeOK
<1> USE <1>t, <1>u, <1>v, ChangeFields, ControlFields, SomeSteps
    DEF SInv, DurableSafe, PriorIsSafe, Numbered, Places, DownIsIdle, RollbackForced, BeforeCommit,
        SwapStep, RollbackStep, InstallStep, SameRestore, Frame, SameFiles, SameDir, At
<1>1. ASSUME NEW tool \in {"api", "cli"}, Stage(tool) PROVE SInv'
  <2>1. /\ NextVersion \in Version /\ budget'.versions = NextVersion
        /\ safe # NextVersion /\ (safe # None => safe <= NextVersion)
    BY <1>1, BoundsAssumption DEF Stage, NextVersion, TypeOK, Version
  <2>2. /\ op'.step = "staged" /\ op'.prior = ns.active /\ op'.cand = NextVersion
        /\ op'.parked = None /\ mode' # "down"
    BY <1>1 DEF Stage
  <2>3. \A d \in disk' : \E c \in disk : d.active = c.active /\ d.rollback = c.rollback
    BY <1>1 DEF Stage, Rebind, TypeOK, Dir
  <2>4. safe # None => data'[safe] = "durable"
    BY <1>1, <2>1 DEF Stage, TypeOK
  <2>5. safe # None => ns.active = safe
    BY <1>1 DEF Stage, Pending
  <2>6. safe' = safe
    BY <1>1 DEF Stage
  <2>7. DurableSafe'
    BY <2>3, <2>4, <2>6
  <2>8. Numbered'
    BY <2>1, <2>2, <2>6 DEF Version
  <2> QED
    BY <2>2, <2>5, <2>6, <2>7, <2>8
<1>2. CASE Checked
  BY <1>2 DEF Checked
<1>3. CASE SyncCandidate
  BY <1>3, SyncFileData DEF CandidateKnown, SyncCandidate, SyncDir
<1>4. CASE Close
  BY <1>4 DEF Close
<1>5. CASE ParkActive
  BY <1>5, SyncFileData DEF CandidateKnown, ParkActive, Rebind
<1>6. CASE SyncParked
  BY <1>6 DEF SyncParked, SyncDir
<1>7. CASE Promote
  BY <1>7 DEF Promote, Rebind
<1>8. CASE SyncPromoted
  BY <1>8 DEF SyncPromoted, SyncDir
<1>9. CASE Reopen
  BY <1>9 DEF Reopen
<1>10. CASE AfterSwap
  BY <1>10 DEF AfterSwap
<1>11. CASE SyncCommit
  BY <1>11, SyncFileData DEF CandidateKnown, SyncCommit, SyncDir
<1>12. CASE LogCompleted
  BY <1>12 DEF LogCompleted, CandidateKnown
<1>13. CASE DropRollback
  BY <1>13 DEF DropRollback, Rebind
<1>14. CASE SyncDropped
  BY <1>14 DEF SyncDropped, SyncDir
<1>15. CASE RbPark
  <2>1. CASE ns.active # None /\ NoFault /\ Rebind(Reject)
             /\ op' = [op EXCEPT !.step = "rbMove", !.parked = ns.active]
    <3>1. op'.step = "rbMove" /\ op'.prior = op.prior /\ op'.cand = op.cand
      BY <2>1 DEF TypeOK
    <3> QED
      BY <1>15, <2>1, <3>1 DEF RbPark, Rebind
  <2>2. CASE SameDir /\ (\/ Goto("rbMove") /\ ns.active = None
                         \/ Leave("recovery_required"))
    BY <1>15, <2>2 DEF RbPark
  <2> QED
    BY <1>15, <2>1, <2>2 DEF RbPark
<1>16. CASE RbMove
  BY <1>16 DEF RbMove, Rebind
<1>17. CASE RbSync
  BY <1>17 DEF RbSync, SyncDir
<1>18. CASE RbReopen
  BY <1>18 DEF RbReopen
<1>19. CASE RbDrop
  BY <1>19 DEF RbDrop, Rebind
<1>20. CASE Link
  BY <1>20, SyncFileData DEF CandidateKnown, Link, Rebind
<1>21. CASE CheckLink
  BY <1>21 DEF CheckLink, SyncDir, CandidateKnown
<1>22. CASE Unlink
  BY <1>22 DEF Unlink, Rebind
<1>23. CASE Settle
  <2>1. /\ op'.step \in {"idle", "stuck"} /\ UNCHANGED <<data, safe>>
        /\ budget'.versions = budget.versions
        /\ mode' = "down" => op'.step = "idle"
    BY <1>23 DEF Settle, TypeOK
  <2>2. \A d \in disk' : \E c \in disk : d.active = c.active /\ d.rollback = c.rollback
    BY <1>23 DEF Settle, Rebind
  <2> QED
    BY <2>1, <2>2
<1>24. CASE Boot
  BY <1>24 DEF Boot, CleanScratch, Rebind
<1>25. CASE StartCli
  BY <1>25 DEF StartCli, CleanScratch, Rebind
<1>26. CASE Stop
  BY <1>26 DEF Stop
<1>27. CASE EnsureFresh
  <2>1. /\ NextVersion \in Version /\ budget'.versions = NextVersion
        /\ safe # None => safe <= NextVersion
    BY <1>27, BoundsAssumption DEF EnsureFresh, NextVersion, TypeOK, Version
  <2>2. disk' = {ns'} /\ ns'.active = NextVersion /\ ns'.rollback = ns.rollback
    BY <1>27 DEF EnsureFresh, TypeOK, Dir
  <2>3. (safe' = safe /\ safe = ns.rollback) \/ safe' = NextVersion \/ safe' = None
    BY <1>27 DEF EnsureFresh, Pending
  <2>4. op' = op /\ SyncFile(NextVersion)
    BY <1>27 DEF EnsureFresh
  <2>5. safe' # None => data'[safe'] = "durable"
    BY <2>1, <2>3, <2>4, SyncFileData
  <2>6. DurableSafe'
    BY <2>2, <2>3, <2>5
  <2>7. op.step = "idle" /\ UNCHANGED mode
    BY <1>27 DEF EnsureFresh
  <2>8. Numbered'
    BY <2>1, <2>3, <2>4, <2>7 DEF Version
  <2> QED
    BY <2>4, <2>6, <2>7, <2>8
<1>28. CASE Kill
  BY <1>28 DEF Kill, Crash
<1>29. CASE PowerLoss
  BY <1>29 DEF PowerLoss, Crash
<1>30. CASE OperatorRecover
  <2>1. ns'.active = safe /\ disk' = {ns'}
    BY <1>30 DEF OperatorRecover, TypeOK, Dir
  <2> QED
    BY <1>30, <2>1 DEF OperatorRecover
<1>31. CASE UNCHANGED vars
  BY <1>31 DEF vars
<1> QED
  BY <1>1, <1>2, <1>3, <1>4, <1>5, <1>6, <1>7, <1>8, <1>9, <1>10, <1>11, <1>12, <1>13, <1>14, <1>15, <1>16, <1>17, <1>18, <1>19, <1>20, <1>21, <1>22, <1>23, <1>24, <1>25, <1>26, <1>27, <1>28, <1>29, <1>30, <1>31
     DEF Next, Running, SwapNext, RollbackNext, InstallNext, Lifecycle

\* The database of the last settled restore survives every failure, kill and
\* power loss, whole, at the active path or as the rollback copy.
THEOREM CurrentSurvives == Spec => []DurableSafe
<1>1. SInv => DurableSafe
  BY DEF SInv
<1> QED
  BY InitS, SafeStep, <1>1, PTL DEF Spec

----------------------------------------------------------------------------
(* The other invariants.  A second strengthening, on top of SInv, follows  *)
(* the handle, the prior file, and the candidate's sessions and audit.     *)

\* The database number v is taken, or there is no file.
Taken(v) == v # None => v <= budget.versions

\* Only numbers already given out are at a place, are named by the restore in
\* progress, or have sessions or a completion record.
NumbersTaken ==
  /\ \A d \in disk : Taken(d.active) /\ Taken(d.rollback)
  /\ op.step \notin {"idle", "stuck"} => Taken(op.prior)
  /\ op.step \in {"rbMove", "rbSync", "rbReopen", "rbDrop"} => Taken(op.parked)
  /\ \A v \in carried \union logged : Taken(v)

\* The handle is closed in every process that has not opened it, and from the
\* moment the swap closes it until the swap or its rollback opens it again.
Closed == {"parkActive", "syncParked", "promote", "syncPromoted", "reopen",
           "rbPark", "rbMove", "rbSync", "rbReopen"} \union InstallStep

HandleClosed == mode = "down" \/ op.step \in Closed => handleOn = None

\* A restore belongs to the process that started it, and only the CLI has no
\* prior file to bring back.
OwnsRestore ==
  op.step \notin {"idle", "stuck"} =>
    /\ mode = op.tool
    /\ op.prior = None => op.tool = "cli"
    /\ op.prior # op.cand

\* Where the active path is before the swap, after the commit, and after the
\* prior file has been brought back.
ActivePath ==
  /\ op.step \in {"staged", "syncCandidate", "close", "parkActive", "link"} =>
       ns.active = op.prior
  /\ op.step \in {"staged", "syncCandidate", "close", "parkActive", "link"} =>
       \A d \in disk : d.active # op.cand
  /\ op.step \in {"dropRollback", "syncDropped"} => \A d \in disk : d.active = op.cand
  /\ op.step = "rbSync" => ns.active = op.prior
  /\ op.step \in {"rbReopen", "rbDrop"} => \A d \in disk : d.active = op.prior

\* What the rollback will report when it succeeds.
RollbackVerdict == op.step \in RollbackStep => op.verdict \in {"unchanged", "rolled_back"}

\* Before the commit the candidate has no completion record; after it, the
\* API's has.
CandidateLogged ==
  /\ op.step \in BeforeCommit => op.cand \notin logged
  /\ op.step \in {"dropRollback", "syncDropped"} /\ op.tool = "api" => op.cand \in logged

\* The CLI's candidate never has the backup's sessions, and the API's has not
\* once they are revoked.
CandidateRevoked ==
  /\ op.step \in BeforeCommit
    /\ (op.tool = "cli" \/ op.step \in {"syncCommit", "logCompleted"})
  => op.cand \notin carried

HInv ==
  /\ SInv
  /\ NumbersTaken /\ HandleClosed /\ OwnsRestore /\ ActivePath
  /\ RollbackVerdict /\ CandidateLogged /\ CandidateRevoked
  /\ HandleOnActive /\ VerdictHonest /\ SettledSessionsRevoked /\ AuditTruthful
  /\ ScratchCleared

\* Control moves set the verdict as named, and never the tool.
LEMMA ControlVerdict ==
  ASSUME TypeOK
  PROVE  /\ \A s : Goto(s) => op'.verdict = op.verdict /\ op'.tool = op.tool
         /\ \A v : Leave(v) => op'.verdict = v /\ op'.tool = op.tool
         /\ \A v : RollBack(v) => op'.verdict = v /\ op'.tool = op.tool /\ handleOn' = None
  BY DEF TypeOK, Goto, Leave, RollBack

\* Removing the candidate or a displaced file moves no database.
LEMMA EndsKept ==
  ASSUME TypeOK, Rebind(Cleaned) \/ Rebind(Discard) \/ SameDir
  PROVE  /\ ns'.active = ns.active /\ ns'.rollback = ns.rollback
         /\ \A d \in disk' : \E c \in disk : d.active = c.active /\ d.rollback = c.rollback
  BY ChangeFields DEF Rebind, SameDir, TypeOK

\* What Stage does to the state the strengthening speaks of; the others alike.
LEMMA StageFacts ==
  ASSUME TypeOK, NEW tool \in {"api", "cli"}, Stage(tool)
  PROVE  /\ mode = tool /\ op.step = "idle" /\ ~Pending
         /\ tool = "api" => handleOn # None
         /\ op' = [step |-> "staged", tool |-> tool, prior |-> ns.active,
                   cand |-> NextVersion, parked |-> None, verdict |-> "none"]
         /\ budget'.versions = NextVersion
         /\ carried' \subseteq carried \union {NextVersion}
         /\ tool = "cli" => carried' = carried
         /\ UNCHANGED <<logged, mode, handleOn, safe>>
         /\ ns'.active = ns.active /\ ns'.rollback = ns.rollback
         /\ \A d \in disk' : \E c \in disk : d.active = c.active /\ d.rollback = c.rollback
<1>1. /\ ns'.active = ns.active /\ ns'.rollback = ns.rollback
      /\ \A d \in disk' : \E c \in disk : d.active = c.active /\ d.rollback = c.rollback
  BY DEF Stage, Rebind, TypeOK, Dir
<1>2. budget'.versions = NextVersion
  BY DEF Stage, TypeOK, NextVersion
<1> QED
  BY <1>1, <1>2 DEF Stage, Rebind

LEMMA RbParkFacts ==
  ASSUME TypeOK, RbPark
  PROVE  /\ op.step = "rbPark"
         /\ op'.step \in {"rbMove", "finally"}
         /\ op'.prior = op.prior /\ op'.cand = op.cand /\ op'.tool = op.tool
         /\ op'.step = "rbMove" =>
              op'.parked \in {ns.active, op.parked} /\ op'.verdict = op.verdict
         /\ op'.step = "finally" => op'.verdict = "recovery_required" /\ SameDir
         /\ UNCHANGED <<carried, logged, mode, safe, handleOn>>
         /\ \A d \in disk' : /\ d.active # None => d \in disk
                            /\ \E c \in disk : d.rollback = c.rollback
         /\ budget'.versions = budget.versions
<1>1. \A d \in disk' : /\ d.active # None => d \in disk
                      /\ \E c \in disk : d.rollback = c.rollback
  BY ChangeFields DEF RbPark, Rebind, SameDir
<1> QED
  BY <1>1, ControlFields, ControlVerdict, SomeSteps
     DEF RbPark, At, Frame, TypeOK, SameRestore, Goto, Leave

LEMMA RbDropFacts ==
  ASSUME TypeOK, RbDrop
  PROVE  /\ op.step = "rbDrop" /\ mode # "down"
         /\ Leave(op.verdict) /\ (NoFault \/ Fault)
         /\ UNCHANGED <<data, handleOn, carried, logged, mode, safe>>
         /\ ns'.active = ns.active /\ ns'.rollback = ns.rollback
         /\ \A d \in disk' : \E c \in disk : d.active = c.active /\ d.rollback = c.rollback
<1>1. /\ ns'.active = ns.active /\ ns'.rollback = ns.rollback
      /\ \A d \in disk' : \E c \in disk : d.active = c.active /\ d.rollback = c.rollback
  BY EndsKept DEF RbDrop
<1> QED
  BY <1>1 DEF RbDrop, Frame, At

LEMMA BootFacts ==
  ASSUME TypeOK, Boot
  PROVE  /\ mode = "down"
         /\ (mode' = "api" /\ handleOn' = ns.active) \/ UNCHANGED <<mode, handleOn>>
         /\ ns.rollback = None => ns'.candidate = None
         /\ UNCHANGED <<data, carried, logged, op, safe, unresolved, budget>>
         /\ ns'.active = ns.active /\ ns'.rollback = ns.rollback
         /\ \A d \in disk' : \E c \in disk : d.active = c.active /\ d.rollback = c.rollback
<1>1. /\ ns'.active = ns.active /\ ns'.rollback = ns.rollback
      /\ \A d \in disk' : \E c \in disk : d.active = c.active /\ d.rollback = c.rollback
  BY EndsKept DEF Boot, CleanScratch
<1>2. ns.rollback = None => ns'.candidate = None
  BY DEF Boot, CleanScratch, Pending, Rebind, Cleaned, TypeOK, Dir
<1> QED
  BY <1>1, <1>2 DEF Boot

LEMMA SettleFacts ==
  ASSUME TypeOK, Settle
  PROVE  /\ mode # "down" /\ op.step = "finally"
         /\ op'.step \in {"idle", "stuck"}
         /\ op'.prior = op.prior /\ op'.cand = op.cand /\ op'.tool = op.tool
         /\ op'.step = "idle" /\ op.tool = "api" => ns'.candidate = None
         /\ Rebind(Cleaned) \/ SameDir
         /\ op.tool = "api" => UNCHANGED <<mode, handleOn, logged>>
         /\ op.tool # "api" => mode' = "down" /\ handleOn' = None
         /\ logged' \subseteq logged \union {op.cand}
         /\ UNCHANGED <<carried, safe>>
         /\ budget'.versions = budget.versions
<1>1. op'.step \in {"idle", "stuck"} /\ op'.prior = op.prior /\ op'.cand = op.cand
      /\ op'.tool = op.tool
  BY DEF Settle, TypeOK
<1>2. op'.step = "idle" /\ op.tool = "api" => ns'.candidate = None
  BY DEF Settle, TypeOK, Rebind, Cleaned, Dir
<1>3. budget'.versions = budget.versions
  BY ControlFields DEF Settle
<1>4. logged' \subseteq logged \union {op.cand}
  BY DEF Settle
<1>5. Rebind(Cleaned) \/ SameDir
  BY DEF Settle
<1> QED
  BY <1>1, <1>2, <1>3, <1>4, <1>5 DEF Settle, At

LEMMA EnsureFacts ==
  ASSUME TypeOK, EnsureFresh
  PROVE  /\ mode = "down" /\ budget'.versions = NextVersion
         /\ disk' = {ns'} /\ ns'.active = NextVersion /\ ns'.rollback = ns.rollback
         /\ safe' \in {safe, NextVersion}
         /\ UNCHANGED <<carried, logged, mode, handleOn, op>>
<1>1. ns'.active = NextVersion /\ ns'.rollback = ns.rollback
  BY DEF EnsureFresh, TypeOK, Dir
<1>2. budget'.versions = NextVersion
  BY DEF EnsureFresh, TypeOK, NextVersion
<1> QED
  BY <1>1, <1>2 DEF EnsureFresh

\* The next number is taken once the counter has moved, and was free before.
LEMMA NextTaken ==
  ASSUME TypeOK, budget'.versions = NextVersion
  PROVE  /\ \A v \in Slot : v # None /\ v <= budget.versions =>
              v <= budget'.versions /\ v # NextVersion
         /\ NextVersion <= budget'.versions
         /\ NextVersion # None
  BY BoundsAssumption DEF TypeOK, Slot, Version, NextVersion

\* No step brings a number into play that the counter has not given out.
LEMMA NumbersStep == HInv /\ [Next]_vars => NumbersTaken'
<1> SUFFICES ASSUME HInv, [Next]_vars PROVE NumbersTaken'
  OBVIOUS
<1>s. /\ TypeOK /\ TypeOK' /\ ns \in disk /\ ns' \in disk'
      /\ op.step \in Step /\ op.verdict \in Outcome
  BY TypeStep DEF HInv, SInv, TInv, TypeOK
<1> USE <1>s, ChangeFields, ControlFields, SomeSteps
    DEF Frame, SameFiles, SameDir, At, SameRestore, HInv, SInv, Numbered,
        NumbersTaken, Taken
<1>1. ASSUME NEW tool \in {"api", "cli"}, Stage(tool) PROVE NumbersTaken'
  <2>1. \A d \in disk : d.active \in Slot /\ d.rollback \in Slot
    BY DEF TypeOK, Dir
  <2>2. \A v \in carried \union logged : v \in Slot
    BY DEF TypeOK, Slot
  <2> QED
    BY <1>1, <2>1, <2>2, StageFacts, NextTaken
<1>2. CASE Checked
  BY <1>2 DEF Checked
<1>3. CASE SyncCandidate
  BY <1>3 DEF SyncCandidate, SyncDir
<1>4. CASE Close
  BY <1>4 DEF Close
<1>5. CASE ParkActive
  BY <1>5 DEF ParkActive, Rebind
<1>6. CASE SyncParked
  BY <1>6 DEF SyncParked, SyncDir
<1>7. CASE Promote
  BY <1>7 DEF Promote, Rebind
<1>8. CASE SyncPromoted
  BY <1>8 DEF SyncPromoted, SyncDir
<1>9. CASE Reopen
  BY <1>9 DEF Reopen
<1>10. CASE AfterSwap
  BY <1>10 DEF AfterSwap
<1>11. CASE SyncCommit
  BY <1>11 DEF SyncCommit, SyncDir
<1>12. CASE LogCompleted
  BY <1>12 DEF LogCompleted
<1>13. CASE DropRollback
  BY <1>13 DEF DropRollback, Rebind
<1>14. CASE SyncDropped
  BY <1>14 DEF SyncDropped, SyncDir
<1>15. CASE RbPark
  BY <1>15, RbParkFacts DEF Places
<1>16. CASE RbMove
  BY <1>16 DEF RbMove, Rebind
<1>17. CASE RbSync
  BY <1>17 DEF RbSync, SyncDir
<1>18. CASE RbReopen
  BY <1>18 DEF RbReopen
<1>19. CASE RbDrop
  BY <1>19, RbDropFacts
<1>20. CASE Link
  BY <1>20 DEF Link, Rebind
<1>21. CASE CheckLink
  BY <1>21 DEF CheckLink, SyncDir
<1>22. CASE Unlink
  BY <1>22 DEF Unlink, Rebind
<1>23. CASE Settle
  BY <1>23, SettleFacts, EndsKept
<1>24. CASE Boot
  BY <1>24 DEF Boot, CleanScratch, Rebind
<1>25. CASE StartCli
  BY <1>25 DEF StartCli, CleanScratch, Rebind
<1>26. CASE Stop
  BY <1>26 DEF Stop
<1>27. CASE EnsureFresh
  <2>1. \A d \in disk : d.active \in Slot /\ d.rollback \in Slot
    BY DEF TypeOK, Dir
  <2>2. \A v \in carried \union logged : v \in Slot
    BY DEF TypeOK, Slot
  <2>3. op.prior \in Slot /\ op.parked \in Slot
    BY DEF TypeOK
  <2> QED
    BY <1>27, <2>1, <2>2, <2>3, EnsureFacts, NextTaken
<1>28. CASE Kill
  BY <1>28 DEF Kill, Crash
<1>29. CASE PowerLoss
  BY <1>29 DEF PowerLoss, Crash
<1>30. CASE OperatorRecover
  BY <1>30 DEF OperatorRecover
<1>31. CASE UNCHANGED vars
  BY <1>31 DEF vars
<1> QED
  BY <1>1, <1>2, <1>3, <1>4, <1>5, <1>6, <1>7, <1>8, <1>9, <1>10, <1>11, <1>12,
     <1>13, <1>14, <1>15, <1>16, <1>17, <1>18, <1>19, <1>20, <1>21, <1>22, <1>23,
     <1>24, <1>25, <1>26, <1>27, <1>28, <1>29, <1>30, <1>31
     DEF Next, Running, SwapNext, RollbackNext, InstallNext, Lifecycle

\* Renames happen with the handle closed, and it is opened on the active file.
LEMMA HandleStep == HInv /\ [Next]_vars => (HandleClosed /\ HandleOnActive)'
<1> SUFFICES ASSUME HInv, [Next]_vars PROVE (HandleClosed /\ HandleOnActive)'
  OBVIOUS
<1>s. /\ TypeOK /\ TypeOK' /\ ns \in disk /\ ns' \in disk'
      /\ op.step \in Step /\ op.verdict \in Outcome
  BY TypeStep DEF HInv, SInv, TInv, TypeOK
<1> USE <1>s, ChangeFields, ControlFields, ControlVerdict, SomeSteps
    DEF HInv, SInv, DownIsIdle, Frame, SameFiles, SameDir, At, SameRestore,
        HandleClosed, HandleOnActive, ActivePath, OwnsRestore, PriorIsSafe,
        Closed, InstallStep
<1>1. ASSUME NEW tool \in {"api", "cli"}, Stage(tool) PROVE (HandleClosed /\ HandleOnActive)'
  BY <1>1, StageFacts
<1>2. CASE Checked
  BY <1>2 DEF Checked
<1>3. CASE SyncCandidate
  BY <1>3 DEF SyncCandidate, SyncDir
<1>4. CASE Close
  BY <1>4 DEF Close
<1>5. CASE ParkActive
  BY <1>5 DEF ParkActive, Rebind
<1>6. CASE SyncParked
  BY <1>6 DEF SyncParked, SyncDir
<1>7. CASE Promote
  BY <1>7 DEF Promote, Rebind
<1>8. CASE SyncPromoted
  BY <1>8 DEF SyncPromoted, SyncDir
<1>9. CASE Reopen
  BY <1>9 DEF Reopen
<1>10. CASE AfterSwap
  BY <1>10 DEF AfterSwap
<1>11. CASE SyncCommit
  BY <1>11 DEF SyncCommit, SyncDir
<1>12. CASE LogCompleted
  BY <1>12 DEF LogCompleted
<1>13. CASE DropRollback
  BY <1>13 DEF DropRollback, Rebind
<1>14. CASE SyncDropped
  BY <1>14 DEF SyncDropped, SyncDir
<1>15. CASE RbPark
  BY <1>15 DEF RbPark, Rebind
<1>16. CASE RbMove
  BY <1>16 DEF RbMove, Rebind
<1>17. CASE RbSync
  BY <1>17 DEF RbSync, SyncDir
<1>18. CASE RbReopen
  BY <1>18 DEF RbReopen
<1>19. CASE RbDrop
  BY <1>19, RbDropFacts
<1>20. CASE Link
  BY <1>20 DEF Link, Rebind
<1>21. CASE CheckLink
  BY <1>21 DEF CheckLink, SyncDir
<1>22. CASE Unlink
  BY <1>22 DEF Unlink, Rebind
<1>23. CASE Settle
  BY <1>23, SettleFacts, EndsKept
<1>24. CASE Boot
  BY <1>24, BootFacts
<1>25. CASE StartCli
  BY <1>25 DEF StartCli, CleanScratch, Rebind
<1>26. CASE Stop
  BY <1>26 DEF Stop
<1>27. CASE EnsureFresh
  BY <1>27, EnsureFacts
<1>28. CASE Kill
  BY <1>28 DEF Kill, Crash
<1>29. CASE PowerLoss
  BY <1>29 DEF PowerLoss, Crash
<1>30. CASE OperatorRecover
  BY <1>30 DEF OperatorRecover
<1>31. CASE UNCHANGED vars
  BY <1>31 DEF vars
<1> QED
  BY <1>1, <1>2, <1>3, <1>4, <1>5, <1>6, <1>7, <1>8, <1>9, <1>10, <1>11, <1>12,
     <1>13, <1>14, <1>15, <1>16, <1>17, <1>18, <1>19, <1>20, <1>21, <1>22, <1>23,
     <1>24, <1>25, <1>26, <1>27, <1>28, <1>29, <1>30, <1>31
     DEF Next, Running, SwapNext, RollbackNext, InstallNext, Lifecycle

\* A restore in progress is its own process's, with a fresh candidate.
LEMMA OwnerStep == HInv /\ [Next]_vars => (OwnsRestore /\ RollbackVerdict)'
<1> SUFFICES ASSUME HInv, [Next]_vars PROVE (OwnsRestore /\ RollbackVerdict)'
  OBVIOUS
<1>s. /\ TypeOK /\ TypeOK' /\ ns \in disk /\ ns' \in disk'
      /\ op.step \in Step /\ op.verdict \in Outcome
  BY TypeStep DEF HInv, SInv, TInv, TypeOK
<1> USE <1>s, ControlFields, ControlVerdict, SomeSteps
    DEF HInv, SInv, DownIsIdle, Frame, SameFiles, SameDir, At, SameRestore,
        OwnsRestore, RollbackVerdict, RollbackStep, HandleOnActive
<1>1. ASSUME NEW tool \in {"api", "cli"}, Stage(tool) PROVE (OwnsRestore /\ RollbackVerdict)'
  <2>1. ns.active \in Slot
    BY DEF TypeOK, Dir
  <2>2. ns.active # NextVersion
    BY <1>1, <2>1, StageFacts, NextTaken DEF NumbersTaken, Taken
  <2> QED
    BY <1>1, <2>2, StageFacts
<1>2. CASE Checked
  BY <1>2 DEF Checked
<1>3. CASE SyncCandidate
  BY <1>3 DEF SyncCandidate, SyncDir
<1>4. CASE Close
  BY <1>4 DEF Close
<1>5. CASE ParkActive
  BY <1>5 DEF ParkActive, Rebind
<1>6. CASE SyncParked
  BY <1>6 DEF SyncParked, SyncDir
<1>7. CASE Promote
  BY <1>7 DEF Promote, Rebind
<1>8. CASE SyncPromoted
  BY <1>8 DEF SyncPromoted, SyncDir
<1>9. CASE Reopen
  BY <1>9 DEF Reopen
<1>10. CASE AfterSwap
  BY <1>10 DEF AfterSwap
<1>11. CASE SyncCommit
  BY <1>11 DEF SyncCommit, SyncDir
<1>12. CASE LogCompleted
  BY <1>12 DEF LogCompleted
<1>13. CASE DropRollback
  BY <1>13 DEF DropRollback, Rebind
<1>14. CASE SyncDropped
  BY <1>14 DEF SyncDropped, SyncDir
<1>15. CASE RbPark
  BY <1>15, RbParkFacts DEF RbPark
<1>16. CASE RbMove
  BY <1>16 DEF RbMove, Rebind
<1>17. CASE RbSync
  BY <1>17 DEF RbSync, SyncDir
<1>18. CASE RbReopen
  BY <1>18 DEF RbReopen
<1>19. CASE RbDrop
  BY <1>19, RbDropFacts
<1>20. CASE Link
  BY <1>20 DEF Link, Rebind
<1>21. CASE CheckLink
  BY <1>21 DEF CheckLink, SyncDir
<1>22. CASE Unlink
  BY <1>22 DEF Unlink, Rebind
<1>23. CASE Settle
  BY <1>23, SettleFacts, EndsKept
<1>24. CASE Boot
  BY <1>24, BootFacts
<1>25. CASE StartCli
  BY <1>25 DEF StartCli, CleanScratch, Rebind
<1>26. CASE Stop
  BY <1>26 DEF Stop
<1>27. CASE EnsureFresh
  BY <1>27, EnsureFacts
<1>28. CASE Kill
  BY <1>28 DEF Kill, Crash
<1>29. CASE PowerLoss
  BY <1>29 DEF PowerLoss, Crash
<1>30. CASE OperatorRecover
  BY <1>30 DEF OperatorRecover
<1>31. CASE UNCHANGED vars
  BY <1>31 DEF vars
<1> QED
  BY <1>1, <1>2, <1>3, <1>4, <1>5, <1>6, <1>7, <1>8, <1>9, <1>10, <1>11, <1>12,
     <1>13, <1>14, <1>15, <1>16, <1>17, <1>18, <1>19, <1>20, <1>21, <1>22, <1>23,
     <1>24, <1>25, <1>26, <1>27, <1>28, <1>29, <1>30, <1>31
     DEF Next, Running, SwapNext, RollbackNext, InstallNext, Lifecycle

\* The active path follows the restore, so that each verdict is true when given.
LEMMA PathStep == HInv /\ [Next]_vars => (ActivePath /\ VerdictHonest)'
<1> SUFFICES ASSUME HInv, [Next]_vars PROVE (ActivePath /\ VerdictHonest)'
  OBVIOUS
<1>s. /\ TypeOK /\ TypeOK' /\ ns \in disk /\ ns' \in disk'
      /\ op.step \in Step /\ op.verdict \in Outcome
  BY TypeStep DEF HInv, SInv, TInv, TypeOK
<1> USE <1>s, ChangeFields, ControlFields, ControlVerdict, SomeSteps, BoundsAssumption
    DEF HInv, SInv, Frame, SameFiles, SameDir, At, SameRestore, ActivePath,
        VerdictHonest, DownIsIdle, OwnsRestore, RollbackVerdict, RollbackStep,
        Places, RollbackForced, PriorIsSafe, InstallStep
<1>1. ASSUME NEW tool \in {"api", "cli"}, Stage(tool) PROVE (ActivePath /\ VerdictHonest)'
  <2>1. \A d \in disk : d.active \in Slot
    BY DEF TypeOK, Dir
  <2>2. \A d \in disk : d.active # NextVersion
    BY <1>1, <2>1, StageFacts, NextTaken DEF NumbersTaken, Taken
  <2> QED
    BY <1>1, <2>2, StageFacts
<1>2. CASE Checked
  BY <1>2 DEF Checked
<1>3. CASE SyncCandidate
  BY <1>3 DEF SyncCandidate, SyncDir
<1>4. CASE Close
  BY <1>4 DEF Close
<1>5. CASE ParkActive
  BY <1>5 DEF ParkActive, Rebind
<1>6. CASE SyncParked
  BY <1>6 DEF SyncParked, SyncDir
<1>7. CASE Promote
  BY <1>7 DEF Promote, Rebind
<1>8. CASE SyncPromoted
  BY <1>8 DEF SyncPromoted, SyncDir
<1>9. CASE Reopen
  BY <1>9 DEF Reopen
<1>10. CASE AfterSwap
  BY <1>10 DEF AfterSwap
<1>11. CASE SyncCommit
  BY <1>11 DEF SyncCommit, SyncDir
<1>12. CASE LogCompleted
  BY <1>12 DEF LogCompleted
<1>13. CASE DropRollback
  BY <1>13 DEF DropRollback, Rebind
<1>14. CASE SyncDropped
  BY <1>14 DEF SyncDropped, SyncDir
<1>15. CASE RbPark
  BY <1>15, RbParkFacts DEF RbPark
<1>16. CASE RbMove
  BY <1>16 DEF RbMove, Rebind
<1>17. CASE RbSync
  BY <1>17 DEF RbSync, SyncDir
<1>18. CASE RbReopen
  BY <1>18 DEF RbReopen
<1>19. CASE RbDrop
  BY <1>19, RbDropFacts
<1>20. CASE Link
  BY <1>20 DEF Link, Rebind
<1>21. CASE CheckLink
  BY <1>21 DEF CheckLink, SyncDir
<1>22. CASE Unlink
  BY <1>22 DEF Unlink, Rebind
<1>23. CASE Settle
  BY <1>23, SettleFacts, EndsKept
<1>24. CASE Boot
  BY <1>24, BootFacts
<1>25. CASE StartCli
  BY <1>25 DEF StartCli, CleanScratch, Rebind
<1>26. CASE Stop
  BY <1>26 DEF Stop
<1>27. CASE EnsureFresh
  BY <1>27, EnsureFacts
<1>28. CASE Kill
  BY <1>28 DEF Kill, Crash
<1>29. CASE PowerLoss
  BY <1>29 DEF PowerLoss, Crash
<1>30. CASE OperatorRecover
  BY <1>30 DEF OperatorRecover
<1>31. CASE UNCHANGED vars
  BY <1>31 DEF vars
<1> QED
  BY <1>1, <1>2, <1>3, <1>4, <1>5, <1>6, <1>7, <1>8, <1>9, <1>10, <1>11, <1>12,
     <1>13, <1>14, <1>15, <1>16, <1>17, <1>18, <1>19, <1>20, <1>21, <1>22, <1>23,
     <1>24, <1>25, <1>26, <1>27, <1>28, <1>29, <1>30, <1>31
     DEF Next, Running, SwapNext, RollbackNext, InstallNext, Lifecycle

\* Neither record nor sessions of the candidate get ahead of the commit.
LEMMA CandidateStep == HInv /\ [Next]_vars => (CandidateLogged /\ CandidateRevoked)'
<1> SUFFICES ASSUME HInv, [Next]_vars PROVE (CandidateLogged /\ CandidateRevoked)'
  OBVIOUS
<1>s. /\ TypeOK /\ TypeOK' /\ ns \in disk /\ ns' \in disk'
      /\ op.step \in Step /\ op.verdict \in Outcome
  BY TypeStep DEF HInv, SInv, TInv, TypeOK
<1> USE <1>s, ControlFields, ControlVerdict, SomeSteps
    DEF HInv, SInv, Frame, SameFiles, SameDir, At, SameRestore, CandidateLogged,
        CandidateRevoked, BeforeCommit, RollbackStep, InstallStep, SwapStep
<1>1. ASSUME NEW tool \in {"api", "cli"}, Stage(tool) PROVE (CandidateLogged /\ CandidateRevoked)'
  <2>1. NextVersion \notin carried \union logged
    BY <1>1, StageFacts, NextTaken DEF NumbersTaken, Taken, TypeOK, Slot
  <2> QED
    BY <1>1, <2>1, StageFacts
<1>2. CASE Checked
  BY <1>2 DEF Checked
<1>3. CASE SyncCandidate
  BY <1>3 DEF SyncCandidate, SyncDir
<1>4. CASE Close
  BY <1>4 DEF Close
<1>5. CASE ParkActive
  BY <1>5 DEF ParkActive, Rebind
<1>6. CASE SyncParked
  BY <1>6 DEF SyncParked, SyncDir
<1>7. CASE Promote
  BY <1>7 DEF Promote, Rebind
<1>8. CASE SyncPromoted
  BY <1>8 DEF SyncPromoted, SyncDir
<1>9. CASE Reopen
  BY <1>9 DEF Reopen
<1>10. CASE AfterSwap
  <2>1. CASE op.tool = "api"
    BY <1>10, <2>1 DEF AfterSwap
  <2>2. CASE op.tool = "cli"
    BY <1>10, <2>2 DEF AfterSwap
  <2> QED
    BY <2>1, <2>2 DEF TypeOK
<1>11. CASE SyncCommit
  BY <1>11 DEF SyncCommit, SyncDir
<1>12. CASE LogCompleted
  BY <1>12 DEF LogCompleted
<1>13. CASE DropRollback
  BY <1>13 DEF DropRollback, Rebind
<1>14. CASE SyncDropped
  BY <1>14 DEF SyncDropped, SyncDir
<1>15. CASE RbPark
  BY <1>15, RbParkFacts DEF RbPark
<1>16. CASE RbMove
  BY <1>16 DEF RbMove, Rebind
<1>17. CASE RbSync
  BY <1>17 DEF RbSync, SyncDir
<1>18. CASE RbReopen
  BY <1>18 DEF RbReopen
<1>19. CASE RbDrop
  BY <1>19, RbDropFacts
<1>20. CASE Link
  BY <1>20 DEF Link, Rebind
<1>21. CASE CheckLink
  BY <1>21 DEF CheckLink, SyncDir
<1>22. CASE Unlink
  BY <1>22 DEF Unlink, Rebind
<1>23. CASE Settle
  BY <1>23, SettleFacts, EndsKept
<1>24. CASE Boot
  BY <1>24, BootFacts
<1>25. CASE StartCli
  BY <1>25 DEF StartCli, CleanScratch, Rebind
<1>26. CASE Stop
  BY <1>26 DEF Stop
<1>27. CASE EnsureFresh
  BY <1>27, EnsureFacts
<1>28. CASE Kill
  BY <1>28 DEF Kill, Crash
<1>29. CASE PowerLoss
  BY <1>29 DEF PowerLoss, Crash
<1>30. CASE OperatorRecover
  BY <1>30 DEF OperatorRecover
<1>31. CASE UNCHANGED vars
  BY <1>31 DEF vars
<1> QED
  BY <1>1, <1>2, <1>3, <1>4, <1>5, <1>6, <1>7, <1>8, <1>9, <1>10, <1>11, <1>12,
     <1>13, <1>14, <1>15, <1>16, <1>17, <1>18, <1>19, <1>20, <1>21, <1>22, <1>23,
     <1>24, <1>25, <1>26, <1>27, <1>28, <1>29, <1>30, <1>31
     DEF Next, Running, SwapNext, RollbackNext, InstallNext, Lifecycle

\* What the outside sees of sessions, audit and scratch files.
LEMMA AuditStep == HInv /\ [Next]_vars => (SettledSessionsRevoked /\ AuditTruthful /\ ScratchCleared)'
<1> SUFFICES ASSUME HInv, [Next]_vars PROVE (SettledSessionsRevoked /\ AuditTruthful /\ ScratchCleared)'
  OBVIOUS
<1>s. /\ TypeOK /\ TypeOK' /\ ns \in disk /\ ns' \in disk'
      /\ op.step \in Step /\ op.verdict \in Outcome
  BY TypeStep DEF HInv, SInv, TInv, TypeOK
<1> USE <1>s, ControlFields, ControlVerdict, SomeSteps, ChangeFields
    DEF HInv, SInv, DownIsIdle, Frame, SameFiles, SameDir, At, SameRestore,
        SettledSessionsRevoked, AuditTruthful, ScratchCleared, CandidateLogged,
        CandidateRevoked, OwnsRestore, PriorIsSafe, RollbackVerdict,
        BeforeCommit, RollbackStep, InstallStep, SwapStep, Pending
<1>1. ASSUME NEW tool \in {"api", "cli"}, Stage(tool) PROVE (SettledSessionsRevoked /\ AuditTruthful /\ ScratchCleared)'
  <2>1. safe # NextVersion
    BY <1>1, StageFacts, NextTaken DEF Numbered, TypeOK
  <2> QED
    BY <1>1, <2>1, StageFacts
<1>2. CASE Checked
  BY <1>2 DEF Checked
<1>3. CASE SyncCandidate
  BY <1>3 DEF SyncCandidate, SyncDir
<1>4. CASE Close
  BY <1>4 DEF Close
<1>5. CASE ParkActive
  BY <1>5 DEF ParkActive, Rebind
<1>6. CASE SyncParked
  BY <1>6 DEF SyncParked, SyncDir
<1>7. CASE Promote
  BY <1>7 DEF Promote, Rebind
<1>8. CASE SyncPromoted
  BY <1>8 DEF SyncPromoted, SyncDir
<1>9. CASE Reopen
  BY <1>9 DEF Reopen
<1>10. CASE AfterSwap
  BY <1>10 DEF AfterSwap
<1>11. CASE SyncCommit
  BY <1>11 DEF SyncCommit, SyncDir
<1>12. CASE LogCompleted
  BY <1>12 DEF LogCompleted
<1>13. CASE DropRollback
  BY <1>13 DEF DropRollback, Rebind
<1>14. CASE SyncDropped
  BY <1>14 DEF SyncDropped, SyncDir
<1>15. CASE RbPark
  BY <1>15, RbParkFacts DEF RbPark
<1>16. CASE RbMove
  BY <1>16 DEF RbMove, Rebind
<1>17. CASE RbSync
  BY <1>17 DEF RbSync, SyncDir
<1>18. CASE RbReopen
  BY <1>18 DEF RbReopen
<1>19. CASE RbDrop
  BY <1>19, RbDropFacts
<1>20. CASE Link
  BY <1>20 DEF Link, Rebind
<1>21. CASE CheckLink
  BY <1>21 DEF CheckLink, SyncDir
<1>22. CASE Unlink
  BY <1>22 DEF Unlink, Rebind
<1>23. CASE Settle
  BY <1>23, SettleFacts, EndsKept
<1>24. CASE Boot
  BY <1>24, BootFacts
<1>25. CASE StartCli
  BY <1>25 DEF StartCli, CleanScratch, Rebind
<1>26. CASE Stop
  BY <1>26 DEF Stop
<1>27. CASE EnsureFresh
  <2>1. NextVersion \notin carried
    BY <1>27, EnsureFacts, NextTaken DEF NumbersTaken, Taken, TypeOK, Slot
  <2> QED
    BY <1>27, <2>1, EnsureFacts
<1>28. CASE Kill
  BY <1>28 DEF Kill, Crash
<1>29. CASE PowerLoss
  BY <1>29 DEF PowerLoss, Crash
<1>30. CASE OperatorRecover
  BY <1>30 DEF OperatorRecover
<1>31. CASE UNCHANGED vars
  BY <1>31 DEF vars
<1> QED
  BY <1>1, <1>2, <1>3, <1>4, <1>5, <1>6, <1>7, <1>8, <1>9, <1>10, <1>11, <1>12,
     <1>13, <1>14, <1>15, <1>16, <1>17, <1>18, <1>19, <1>20, <1>21, <1>22, <1>23,
     <1>24, <1>25, <1>26, <1>27, <1>28, <1>29, <1>30, <1>31
     DEF Next, Running, SwapNext, RollbackNext, InstallNext, Lifecycle

\* The strengthening holds initially.
LEMMA InitH == Init => HInv
<1>1. SUFFICES ASSUME NEW first \in {0, None}, InitFrom(first)
               PROVE  HInv
  BY DEF Init
<1>2. SInv
  BY <1>1, InitS DEF Init
<1>3. /\ op.step = "idle" /\ mode = "down" /\ handleOn = None
      /\ disk = {ns} /\ ns.active \in {0, None} /\ ns.rollback = None
      /\ carried = {} /\ logged = {} /\ budget.versions = 0
  BY <1>1 DEF InitFrom
<1>4. NumbersTaken
  BY <1>3 DEF NumbersTaken, Taken
<1> QED
  BY <1>2, <1>3, <1>4
     DEF HInv, HandleClosed, Closed, InstallStep, OwnsRestore, ActivePath,
     RollbackVerdict, RollbackStep, CandidateLogged, CandidateRevoked, BeforeCommit,
     SwapStep, HandleOnActive, VerdictHonest, SettledSessionsRevoked, AuditTruthful,
     ScratchCleared

\* It is inductive.
LEMMA HInvStep == HInv /\ [Next]_vars => HInv'
BY SafeStep, NumbersStep, HandleStep, OwnerStep, PathStep, CandidateStep, AuditStep
   DEF HInv

LEMMA HInvAlways == Spec => []HInv
BY InitH, HInvStep, PTL DEF Spec

\* No write can go to a file that the swap has moved aside: whatever fails, an
\* open handle is on the active file.
THEOREM HandleAlwaysOnActive == Spec => []HandleOnActive
<1>1. HInv => HandleOnActive
  BY DEF HInv
<1> QED
  BY <1>1, HInvAlways, PTL

\* The verdict of a restore is true of every state that a power loss could
\* leave at the moment it is reported.
THEOREM VerdictAlwaysHonest == Spec => []VerdictHonest
<1>1. HInv => VerdictHonest
  BY DEF HInv
<1> QED
  BY <1>1, HInvAlways, PTL

\* A stray database is served only beside a pending rollback copy: the current
\* one is at one of the two places, and the handle is on the other.
THEOREM StrayOnlyWhilePending == Spec => []StrayServedOnlyWhilePending
<1>1. HInv => StrayServedOnlyWhilePending
  BY DEF HInv, SInv, TInv, TypeOK, DurableSafe, HandleOnActive,
         StrayServedOnlyWhilePending, Pending
<1> QED
  BY <1>1, HInvAlways, PTL

\* The sessions of a backup are revoked before its restore settles.
THEOREM SessionsRevoked == Spec => []SettledSessionsRevoked
<1>1. HInv => SettledSessionsRevoked
  BY DEF HInv
<1> QED
  BY <1>1, HInvAlways, PTL

\* The audit claims completion of what the API committed and of nothing else.
THEOREM AuditAlwaysTruthful == Spec => []AuditTruthful
<1>1. HInv => AuditTruthful
  BY DEF HInv
<1> QED
  BY <1>1, HInvAlways, PTL

\* A serving API has no decrypted candidate left, unless it is kept beside a
\* pending rollback copy.
THEOREM ScratchAlwaysCleared == Spec => []ScratchCleared
<1>1. HInv => ScratchCleared
  BY DEF HInv
<1> QED
  BY <1>1, HInvAlways, PTL

----------------------------------------------------------------------------
(* The restore implements AtomicRestore.  What that needs beyond HInv is   *)
(* that the verdict follows the commit.                                    *)

CommitTold ==
  /\ op.step \in BeforeCommit => op.cand # safe
  /\ op.step \in {"dropRollback", "syncDropped"} => op.cand = safe
  /\ op.step \in {"finally", "stuck"} =>
       /\ op.verdict \notin {"none", "interrupted"}
       /\ op.verdict = "committed" <=> op.cand = safe
  /\ op.step = "stuck" => op.cand \in Version

\* A crash ends the restore under way, and leaves the verdict of one that had ended.
LEMMA CrashFacts ==
  ASSUME TypeOK, Kill \/ PowerLoss
  PROVE  /\ op'.step = "idle" /\ op'.cand = op.cand
         /\ op.step = "idle" => op' = op
         /\ op.step # "idle" => op'.verdict = "interrupted"
         /\ UNCHANGED safe
<1>1. Crash
  BY DEF Kill, PowerLoss
<1>2. /\ op' = [op EXCEPT !.step = "idle",
              !.verdict = IF op.step = "idle" THEN @ ELSE "interrupted"]
      /\ UNCHANGED safe
  BY <1>1 DEF Crash
<1>3. op \in [step : Step, tool : {"api", "cli"}, prior : Slot, cand : Slot,
              parked : Slot, verdict : Outcome]
  BY DEF TypeOK
<1> QED
  BY <1>2, <1>3

\* The candidate follows the current database exactly when the verdict says so.
LEMMA ToldStep == HInv /\ CommitTold /\ [Next]_vars => CommitTold'
<1> SUFFICES ASSUME HInv, CommitTold, [Next]_vars PROVE CommitTold'
  OBVIOUS
<1>s. TypeOK /\ CandidateKnown /\ op.step \in Step /\ op.verdict \in Outcome
  BY DEF HInv, SInv, TInv, TypeOK
<1> USE <1>s, ControlFields, ControlVerdict, SomeSteps
    DEF HInv, SInv, DownIsIdle, Frame, At, SameRestore, OwnsRestore, PriorIsSafe,
        RollbackVerdict, CommitTold, BeforeCommit, RollbackStep, InstallStep, SwapStep
<1>1. ASSUME NEW tool \in {"api", "cli"}, Stage(tool) PROVE CommitTold'
  <2>1. safe # NextVersion
    BY <1>1, StageFacts, NextTaken DEF Numbered, TypeOK
  <2> QED
    BY <1>1, <2>1, StageFacts
<1>2. CASE Checked
  BY <1>2 DEF Checked
<1>3. CASE SyncCandidate \/ Close \/ ParkActive
  BY <1>3 DEF SyncCandidate, Close, ParkActive
<1>4. CASE SyncParked \/ Promote \/ SyncPromoted \/ Reopen
  BY <1>4 DEF SyncParked, Promote, SyncPromoted, Reopen
<1>5. CASE AfterSwap \/ SyncCommit
  BY <1>5 DEF AfterSwap, SyncCommit
<1>6. CASE LogCompleted
  BY <1>6 DEF LogCompleted
<1>7. CASE DropRollback \/ SyncDropped
  BY <1>7 DEF DropRollback, SyncDropped
<1>8. CASE RbPark
  BY <1>8, RbParkFacts DEF RbPark
<1>9. CASE RbMove \/ RbSync \/ RbReopen
  BY <1>9 DEF RbMove, RbSync, RbReopen
<1>10. CASE RbDrop
  BY <1>10, RbDropFacts
<1>11. CASE Link \/ Unlink
  BY <1>11 DEF Link, Unlink, Rebind
<1>18. CASE CheckLink
  BY <1>18 DEF CheckLink
<1>12. CASE Settle
  <2>1. op'.verdict = op.verdict
    BY <1>12 DEF Settle, TypeOK
  <2> QED
    BY <1>12, <2>1, SettleFacts DEF CandidateKnown
<1>13. CASE Boot \/ StartCli \/ OperatorRecover
  BY <1>13 DEF Boot, StartCli, OperatorRecover
<1>14. CASE Stop
  BY <1>14 DEF Stop, TypeOK
<1>15. CASE EnsureFresh
  BY <1>15, EnsureFacts
<1>16. CASE Kill \/ PowerLoss
  BY <1>16, CrashFacts
<1>17. CASE UNCHANGED vars
  BY <1>17 DEF vars
<1> QED
  BY <1>1, <1>2, <1>3, <1>4, <1>5, <1>6, <1>7, <1>8, <1>9, <1>10, <1>11, <1>12,
     <1>13, <1>14, <1>15, <1>16, <1>17, <1>18
     DEF Next, Running, SwapNext, RollbackNext, InstallNext, Lifecycle

\* A data root is first one database that is kept, or none.
LEMMA PromiseInit == Init => Promise!Init
<1> SUFFICES ASSUME NEW first \in {0, None}, InitFrom(first) PROVE Promise!Init
  BY DEF Init
<1>1. /\ op.step = "idle" /\ op.verdict = "none"
      /\ safe = first /\ disk = {ns} /\ ns.active = first /\ ns.rollback = None
      /\ \A v \in Version : data[v] = "durable" <=> v = first
  BY DEF InitFrom
<1>2. 0 \in Version /\ None \notin Version
  BY BoundsAssumption DEF Version
<1>3. Kept = {safe} \ {None}
  BY <1>1, <1>2 DEF Kept
<1> QED
  BY <1>1, <1>2, <1>3 DEF Promise!Init, Reported

\* Every step of a restore, a start or a crash is one of AtomicRestore's.
LEMMA PromiseStep ==
  HInv /\ HInv' /\ CommitTold /\ CommitTold' /\ [Next]_vars => [Promise!Next]_(Promise!vars)
<1> SUFFICES ASSUME HInv, HInv', CommitTold, CommitTold', [Next]_vars
             PROVE  Promise!Next
  OBVIOUS
<1>s. /\ TypeOK /\ CandidateKnown /\ op.step \in Step /\ op.verdict \in Outcome
      /\ ns \in disk /\ safe \in Version \union {None} /\ None \notin Version
  BY BoundsAssumption DEF HInv, SInv, TInv, TypeOK, Slot, Version
<1>h. Promise!Holding
  <2>1. safe' \in Version \union {None}
    BY DEF HInv, SInv, TInv, TypeOK, Slot
  <2> QED
    BY <2>1 DEF Promise!Holding, Kept, HInv, SInv, DurableSafe
<1>m. ASSUME UNCHANGED safe, op.step # "idle", op'.step # "idle", op'.cand = op.cand
      PROVE  Promise!Next
  BY <1>m, <1>h DEF Promise!Next, Promise!Move, Reported
<1>i. ASSUME UNCHANGED <<safe, op>> PROVE Promise!Next
  BY <1>i, <1>h DEF Promise!Next, Promise!Move, Reported
<1>c. ASSUME op.step # "idle", op'.step # "idle", op'.cand = op.cand, op.cand \in Version,
             op.cand # safe, safe' = op.cand,
             safe # None => safe \in Kept'
      PROVE  Promise!Next
  BY <1>c, <1>s, <1>h DEF Promise!Next, Promise!Commit, Reported
<1> USE <1>s, ControlFields, ControlVerdict, SomeSteps
    DEF At, SameRestore, Frame
<1>1. ASSUME NEW tool \in {"api", "cli"}, Stage(tool) PROVE Promise!Next
  <2>1. NextVersion \in Version
    BY <1>1, BoundsAssumption DEF Stage, NextVersion, Version, TypeOK
  <2>2. NextVersion \notin Kept
    <3>1. ns.active \in Slot /\ ns.rollback \in Slot
      BY DEF TypeOK, Dir
    <3> QED
      BY <1>1, <3>1, StageFacts, NextTaken DEF Kept, HInv, NumbersTaken, Taken
  <2>3. Promise!Begin
    BY <1>1, <1>h, <2>1, <2>2, StageFacts DEF Promise!Begin, Reported
  <2> QED
    BY <2>3 DEF Promise!Next
<1>2. CASE Checked
  BY <1>2, <1>m DEF Checked
<1>3. CASE SyncCandidate \/ Close \/ ParkActive
  BY <1>3, <1>m DEF SyncCandidate, Close, ParkActive
<1>4. CASE SyncParked \/ Promote \/ SyncPromoted \/ Reopen
  BY <1>4, <1>m DEF SyncParked, Promote, SyncPromoted, Reopen
<1>5. CASE AfterSwap \/ SyncCommit
  BY <1>5, <1>m DEF AfterSwap, SyncCommit
<1>6. CASE LogCompleted
  <2>1. CASE safe' = op.cand
    <3>1. safe # None => safe \in Kept'
      BY <1>6 DEF LogCompleted, SameFiles, Kept, HInv, SInv, DurableSafe
    <3>2. op.cand # safe /\ op.cand \in Version
      BY <1>6 DEF LogCompleted, CommitTold, BeforeCommit, SwapStep, CandidateKnown
    <3> QED
      BY <1>6, <1>c, <2>1, <3>1, <3>2 DEF LogCompleted
  <2>2. CASE UNCHANGED safe
    BY <1>6, <1>m, <2>2 DEF LogCompleted
  <2> QED
    BY <1>6, <2>1, <2>2 DEF LogCompleted
<1>7. CASE DropRollback \/ SyncDropped
  BY <1>7, <1>m DEF DropRollback, SyncDropped
<1>8. CASE RbPark
  BY <1>8, <1>m, RbParkFacts
<1>9. CASE RbMove \/ RbSync \/ RbReopen
  BY <1>9, <1>m DEF RbMove, RbSync, RbReopen
<1>10. CASE RbDrop
  BY <1>10, <1>m, RbDropFacts
<1>11. CASE Link \/ Unlink
  BY <1>11, <1>m DEF Link, Unlink
<1>12. CASE CheckLink
  <2>1. CASE safe' = op.cand
    <3>1. safe = None
      BY <1>12 DEF CheckLink, HInv, SInv, PriorIsSafe, BeforeCommit, InstallStep
    <3>2. op.cand # safe /\ op.cand \in Version
      BY <1>12 DEF CheckLink, CommitTold, BeforeCommit, InstallStep, CandidateKnown
    <3> QED
      BY <1>12, <1>c, <2>1, <3>1, <3>2 DEF CheckLink
  <2>2. CASE UNCHANGED safe
    BY <1>12, <1>m, <2>2 DEF CheckLink
  <2> QED
    BY <1>12, <2>1, <2>2 DEF CheckLink
<1>a. ASSUME op.step \in {"finally", "stuck"}, op'.step = "idle", op'.verdict = op.verdict,
             UNCHANGED safe
      PROVE  Promise!Next
  <2>1. op.cand \in Version
    BY <1>a DEF CommitTold, CandidateKnown
  <2>2. Reported' \in IF safe = op.cand THEN {"replaced"} ELSE {"kept", "unknown"}
    BY <1>a DEF Reported, CommitTold, Outcome
  <2>3. Promise!Answer
    BY <1>a, <1>h, <2>1, <2>2 DEF Promise!Answer
  <2> QED
    BY <2>3 DEF Promise!Next
<1>13. CASE Settle
  <2>1. op'.verdict = op.verdict
    BY <1>13 DEF Settle, TypeOK
  <2> QED
    BY <1>13, <1>m, <1>a, <2>1, SettleFacts
<1>14. CASE Boot \/ StartCli \/ OperatorRecover
  BY <1>14, <1>i DEF Boot, StartCli, OperatorRecover
<1>15. CASE Stop
  <2>1. op'.step = "idle" /\ op'.verdict = op.verdict /\ op'.cand = op.cand
    BY <1>15 DEF Stop, TypeOK
  <2>2. CASE op.step = "idle"
    <3>1. op' = op
      BY <1>15, <2>2 DEF Stop, TypeOK
    <3> QED
      BY <1>15, <1>i, <3>1 DEF Stop
  <2> QED
    BY <1>15, <1>a, <2>1, <2>2 DEF Stop
<1>16. CASE EnsureFresh
  <2>1. CASE UNCHANGED safe
    BY <1>16, <1>i, <2>1, EnsureFacts
  <2>2. CASE safe' = NextVersion /\ ~Pending
    <3>1. safe = None /\ op.step = "idle"
      BY <1>16, <2>2 DEF EnsureFresh, Pending, HInv, SInv, DurableSafe, DownIsIdle
    <3>2. NextVersion \in Version
      BY <1>16, BoundsAssumption DEF EnsureFresh, NextVersion, Version, TypeOK
    <3>3. NextVersion \notin Kept
      BY <1>16, <2>2, <3>2 DEF EnsureFresh, Pending, Kept
    <3>4. Promise!Create
      BY <1>16, <1>h, <2>2, <3>1, <3>2, <3>3 DEF EnsureFresh, Promise!Create, Reported
    <3> QED
      BY <3>4 DEF Promise!Next
  <2> QED
    BY <1>16, <2>1, <2>2 DEF EnsureFresh
<1>17. CASE Kill \/ PowerLoss
  <2>1. CASE op.step = "idle"
    BY <1>17, <1>i, <2>1, CrashFacts
  <2>2. CASE op.step # "idle"
    <3>1. op.cand \in Version
      BY <2>2 DEF CommitTold, CandidateKnown
    <3>2. Promise!Die
      BY <1>17, <1>h, <2>2, <3>1, CrashFacts DEF Promise!Die, Reported
    <3> QED
      BY <3>2 DEF Promise!Next
  <2> QED
    BY <2>1, <2>2
<1>18. CASE UNCHANGED vars
  BY <1>18, <1>i DEF vars
<1> QED
  BY <1>1, <1>2, <1>3, <1>4, <1>5, <1>6, <1>7, <1>8, <1>9, <1>10, <1>11, <1>12,
     <1>13, <1>14, <1>15, <1>16, <1>17, <1>18
     DEF Next, Running, SwapNext, RollbackNext, InstallNext, Lifecycle

\* For every bound: a restore replaces the current database at one instant by
\* the one it staged, when both would survive a power loss, or not at all, and
\* its verdict says which.
THEOREM RestoreIsAtomic == Spec => RestoresAtomically
<1>1. Init => CommitTold
  BY DEF Init, InitFrom, CommitTold, BeforeCommit, RollbackStep, InstallStep, SwapStep
<1> QED
  BY InitH, HInvStep, ToldStep, PromiseInit, PromiseStep, <1>1, PTL
     DEF Spec, RestoresAtomically, Promise!Spec

=============================================================================
