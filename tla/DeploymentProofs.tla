-------------------------- MODULE DeploymentProofs --------------------------
(***************************************************************************)
(* What Deployment keeps for every set of releases and commits, every      *)
(* number of failing calls and crashes, and histories of any length.       *)
(***************************************************************************)
EXTENDS Deployment, TLAPS

\* Each retained record describes one build, the one it is filed under.
Filing ==
  \A n \in Name : records[n] # None =>
    /\ records[n].image = records[n].spa
    /\ n \in Release => records[n].image = n
    /\ n \in Commit => CommitOf[records[n].image] = n

\* A record of what is current names a retained record that says the same.
Cites(c) == c # None => records[c.name] = [image |-> c.image, spa |-> c.spa]

\* Before the first success there is nothing current; what is installed can
\* then be named by its commit as soon as any record is retained.
Adopted ==
  marker = None /\ current = None /\ (\E n \in Name : records[n] # None) =>
    records[CommitOf[unit]] # None

MarkerSound ==
  marker # None =>
    /\ Cites(marker.current)
    /\ IF marker.current = None
         THEN marker.name = CommitOf[marker.image]
         ELSE marker.current.image = marker.image
                /\ marker.current.spa = marker.spa

\* A switch or a restore works under a marker, a command has a target.
Engaged ==
  /\ marker = None => cmd.step \in {"idle", "mark"}
  /\ ~At("idle") => cmd.name \in Name

\* What the running command is about.
Purpose ==
  /\ ~At("idle") => cmd.kind # "none"
  /\ At("mark") =>
       /\ marker = None /\ cmd.kind # "resume"
       /\ cmd.kind = "deploy" =>
            records[CommitOf[unit]] = [image |-> unit, spa |-> pointer]
  /\ cmd.step \in {"mark", "stage"} /\ cmd.kind = "deploy" =>
       cmd.name \in Release /\ cmd.goal = Build(cmd.name)
  /\ At("stage") => cmd.kind = "deploy"
  /\ cmd.kind = "rollback" => records[cmd.name] = cmd.goal
  /\ cmd.kind = "resume" =>
       cmd.step \in RestoreStep /\ cmd.name = marker.name
         /\ records[cmd.name] = cmd.goal
  /\ cmd.step \in Step \ ({"idle", "mark", "stage"} \union RestoreStep) =>
       records[cmd.name] = cmd.goal

PointerSet  == {"restartWeb", "health", "record", "close"}
CopySet     == {"reload", "restartApi", "switch"} \union PointerSet
UnitSet     == {"setCopy"} \union CopySet
PointerBack == {"rsWeb", "rsHealth", "rsCurrent", "rsRecord", "rsClose"}
CopyBack    == {"rsReload", "rsRestart", "rsSwitch"} \union PointerBack
UnitBack    == {"rsCopy"} \union CopyBack

\* How far the running command has come.
Progress ==
  /\ cmd.step \in UnitSet => unit = cmd.goal.image
  /\ cmd.step \in CopySet => copy = unit
  /\ cmd.step \in PointerSet => pointer = cmd.goal.spa
  /\ At("close") => current = Recorded
  /\ cmd.step \in UnitBack => unit = marker.image
  /\ cmd.step \in CopyBack => copy = marker.image
  /\ cmd.step \in PointerBack => pointer = marker.spa
  /\ At("rsRecord") => cmd.kind = "resume"
  /\ At("rsClose") =>
       current = IF cmd.kind = "resume" THEN Recorded ELSE marker.current

TInv == TypeOK /\ Engaged

IInv ==
  /\ TInv /\ Filing /\ Cites(current) /\ Adopted /\ MarkerSound
  /\ Purpose /\ Progress /\ Coherent /\ Recoverable

-----------------------------------------------------------------------------
(* Type correctness.                                                       *)

CmdType == [step : Step, kind : {"none", "deploy", "rollback", "resume"},
            name : Name \union {None}, goal : Pair]
BudgetType == [faults : 0..MaxFaults, crashes : 0..MaxCrashes]
LEMMA NoCmdType == NoCmd \in CmdType /\ NoCmd.step = "idle"
  BY ReleaseAssumption
     DEF NoCmd, CmdType, Step, RestoreStep, Name, Pair

LEMMA InitType == Init => TInv
<1> SUFFICES ASSUME Init PROVE TInv
  OBVIOUS
<1>1. budget \in [faults : 0..MaxFaults, crashes : 0..MaxCrashes]
  BY ReleaseAssumption DEF Init
<1>2. records \in [Name -> Pair \union {None}]
  BY DEF Init
<1>3. cmd \in CmdType
  BY NoCmdType DEF Init
<1> QED
  BY <1>1, <1>2, <1>3, ReleaseAssumption DEF Init, TInv, TypeOK, CmdType, Engaged, NoCmd, At

LEMMA FaultType == ASSUME TypeOK, Fault PROVE budget' \in BudgetType
  BY ReleaseAssumption DEF TypeOK, Fault, BudgetType

LEMMA CrashType == ASSUME TypeOK, Crash PROVE budget' \in BudgetType
  BY ReleaseAssumption DEF TypeOK, Crash, BudgetType

\* However a step leaves the command, command and budget stay typed.
LEMMA GotoType ==
  ASSUME TypeOK, NEW next \in Step, Goto(next)
  PROVE  cmd' \in CmdType /\ budget' \in BudgetType
  BY DEF TypeOK, Goto, CmdType, BudgetType

LEMMA FailType ==
  ASSUME TypeOK, Fail PROVE cmd' \in CmdType /\ budget' \in BudgetType
  BY FaultType DEF TypeOK, Fail, CmdType, Step, RestoreStep

LEMMA GiveUpType ==
  ASSUME TypeOK, GiveUp PROVE cmd' \in CmdType /\ budget' \in BudgetType
  BY FaultType, NoCmdType DEF GiveUp

LEMMA MoveEffect ==
  ASSUME TypeOK
  PROVE  /\ \A s \in Step : Goto(s) => cmd'.step = s /\ cmd'.name = cmd.name
         /\ Fail => cmd'.step = "restore" /\ cmd'.name = cmd.name
         /\ GiveUp => cmd'.step = "idle"
  BY DEF TypeOK, Goto, Fail, GiveUp, NoCmd

LEMMA SnapshotType == ASSUME TypeOK PROVE Snapshot \in Saved
  BY ReleaseAssumption
     DEF TypeOK, Snapshot, PreviousName, Saved, Name, Record

\* Deployment keeps its variables in their domains.
LEMMA TypeStep == TInv /\ [Next]_vars => TInv'
<1> SUFFICES ASSUME TInv, [Next]_vars PROVE TInv'
  OBVIOUS
<1> USE ReleaseAssumption, NoneAssumption, MoveEffect, GotoType, FailType, GiveUpType, NoCmdType, CrashType
        DEF TInv, TypeOK, Engaged, CmdType, BudgetType, files, host, Then, At
<1>s. /\ RestoreStep \subseteq Step
      /\ {"idle", "mark", "stage", "setUnit", "setCopy", "reload",
          "restartApi", "switch", "restartWeb", "health", "record",
          "close"} \subseteq Step
      /\ RestoreStep = {"restore", "rsUnit", "rsCopy", "rsReload",
           "rsRestart", "rsSwitch", "rsWeb", "rsHealth", "rsCurrent",
           "rsRecord", "rsClose"}
  BY DEF Step, RestoreStep
<1>1. ASSUME NEW r \in Release, BeginDeploy(r) PROVE TInv'
  BY <1>1, <1>s DEF BeginDeploy, Preflight, FileLegacy, Up, Build, Name, Pair
<1>2. ASSUME NEW n \in Name, BeginRollback(n) PROVE TInv'
  BY <1>2, <1>s DEF BeginRollback, Retained
<1>3. ASSUME NEW n \in Name, Resume(n) PROVE TInv'
  BY <1>3, <1>s DEF Resume, Retained
<1>4. CASE Mark
  BY <1>4, <1>s, SnapshotType DEF Mark, Saved
<1>5. CASE Stage
  BY <1>5, <1>s DEF Stage, File, Name, Pair
<1>6. CASE SetUnit
  BY <1>6, <1>s DEF SetUnit, Pair
<1>7. CASE SetCopy
  BY <1>7, <1>s DEF SetCopy
<1>8. CASE Reload
  BY <1>8, <1>s DEF Reload
<1>9. CASE RestartApi
  BY <1>9, <1>s DEF RestartApi, Restart
<1>10. CASE Switch
  BY <1>10, <1>s DEF Switch, Pair
<1>11. CASE RestartWeb
  BY <1>11, <1>s DEF RestartWeb, Restart
<1>12. CASE Health
  BY <1>12, <1>s DEF Health
<1>13. CASE WriteRecord
  BY <1>13, <1>s DEF WriteRecord, Recorded, Record, Pair, Name
<1>14. CASE Close
  BY <1>14, <1>s DEF Close
<1>15. CASE Restore
  <2>1. marker \in Saved
    BY <1>15 DEF Restore
  <2>2. [marker EXCEPT !.tried = TRUE] \in Saved
    BY <2>1 DEF Saved
  <2>3. (repeated \/ marker.tried) \in BOOLEAN
    OBVIOUS
  <2>4. CASE GiveUp /\ UNCHANGED <<marker, repeated>>
    BY <1>15, <2>4, <1>s DEF Restore
  <2>5. ASSUME NEW s \in Step, s \in RestoreStep, Goto(s),
               marker' = [marker EXCEPT !.tried = TRUE],
               repeated' = (repeated \/ marker.tried)
        PROVE  TInv'
    BY <1>15, <2>1, <2>2, <2>3, <2>5, <1>s DEF Restore
  <2> QED
    BY <1>15, <1>s, <2>4, <2>5 DEF Restore
<1>16. CASE RsUnit
  BY <1>16, <1>s DEF RsUnit, Saved
<1>17. CASE RsCopy
  BY <1>17, <1>s DEF RsCopy, Saved
<1>18. CASE RsReload
  BY <1>18, <1>s DEF RsReload
<1>19. CASE RsRestart
  BY <1>19, <1>s DEF RsRestart, Restart
<1>20. CASE RsSwitch
  BY <1>20, <1>s DEF RsSwitch, Saved
<1>21. CASE RsWeb
  BY <1>21, <1>s DEF RsWeb, Restart
<1>22. CASE RsHealth
  BY <1>22, <1>s DEF RsHealth
<1>23. CASE RsCurrent
  BY <1>23, <1>s DEF RsCurrent, Saved
<1>24. CASE RsRecord
  BY <1>24, <1>s DEF RsRecord, Recorded, Record, Pair, Name
<1>25. CASE RsClose
  BY <1>25, <1>s DEF RsClose
<1>26. CASE Kill
  BY <1>26, <1>s DEF Kill
<1>27. CASE Reboot
  BY <1>27, <1>s DEF Reboot, Saved
<1>28. CASE ServiceUp
  BY <1>28, <1>s DEF ServiceUp
<1>29. CASE UNCHANGED vars
  BY <1>29 DEF vars
<1> QED
  BY <1>1, <1>2, <1>3, <1>4, <1>5, <1>6, <1>7, <1>8, <1>9, <1>10, <1>11, <1>12, <1>13, <1>14, <1>15, <1>16, <1>17, <1>18, <1>19, <1>20, <1>21, <1>22, <1>23, <1>24, <1>25, <1>26, <1>27, <1>28, <1>29
     DEF Next, Begin, Recover, Working

\* Every behaviour of Deployment keeps its variables in their domains.
THEOREM TypeCorrect == Spec => []TypeOK
<1>1. TInv => TypeOK
  BY DEF TInv
<1> QED
  BY InitType, TypeStep, <1>1, PTL DEF Spec

-----------------------------------------------------------------------------
(* Coherent and Recoverable.  Alone they are not inductive: that a closed  *)
(* transaction leaves one release depends on how far its command had come  *)
(* and on what the retained records say.                                   *)

\* No two releases are built from one commit.
DistinctCommits ==
  \A r, s \in Release : CommitOf[r] = CommitOf[s] => r = s

LEMMA InitI == Init => IInv
<1> SUFFICES ASSUME Init PROVE IInv
  OBVIOUS
<1>1. TInv
  BY InitType
<1> QED
  BY <1>1, ReleaseAssumption
     DEF Init, IInv, Filing, Cites, Adopted, MarkerSound, Purpose, Progress,
         Coherent, Recoverable, NoCmd, At, RestoreStep, Step, PointerSet,
         CopySet, UnitSet, PointerBack, CopyBack, UnitBack

\* Moving on keeps what the command is about.
LEMMA MoveKeeps ==
  ASSUME TypeOK
  PROVE  /\ \A s \in Step : Goto(s) =>
              /\ cmd'.step = s /\ cmd'.name = cmd.name
              /\ cmd'.kind = cmd.kind /\ cmd'.goal = cmd.goal
         /\ Fail =>
              /\ cmd'.step = "restore" /\ cmd'.name = cmd.name
              /\ cmd'.kind = cmd.kind /\ cmd'.goal = cmd.goal
         /\ GiveUp => cmd'.step = "idle" /\ cmd'.kind = "none"
         /\ NoCmd.step = "idle" /\ NoCmd.kind = "none"
  BY DEF TypeOK, Goto, Fail, GiveUp, NoCmd

\* What the marker saves is retained under the name it gives.
LEMMA SavedRetained ==
  ASSUME DistinctCommits, IInv, At("mark")
  PROVE  records[PreviousName] = [image |-> unit, spa |-> pointer]
<1> USE DEF IInv, TInv, At
<1>1. /\ marker = None /\ unit = copy /\ unit = pointer
      /\ cmd.kind \in {"deploy", "rollback"}
  BY DEF Purpose, Coherent, TypeOK
<1>2. CASE cmd.kind = "deploy"
  BY <1>2 DEF Purpose, PreviousName
<1>3. CASE cmd.kind = "rollback" /\ current # None
  BY <1>1, <1>3 DEF Cites, Coherent, PreviousName
<1>4. CASE cmd.kind = "rollback" /\ current = None
  <2>1. records[cmd.name] # None /\ cmd.name \in Name
    BY <1>4, NoneAssumption DEF Purpose, TypeOK, Engaged
  <2>2. records[CommitOf[unit]] # None
    BY <1>1, <1>4, <2>1 DEF Adopted
  <2>3. CommitOf[unit] \in Commit /\ CommitOf[unit] \in Name
    BY ReleaseAssumption DEF TypeOK, Name
  <2>4. records[CommitOf[unit]] \in Pair
    BY <2>2, <2>3 DEF TypeOK
  <2>5. /\ records[CommitOf[unit]].image = unit
        /\ records[CommitOf[unit]].spa = unit
    BY <2>2, <2>3, <2>4 DEF Filing, DistinctCommits, TypeOK, Pair
  <2> QED
    BY <1>1, <1>4, <2>4, <2>5 DEF PreviousName, Pair
<1> QED
  BY <1>1, <1>2, <1>3, <1>4

\* Filing one record leaves the others.
LEMMA OneFiled ==
  ASSUME NEW f \in [Name -> Pair \union {None}], NEW c \in Name, NEW v,
         NEW g \in {f, [f EXCEPT ![c] = v]}
  PROVE  \A n \in Name : g[n] # None => g[n] = f[n] \/ (n = c /\ g[n] = v)
  OBVIOUS

LEMMA InvStep ==
  ASSUME DistinctCommits
  PROVE  IInv /\ [Next]_vars => IInv'
<1> SUFFICES ASSUME IInv, [Next]_vars PROVE IInv'
  OBVIOUS
<1>t. TInv'
  BY TypeStep DEF IInv
<1>u. TypeOK /\ TypeOK'
  BY <1>t DEF IInv, TInv
<1>r. RestoreStep = {"restore", "rsUnit", "rsCopy", "rsReload",
           "rsRestart", "rsSwitch", "rsWeb", "rsHealth", "rsCurrent",
           "rsRecord", "rsClose"}
  BY DEF RestoreStep
<1>s. Step = {"idle", "mark", "stage", "setUnit", "setCopy", "reload",
              "restartApi", "switch", "restartWeb", "health", "record",
              "close"} \union RestoreStep
  BY DEF Step
<1> USE <1>t, <1>u, <1>r, <1>s, ReleaseAssumption, NoneAssumption, MoveKeeps
        DEF IInv, TInv, Engaged, Filing, Cites, Adopted, MarkerSound, Purpose,
            Progress, Coherent, Recoverable, PointerSet, CopySet, UnitSet,
            PointerBack, CopyBack, UnitBack, files, host, Then, At
<1>1. ASSUME NEW r \in Release, BeginDeploy(r) PROVE IInv'
  BY <1>1 DEF BeginDeploy, Preflight, FileLegacy, Up, Build, Name, Pair, DistinctCommits, TypeOK
<1>2. ASSUME NEW n \in Name, BeginRollback(n) PROVE IInv'
  BY <1>2 DEF BeginRollback, Retained
<1>3. ASSUME NEW n \in Name, Resume(n) PROVE IInv'
  BY <1>3 DEF Resume, Retained
<1>4. CASE Mark
  <2>1. Snapshot \in Saved /\ Snapshot # None /\ cmd.goal \in Pair
    BY SnapshotType DEF TypeOK
  <2>2. /\ marker = None /\ unit = copy /\ unit = pointer
        /\ cmd.kind \in {"deploy", "rollback"}
    BY <1>4 DEF Mark, TypeOK
  <2>3. CASE marker' = None /\ cmd'.step = "idle" /\ cmd'.kind = "none"
    BY <1>4, <2>2, <2>3 DEF Mark
  <2>4. CASE marker' = Snapshot /\ cmd'.step = "idle" /\ cmd'.kind = "none"
    BY <1>4, <2>1, <2>2, <2>4, SavedRetained
       DEF Mark, Snapshot, PreviousName
  <2>5. CASE /\ marker' = Snapshot /\ cmd'.name = cmd.name
             /\ cmd'.kind = cmd.kind /\ cmd'.goal = cmd.goal
             /\ cmd'.step = IF cmd.kind = "deploy" THEN "stage" ELSE "setUnit"
    BY <1>4, <2>1, <2>2, <2>5, SavedRetained
       DEF Mark, Snapshot, PreviousName, Build
  <2> QED
    BY <1>4, <2>1, <2>3, <2>4, <2>5 DEF Mark
<1>5. CASE Stage
  <2>1. cmd.kind = "deploy" /\ cmd.name \in Release /\ cmd.goal = Build(cmd.name)
    BY <1>5 DEF Stage, File
  <2>2. records[cmd.name] # None => records[cmd.name] = cmd.goal
    BY <2>1 DEF TypeOK, Build, Pair, Name
  <2>3. \A n \in Name : records[n] # None => records'[n] = records[n]
    BY <1>5, <2>2 DEF Stage, File, TypeOK
  <2>4. \A n \in Name : records'[n] # None =>
          \/ records'[n] = records[n]
          \/ n = cmd.name /\ records'[n] = cmd.goal
    <3>1. cmd.name \in Name
      BY <1>5 DEF Stage, File
    <3>2. records' \in {records, [records EXCEPT ![cmd.name] = cmd.goal]}
      BY <1>5 DEF Stage, File
    <3> QED
      BY <3>1, <3>2, OneFiled DEF TypeOK
  <2>5. Filing'
    BY <1>5, <2>1, <2>4 DEF Stage, File, Build
  <2>6. Cites(current)' /\ MarkerSound' /\ Recoverable' /\ Coherent' /\ Adopted'
    BY <1>5, <2>3 DEF Stage, File, TypeOK, Saved, Record, Pair
  <2>7. CASE Goto("setUnit") /\ records'[cmd.name] = cmd.goal
    BY <1>5, <2>1, <2>5, <2>6, <2>7 DEF Stage, File
  <2>8. CASE Fail
    BY <1>5, <2>1, <2>5, <2>6, <2>8 DEF Stage, File
  <2> QED
    BY <1>5, <2>7, <2>8 DEF Stage, File
<1>6. CASE SetUnit
  BY <1>6 DEF SetUnit
<1>7. CASE SetCopy
  BY <1>7 DEF SetCopy
<1>8. CASE Reload
  BY <1>8 DEF Reload
<1>9. CASE RestartApi
  BY <1>9 DEF RestartApi, Restart
<1>10. CASE Switch
  BY <1>10 DEF Switch
<1>11. CASE RestartWeb
  BY <1>11 DEF RestartWeb, Restart
<1>12. CASE Health
  BY <1>12 DEF Health
<1>13. CASE WriteRecord
  BY <1>13 DEF WriteRecord, Recorded, TypeOK, Name, Pair
<1>14. CASE Close
  <2>1. CASE Fail /\ UNCHANGED <<marker, repeated>>
    BY <1>14, <2>1 DEF Close, Recorded, Build
  <2>2. CASE marker' = None /\ cmd' = NoCmd
    <3>1. cmd.name \in Name /\ cmd.goal \in Pair /\ records[cmd.name] = cmd.goal
      BY <1>14 DEF Close, TypeOK
    <3>2. cmd.goal.image = cmd.goal.spa
      BY <3>1
    <3>3. current = Recorded /\ Recorded \in Record
      BY <1>14, <3>1 DEF Close, Recorded, Record, Pair
    <3>4. Coherent' /\ Adopted'
      BY <1>14, <2>2, <3>2, <3>3 DEF Close, Recorded
    <3> QED
      BY <1>14, <2>2, <3>4 DEF Close
  <2> QED
    BY <1>14, <2>1, <2>2 DEF Close
<1>15. CASE Restore
  BY <1>15 DEF Restore, UnitChanged, WebChanged, TypeOK, Saved
<1>16. CASE RsUnit
  BY <1>16 DEF RsUnit
<1>17. CASE RsCopy
  BY <1>17 DEF RsCopy
<1>18. CASE RsReload
  BY <1>18 DEF RsReload
<1>19. CASE RsRestart
  BY <1>19 DEF RsRestart, Restart, WebChanged
<1>20. CASE RsSwitch
  BY <1>20 DEF RsSwitch
<1>21. CASE RsWeb
  BY <1>21 DEF RsWeb, Restart
<1>22. CASE RsHealth
  BY <1>22 DEF RsHealth
<1>23. CASE RsCurrent
  BY <1>23 DEF RsCurrent, Recorded
<1>24. CASE RsRecord
  BY <1>24 DEF RsRecord, Recorded
<1>25. CASE RsClose
  <2>1. CASE GiveUp /\ UNCHANGED marker
    BY <1>25, <2>1 DEF RsClose, Recorded, Build
  <2>2. CASE marker' = None /\ cmd' = NoCmd
    <3>1. /\ marker \in Saved /\ marker.name \in Name
          /\ records[marker.name] = [image |-> marker.image,
                                     spa |-> marker.spa]
      BY <1>25 DEF RsClose, TypeOK, Saved
    <3>n. records[marker.name] # None
      BY <3>1 DEF Pair, Saved
    <3>2. /\ marker.image = marker.spa
          /\ unit = marker.image /\ copy = marker.image
          /\ pointer = marker.spa
      BY <1>25, <3>1, <3>n DEF RsClose
    <3>3. CASE cmd.kind = "resume"
      <4>1. Recorded \in Record /\ Recorded.image = unit
              /\ Recorded.spa = pointer
        BY <1>25, <3>1, <3>2, <3>3 DEF RsClose, Recorded, Record, TypeOK, Pair
      <4> QED
        BY <1>25, <2>2, <3>2, <3>3, <4>1 DEF RsClose
    <3>4. CASE cmd.kind # "resume"
      BY <1>25, <2>2, <3>1, <3>n, <3>2, <3>4 DEF RsClose
    <3> QED
      BY <3>3, <3>4
  <2> QED
    BY <1>25, <2>1, <2>2 DEF RsClose
<1>26. CASE Kill
  BY <1>26 DEF Kill
<1>27. CASE Reboot
  <2>1. CASE marker = None
    BY <1>27, <2>1 DEF Reboot
  <2>2. CASE marker # None
    <3>1. /\ marker' # None /\ marker'.name = marker.name
          /\ marker'.image = marker.image /\ marker'.spa = marker.spa
          /\ marker'.current = marker.current
      <4>1. marker \in Saved /\ marker' = [marker EXCEPT !.tried = FALSE]
        BY <1>27, <2>2 DEF Reboot, TypeOK
      <4>2. [marker EXCEPT !.tried = FALSE] \in Saved
        BY <4>1 DEF Saved
      <4> QED
        BY <4>1, <4>2 DEF Saved
    <3> QED
      BY <1>27, <2>2, <3>1 DEF Reboot
  <2> QED
    BY <2>1, <2>2
<1>28. CASE ServiceUp
  BY <1>28 DEF ServiceUp, Recorded, Build
<1>29. CASE UNCHANGED vars
  BY <1>29 DEF vars, Recorded, Build
<1> QED
  BY <1>1, <1>2, <1>3, <1>4, <1>5, <1>6, <1>7, <1>8, <1>9, <1>10, <1>11, <1>12, <1>13, <1>14, <1>15, <1>16, <1>17, <1>18, <1>19, <1>20, <1>21, <1>22, <1>23, <1>24, <1>25, <1>26, <1>27, <1>28, <1>29
     DEF Next, Begin, Recover, Working

\* With one build per commit, whatever calls fail and wherever a command or
\* the host dies: with no open transaction one release is installed, and
\* current-release.json says which.
THEOREM CoherentAlways ==
  ASSUME DistinctCommits
  PROVE  Spec => []Coherent
<1>1. IInv => Coherent
  BY DEF IInv
<1>2. IInv /\ [Next]_vars => IInv'
  BY InvStep
<1> QED
  BY InitI, <1>1, <1>2, PTL DEF Spec

\* With one build per commit, an open transaction can always be rolled back
\* by the command the marker names, to what was installed before it.
THEOREM RecoverableAlways ==
  ASSUME DistinctCommits
  PROVE  Spec => []Recoverable
<1>1. IInv => Recoverable
  BY DEF IInv
<1>2. IInv /\ [Next]_vars => IInv'
  BY InvStep
<1> QED
  BY InitI, <1>1, <1>2, PTL DEF Spec

-----------------------------------------------------------------------------
(* Deployments implement the atomic switch.                                *)

\* The safety part of ReleaseSwitch, under the refinement mapping.
AtomicSwitch == RS!Init /\ [][RS!Next]_(RS!vars)

LEMMA InitMaps == Init => RS!Init
  BY ReleaseAssumption DEF Init, RS!Init, Installed

\* Every step of a command is a step of the switch or leaves it alone.
LEMMA StepMaps ==
  ASSUME DistinctCommits
  PROVE  IInv /\ IInv' /\ [Next]_vars => [RS!Next]_(RS!vars)
<1> SUFFICES ASSUME IInv, IInv', [Next]_vars PROVE [RS!Next]_(RS!vars)
  OBVIOUS
<1>1. ASSUME UNCHANGED marker, marker = None => UNCHANGED <<unit, copy, pointer>>
      PROVE  UNCHANGED RS!vars
  BY <1>1 DEF RS!vars, Installed
<1>2. ASSUME marker # None, marker' # None, marker'.image = marker.image
      PROVE  UNCHANGED RS!vars
  BY <1>2 DEF RS!vars
<1>3. marker = None => cmd.step \in {"idle", "mark"}
  BY DEF IInv, TInv, Engaged
<1>4. ASSUME marker # None, marker' = None PROVE RS!Close
  BY <1>4 DEF RS!Close, Installed, IInv, TInv, TypeOK, Coherent
<1>5. CASE Begin
  BY <1>5, <1>1 DEF Begin, BeginDeploy, BeginRollback, files
<1>6. CASE Recover
  BY <1>6, <1>1 DEF Recover, Resume, files
<1>7. CASE Mark
  <2>1. marker = None /\ unit = copy /\ unit = pointer
    BY <1>7 DEF Mark, IInv, Purpose, Coherent, At
  <2>2. marker' = None => UNCHANGED RS!vars
    BY <1>7, <2>1, <1>1 DEF Mark, files
  <2>3. marker' = Snapshot /\ marker' # None => RS!Begin
    BY <1>7, <2>1 DEF Mark, Snapshot, RS!Begin, Installed
  <2> QED
    BY <1>7, <2>2, <2>3 DEF Mark, RS!Next
<1>8. CASE Close \/ RsClose
  BY <1>8, <1>1, <1>3, <1>4 DEF Close, RsClose, files, RS!Next, At
<1>9. CASE Restore
  <2>1. marker # None
    BY <1>9, <1>3 DEF Restore, At
  <2>2. marker \in Saved
    BY <2>1 DEF IInv, TInv, TypeOK
  <2>3. [marker EXCEPT !.tried = TRUE] \in Saved
    BY <2>2 DEF Saved
  <2>4. [marker EXCEPT !.tried = TRUE].image = marker.image
    BY <2>2 DEF Saved
  <2> QED
    BY <1>9, <1>1, <1>2, <2>1, <2>3, <2>4, NoneAssumption DEF Restore, files
<1>10. CASE Reboot
  <2>1. CASE marker = None
    BY <1>10, <1>1, <2>1 DEF Reboot, files
  <2>2. CASE marker # None
    <3>1. marker \in Saved
      BY <2>2 DEF IInv, TInv, TypeOK
    <3>2. /\ [marker EXCEPT !.tried = FALSE] \in Saved
          /\ [marker EXCEPT !.tried = FALSE].image = marker.image
      BY <3>1 DEF Saved
    <3> QED
      BY <1>10, <1>2, <2>2, <3>2, NoneAssumption DEF Reboot
  <2> QED
    BY <2>1, <2>2
<1>11. CASE Kill \/ ServiceUp \/ UNCHANGED vars
  BY <1>11, <1>1 DEF Kill, ServiceUp, vars, files
<1>12. CASE Stage \/ SetUnit \/ SetCopy \/ Reload \/ RestartApi \/ Switch
              \/ RestartWeb \/ Health \/ WriteRecord
  BY <1>12, <1>1, <1>3 DEF Stage, File, SetUnit, SetCopy, Reload, RestartApi,
     Switch, RestartWeb, Health, WriteRecord, files, At
<1>13. CASE RsUnit \/ RsCopy \/ RsReload \/ RsRestart \/ RsSwitch \/ RsWeb
              \/ RsHealth \/ RsCurrent \/ RsRecord
  BY <1>13, <1>1, <1>3 DEF RsUnit, RsCopy, RsReload, RsRestart, RsSwitch,
     RsWeb, RsHealth, RsCurrent, RsRecord, files, At
<1> QED
  BY <1>5, <1>6, <1>7, <1>8, <1>9, <1>10, <1>11, <1>12, <1>13
     DEF Next, Working

\* With one build per commit, a deployment or a rollback is one atomic switch
\* of the installed release, or none, whatever fails in between.
THEOREM SwitchIsAtomic ==
  ASSUME DistinctCommits
  PROVE  Spec => AtomicSwitch
<1>1. IInv /\ [Next]_vars => IInv'
  BY InvStep
<1>2. IInv /\ IInv' /\ [Next]_vars => [RS!Next]_(RS!vars)
  BY StepMaps
<1> QED
  BY InitI, InitMaps, <1>1, <1>2, PTL DEF Spec, AtomicSwitch

-----------------------------------------------------------------------------
(* ServedIsInstalled and SuccessServes.  The containers follow the files   *)
(* through the switch and its restore, as long as it is the first attempt. *)

ApiFollows == loaded = unit /\ api \in {unit, None}
WebFollows == web \in {pointer, None}

\* Before any attempt to restore, what has not been changed is being served.
Untouched ==
  marker # None /\ ~repeated /\ ~marker.tried =>
    /\ unit = marker.image => ApiFollows
    /\ pointer = marker.spa => WebFollows

\* No marker is written over another; the switch starts from the snapshot
\* and changes the unit before the pointer.
FromSnapshot ==
  /\ At("mark") => marker = None
  /\ cmd.step \in {"stage", "setUnit"} => unit = marker.image
  /\ cmd.step \in {"stage", "setUnit", "setCopy", "reload", "restartApi", "switch"} =>
       pointer = marker.spa

\* How far the switch has brought the files and the containers.
Switched ==
  /\ cmd.step \in UnitSet => unit = cmd.goal.image
  /\ cmd.step \in PointerSet => pointer = cmd.goal.spa
  /\ cmd.step \in {"restartApi", "switch"} \union PointerSet => loaded = unit
  /\ cmd.step \in {"switch"} \union PointerSet => api \in {unit, None}
  /\ cmd.step \in {"health", "record", "close"} => WebFollows
  /\ cmd.step \in {"record", "close"} => Up
  /\ At("close") => current = Recorded

\* A restore is marked as tried before it changes anything.
Tried == cmd.step \in RestoreStep \ {"restore"} => marker.tried

\* How far the first attempt to restore has brought the containers.
Restored ==
  ~repeated =>
    /\ cmd.step \in {"rsUnit", "rsCopy", "rsReload", "rsRestart"} =>
         (pointer = marker.spa => WebFollows)
    /\ cmd.step \in {"rsRestart", "rsSwitch"} \union PointerBack => loaded = unit
    /\ cmd.step \in {"rsSwitch"} \union PointerBack => api \in {unit, None}
    /\ cmd.step \in PointerBack \ {"rsWeb"} => WebFollows

JInv ==
  /\ TInv
  /\ ServedIsInstalled /\ Untouched /\ FromSnapshot /\ Switched /\ Tried /\ Restored

\* The strengthening holds initially.
LEMMA InitJ == Init => JInv
<1> SUFFICES ASSUME Init PROVE JInv
  OBVIOUS
<1>1. TInv
  BY InitType
<1> QED
  BY <1>1 DEF Init, JInv, ServedIsInstalled, Untouched, FromSnapshot, Switched, Tried,
     Restored, NoCmd, At, RestoreStep, PointerSet, CopySet, UnitSet, PointerBack

\* What setting `tried` does to the marker, and what it leaves.
LEMMA TriedOnly ==
  ASSUME NEW m \in Saved, NEW b \in BOOLEAN
  PROVE  LET t == [m EXCEPT !.tried = b] IN
           t # None /\ t.tried = b /\ t.image = m.image /\ t.spa = m.spa
<1>1. [m EXCEPT !.tried = b] \in Saved
  BY DEF Saved
<1> QED
  BY <1>1, NoneAssumption DEF Saved

\* It is inductive: a step that changes a file either comes before the restart
\* that loads it or makes the claim about its container void.
LEMMA ServedStep == JInv /\ [Next]_vars => JInv'
<1> SUFFICES ASSUME JInv, [Next]_vars PROVE JInv'
  OBVIOUS
<1>t. TInv'
  BY TypeStep DEF JInv
<1>u. TypeOK /\ Engaged /\ cmd.step \in Step /\ repeated \in BOOLEAN
  BY DEF JInv, TInv, TypeOK
<1>r. RestoreStep = {"restore", "rsUnit", "rsCopy", "rsReload",
           "rsRestart", "rsSwitch", "rsWeb", "rsHealth", "rsCurrent",
           "rsRecord", "rsClose"}
  BY DEF RestoreStep
<1>s. Step = {"idle", "mark", "stage", "setUnit", "setCopy", "reload",
              "restartApi", "switch", "restartWeb", "health", "record",
              "close"} \union RestoreStep
  BY DEF Step
<1>n. First \in Release /\ None \notin Release
  BY ReleaseAssumption
<1> USE <1>t, <1>u, <1>r, <1>s, <1>n, MoveKeeps
        DEF JInv, Engaged, ServedIsInstalled, Untouched, FromSnapshot, Switched, Tried,
            Restored, ApiFollows, WebFollows, PointerSet, CopySet, UnitSet,
            PointerBack, files, host, Then, At, Up
<1>1. ASSUME NEW r \in Release, BeginDeploy(r) PROVE JInv'
  BY <1>1 DEF BeginDeploy, Preflight, FileLegacy
<1>2. ASSUME NEW n \in Name, BeginRollback(n) PROVE JInv'
  BY <1>2 DEF BeginRollback
<1>3. ASSUME NEW n \in Name, Resume(n) PROVE JInv'
  BY <1>3 DEF Resume
<1>4. CASE Mark
  <2>1. Snapshot # None /\ Snapshot.image = unit /\ Snapshot.spa = pointer
    BY SnapshotType, NoneAssumption DEF Snapshot
  <2>2. marker = None /\ UNCHANGED <<files, host, repeated>>
    BY <1>4 DEF Mark, JInv, FromSnapshot, At
  <2>3. CASE marker' = None /\ cmd'.step = "idle"
    BY <2>2, <2>3
  <2>4. CASE marker' = Snapshot /\ cmd'.step \in {"idle", "stage", "setUnit"}
    BY <2>1, <2>2, <2>4
  <2> QED
    BY <1>4, <2>1, <2>3, <2>4 DEF Mark
<1>5. CASE Stage
  BY <1>5 DEF Stage, File
<1>6. CASE SetUnit
  BY <1>6 DEF SetUnit
<1>7. CASE SetCopy
  BY <1>7 DEF SetCopy
<1>8. CASE Reload
  BY <1>8 DEF Reload
<1>9. CASE RestartApi
  BY <1>9 DEF RestartApi, Restart
<1>10. CASE Switch
  BY <1>10 DEF Switch
<1>11. CASE RestartWeb
  BY <1>11 DEF RestartWeb, Restart
<1>12. CASE Health
  BY <1>12 DEF Health
<1>13. CASE WriteRecord
  BY <1>13 DEF WriteRecord, Recorded
<1>14. CASE Close
  BY <1>14 DEF Close, Recorded
<1>15. CASE Restore
  <2>1. marker # None /\ marker \in Saved
    BY <1>15 DEF Restore, TypeOK
  <2>2. CASE GiveUp /\ UNCHANGED <<marker, repeated>>
    BY <1>15, <2>2 DEF Restore
  <2>3. CASE /\ Goto(IF UnitChanged THEN "rsUnit"
                    ELSE IF WebChanged THEN "rsSwitch" ELSE "rsCurrent")
             /\ marker' = [marker EXCEPT !.tried = TRUE]
             /\ repeated' = (repeated \/ marker.tried)
    <3>1. /\ marker' # None /\ marker'.tried
          /\ marker'.image = marker.image /\ marker'.spa = marker.spa
      BY <2>1, <2>3, TriedOnly
    <3>2. ~repeated' => ~repeated /\ ~marker.tried
      BY <2>3
    <3>3. UNCHANGED <<files, host>>
      BY <1>15 DEF Restore
    <3>4. \/ cmd'.step = "rsUnit"
          \/ cmd'.step = "rsSwitch" /\ unit = marker.image
          \/ cmd'.step = "rsCurrent" /\ unit = marker.image /\ pointer = marker.spa
      BY <2>3 DEF UnitChanged, WebChanged
    <3> QED
      BY <2>1, <3>1, <3>2, <3>3, <3>4
  <2> QED
    BY <1>15, <2>2, <2>3 DEF Restore
<1>16. CASE RsUnit
  BY <1>16 DEF RsUnit
<1>17. CASE RsCopy
  BY <1>17 DEF RsCopy
<1>18. CASE RsReload
  BY <1>18 DEF RsReload
<1>19. CASE RsRestart
  BY <1>19 DEF RsRestart, Restart, WebChanged
<1>20. CASE RsSwitch
  BY <1>20 DEF RsSwitch
<1>21. CASE RsWeb
  BY <1>21 DEF RsWeb, Restart
<1>22. CASE RsHealth
  BY <1>22 DEF RsHealth
<1>23. CASE RsCurrent
  BY <1>23 DEF RsCurrent
<1>24. CASE RsRecord
  BY <1>24 DEF RsRecord
<1>25. CASE RsClose
  BY <1>25 DEF RsClose
<1>26. CASE Kill
  BY <1>26 DEF Kill
<1>27. CASE Reboot
  <2>1. CASE marker = None
    BY <1>27, <2>1 DEF Reboot, NoCmd
  <2>2. CASE marker # None
    <3>1. marker \in Saved
      BY <2>2 DEF TypeOK
    <3> QED
      BY <1>27, <2>2, <3>1, TriedOnly DEF Reboot, NoCmd
  <2> QED
    BY <2>1, <2>2
<1>28. CASE ServiceUp
  BY <1>28 DEF ServiceUp, Recorded
<1>29. CASE UNCHANGED vars
  BY <1>29 DEF vars, Recorded
<1> QED
  BY <1>1, <1>2, <1>3, <1>4, <1>5, <1>6, <1>7, <1>8, <1>9, <1>10, <1>11, <1>12,
     <1>13, <1>14, <1>15, <1>16, <1>17, <1>18, <1>19, <1>20, <1>21, <1>22, <1>23,
     <1>24, <1>25, <1>26, <1>27, <1>28, <1>29
     DEF Next, Begin, Recover, Working

LEMMA JInvAlways == Spec => []JInv
BY InitJ, ServedStep, PTL DEF Spec

\* Whatever calls fail and wherever a command or the host dies: with no open
\* transaction the containers run what the files say, unless the last one
\* took a second attempt to restore and nothing was restarted since.
THEOREM ServedAlways == Spec => []ServedIsInstalled
<1>1. JInv => ServedIsInstalled
  BY DEF JInv
<1> QED
  BY <1>1, JInvAlways, PTL

\* A command that succeeds has both containers running the release it was
\* asked for, recorded as current.
THEOREM SuccessAlwaysServes == Spec => SuccessServes
<1>1. JInv => (Close /\ marker' = None =>
                 /\ api = cmd.goal.image /\ web = cmd.goal.spa
                 /\ current = Recorded)
  <2> SUFFICES ASSUME JInv, Close PROVE /\ api = cmd.goal.image /\ web = cmd.goal.spa
                                       /\ current = Recorded
    OBVIOUS
  <2>1. At("close")
    BY DEF Close
  <2> QED
    BY <2>1 DEF JInv, Switched, UnitSet, CopySet, PointerSet, WebFollows, Up, At
<1> QED
  BY <1>1, JInvAlways, PTL DEF SuccessServes
================================================================================
