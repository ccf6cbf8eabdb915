----------------------------- MODULE Deployment -----------------------------
(***************************************************************************)
(* scripts/operatoros_deploy.py: deploy and rollback of one host, the      *)
(* active-transaction marker that makes them restartable, calls that fail, *)
(* a killed command and a rebooted host.                                   *)
(*                                                                         *)
(* A release names the API image and the SPA directory built for it.  A    *)
(* retained record is filed under the release, or, for what the tool finds *)
(* installed, under "legacy-" and the commit: that name is modelled by the *)
(* commit itself.  The flock lets one command run at a time.               *)
(***************************************************************************)
EXTENDS Naturals

CONSTANTS
  Release, Commit,  \* released builds, source commits
  CommitOf,         \* the commit each release was built from
  First,            \* the release on the host before the tool is used
  None,
  MaxFaults,        \* bound: calls that raise
  MaxCrashes        \* bound: killed commands and reboots

ASSUME ReleaseAssumption ==
  /\ CommitOf \in [Release -> Commit]
  /\ First \in Release
  /\ Release \intersect Commit = {}
  /\ None \notin Release \union Commit
  /\ MaxFaults \in Nat /\ MaxCrashes \in Nat

VARIABLES
  unit,      \* Image= of the API Quadlet
  copy,      \* Image= of the reviewed deployment copy
  pointer,   \* SPA directory behind web/current
  current,   \* current-release.json
  records,   \* deploy/releases/<name>.json
  marker,    \* active-transaction.json: the state to go back to
  loaded,    \* image in the unit systemd has loaded
  api,       \* image the API container runs, None when it is down
  web,       \* SPA directory Caddy has mounted, None when it is down
  cmd,       \* the command that holds the lock
  repeated,  \* history: restored by a second attempt, not restarted since
  budget     \* calls that raised, crashes

files == <<unit, copy, pointer, current>>
host  == <<loaded, api, web>>
vars  == <<files, records, marker, host, cmd, repeated, budget>>

Name  == Release \union Commit
Pair  == [image : Release, spa : Release]
Record == [name : Name, image : Release, spa : Release]
Saved  == [image : Release, spa : Release, name : Name,
           current : Record \union {None}, tried : BOOLEAN]

ASSUME NoneAssumption == None \notin Pair /\ None \notin Record /\ None \notin Saved

RestoreStep == {"restore", "rsUnit", "rsCopy", "rsReload", "rsRestart",
                "rsSwitch", "rsWeb", "rsHealth", "rsCurrent", "rsRecord",
                "rsClose"}
Step == {"idle", "mark", "stage", "setUnit", "setCopy", "reload",
         "restartApi", "switch", "restartWeb", "health", "record", "close"}
          \union RestoreStep

NoCmd == [step |-> "idle", kind |-> "none", name |-> None,
          goal |-> [image |-> First, spa |-> First]]

TypeOK ==
  /\ unit \in Release /\ copy \in Release /\ pointer \in Release
  /\ current \in Record \union {None}
  /\ records \in [Name -> Pair \union {None}]
  /\ marker \in Saved \union {None}
  /\ loaded \in Release
  /\ api \in Release \union {None} /\ web \in Release \union {None}
  /\ cmd \in [step : Step, kind : {"none", "deploy", "rollback", "resume"},
              name : Name \union {None}, goal : Pair]
  /\ repeated \in BOOLEAN
  /\ budget \in [faults : 0..MaxFaults, crashes : 0..MaxCrashes]

\* What importing the image and staging the SPA of a release provide.
Build(r) == [image |-> r, spa |-> r]

Init ==
  /\ unit = First /\ copy = First /\ pointer = First /\ current = None
  /\ records = [n \in Name |-> None]
  /\ marker = None
  /\ loaded = First /\ api = First /\ web = First
  /\ cmd = NoCmd
  /\ repeated = FALSE
  /\ budget = [faults |-> 0, crashes |-> 0]

----------------------------------------------------------------------------
(* How a command moves on.                                                 *)

At(step)   == cmd.step = step
Goto(step) == cmd' = [cmd EXCEPT !.step = step] /\ UNCHANGED budget

Fault ==
  /\ budget.faults < MaxFaults
  /\ budget' = [budget EXCEPT !.faults = @ + 1]

\* A call of the switch raises: the exception handler restores the snapshot.
Fail == Fault /\ cmd' = [cmd EXCEPT !.step = "restore"]

\* A call of the restore raises: the marker stays, the command ends.
GiveUp == Fault /\ cmd' = NoCmd

\* A call that may raise with its effect done or not.
Then(done, next, fails) == (done /\ Goto(next)) \/ fails

\* systemctl restart runs the loaded image; one that fails leaves the old
\* container, none, or the new one that came up too late.
Restart(now, then, image, next, fails) ==
  /\ then \in {now, None, image}
  /\ Then(then = image, next, fails)

----------------------------------------------------------------------------
(* Beginning: no command may start a second transaction over a marker.     *)

Up == api # None /\ web # None

\* The checks before a deployment; they do not ask which image is running.
Preflight == unit = copy /\ Up

\* What is installed is filed under its commit, once.
FileLegacy ==
  records' = [records EXCEPT ![CommitOf[unit]] =
                IF @ = None THEN [image |-> unit, spa |-> pointer] ELSE @]

BeginDeploy(r) ==
  /\ At("idle") /\ marker = None
  /\ Preflight
  /\ FileLegacy
  /\ cmd' = [step |-> "mark", kind |-> "deploy", name |-> r,
             goal |-> Build(r)]
  /\ UNCHANGED <<files, marker, host, repeated, budget>>

Retained(n) == records[n] # None

\* Mutant: any name is accepted, retained or not.
BeginRollback_Unchecked(n) ==
  /\ At("idle") /\ marker = None
  /\ unit = copy
  /\ cmd' = [step |-> "mark", kind |-> "rollback", name |-> n,
             goal |-> records[n]]
  /\ UNCHANGED <<files, records, marker, host, repeated, budget>>

BeginRollback(n) ==
  /\ At("idle") /\ marker = None
  /\ Retained(n)
  /\ unit = copy
  /\ cmd' = [step |-> "mark", kind |-> "rollback", name |-> n,
             goal |-> records[n]]
  /\ UNCHANGED <<files, records, marker, host, repeated, budget>>

\* Mutant: a transaction whose restore has failed is not taken up again.
Resume_Once(n) ==
  /\ At("idle") /\ marker # None /\ ~marker.tried
  /\ n = marker.name /\ Retained(n)
  /\ cmd' = [step |-> "restore", kind |-> "resume", name |-> n,
             goal |-> records[n]]
  /\ UNCHANGED <<files, records, marker, host, repeated, budget>>

\* Rollback with a marker: only to the release the marker names, and only
\* when the record retained under that name passes the checks.
Resume(n) ==
  /\ At("idle") /\ marker # None
  /\ n = marker.name /\ Retained(n)
  /\ cmd' = [step |-> "restore", kind |-> "resume", name |-> n,
             goal |-> records[n]]
  /\ UNCHANGED <<files, records, marker, host, repeated, budget>>

\* Mutant: the previous release always goes by its commit.
PreviousName_Legacy == CommitOf[unit]

PreviousName ==
  IF cmd.kind = "rollback" /\ current # None THEN current.name
                                             ELSE CommitOf[unit]

Snapshot == [image |-> unit, spa |-> pointer, name |-> PreviousName,
             current |-> current, tried |-> FALSE]

Mark ==
  /\ At("mark")
  /\ marker' \in {None, Snapshot}
  /\ Then(marker' = Snapshot,
          IF cmd.kind = "deploy" THEN "stage" ELSE "setUnit", GiveUp)
  /\ UNCHANGED <<files, records, host, repeated>>

----------------------------------------------------------------------------
(* The switch.                                                             *)

File(n, pair) == records' \in {records, [records EXCEPT ![n] = pair]}

\* Import, schema check, SPA staging and the release record.
Stage ==
  /\ At("stage")
  /\ File(cmd.name, cmd.goal)
  /\ Then(records'[cmd.name] = cmd.goal, "setUnit", Fail)
  /\ UNCHANGED <<files, marker, host, repeated>>

SetUnit ==
  /\ At("setUnit")
  /\ unit' \in {unit, cmd.goal.image}
  /\ Then(unit' = cmd.goal.image, "setCopy", Fail)
  /\ UNCHANGED <<copy, pointer, current, records, marker, host, repeated>>

SetCopy ==
  /\ At("setCopy")
  /\ copy' \in {copy, unit}
  /\ Then(copy' = unit, "reload", Fail)
  /\ UNCHANGED <<unit, pointer, current, records, marker, host, repeated>>

\* Mutant: the changed unit is restarted without daemon-reload.
Reload_Skipped ==
  /\ At("reload")
  /\ Goto("restartApi")
  /\ UNCHANGED <<files, records, marker, host, repeated>>

Reload ==
  /\ At("reload")
  /\ loaded' \in {loaded, unit}
  /\ Then(loaded' = unit, "restartApi", Fail)
  /\ UNCHANGED <<files, records, marker, api, web, repeated>>

RestartApi ==
  /\ At("restartApi")
  /\ Restart(api, api', loaded, "switch", Fail)
  /\ UNCHANGED <<files, records, marker, loaded, web, repeated>>

Switch ==
  /\ At("switch")
  /\ pointer' \in {pointer, cmd.goal.spa}
  /\ Then(pointer' = cmd.goal.spa, "restartWeb", Fail)
  /\ UNCHANGED <<unit, copy, current, records, marker, host, repeated>>

RestartWeb ==
  /\ At("restartWeb")
  /\ Restart(web, web', pointer, "health", Fail)
  /\ UNCHANGED <<files, records, marker, loaded, api, repeated>>

\* wait_release_health and the comparison of the database files.
Health ==
  /\ At("health")
  /\ Then(Up, "record", Fail)
  /\ UNCHANGED <<files, records, marker, host, repeated>>

Recorded == [name |-> cmd.name, image |-> cmd.goal.image,
             spa |-> cmd.goal.spa]

WriteRecord ==
  /\ At("record")
  /\ current' \in {current, Recorded}
  /\ Then(current' = Recorded, "close", Fail)
  /\ UNCHANGED <<unit, copy, pointer, records, marker, host, repeated>>

\* archive_transaction: the marker is renamed into the history.
Close ==
  /\ At("close")
  /\ \/ /\ marker' = None /\ cmd' = NoCmd /\ repeated' = FALSE
        /\ UNCHANGED budget
     \/ Fail /\ UNCHANGED <<marker, repeated>>
  /\ UNCHANGED <<files, records, host>>

----------------------------------------------------------------------------
(* restore_snapshot, after a failed switch or for an interrupted one.  It  *)
(* acts only on what differs from the snapshot.                            *)

UnitChanged == unit # marker.image \/ copy # marker.image
WebChanged  == pointer # marker.spa

Restore ==
  /\ At("restore")
  /\ \/ /\ Goto(IF UnitChanged THEN "rsUnit"
                ELSE IF WebChanged THEN "rsSwitch" ELSE "rsCurrent")
        /\ marker' = [marker EXCEPT !.tried = TRUE]
        /\ repeated' = (repeated \/ marker.tried)
     \/ GiveUp /\ UNCHANGED <<marker, repeated>>
  /\ UNCHANGED <<files, records, host>>

RsUnit ==
  /\ At("rsUnit")
  /\ unit' \in {unit, marker.image}
  /\ Then(unit' = marker.image, "rsCopy", GiveUp)
  /\ UNCHANGED <<copy, pointer, current, records, marker, host, repeated>>

\* Mutant: the deployment copy is not put back.
RsCopy_Skipped ==
  /\ At("rsCopy")
  /\ Goto("rsReload")
  /\ UNCHANGED <<files, records, marker, host, repeated>>

RsCopy ==
  /\ At("rsCopy")
  /\ copy' \in {copy, marker.image}
  /\ Then(copy' = marker.image, "rsReload", GiveUp)
  /\ UNCHANGED <<unit, pointer, current, records, marker, host, repeated>>

\* Mutant: the restored unit is restarted without daemon-reload.
RsReload_Skipped ==
  /\ At("rsReload")
  /\ Goto("rsRestart")
  /\ UNCHANGED <<files, records, marker, host, repeated>>

RsReload ==
  /\ At("rsReload")
  /\ loaded' \in {loaded, unit}
  /\ Then(loaded' = unit, "rsRestart", GiveUp)
  /\ UNCHANGED <<files, records, marker, api, web, repeated>>

\* The pointer has not moved since the restore compared it.
RsRestart ==
  /\ At("rsRestart")
  /\ Restart(api, api', loaded,
             IF WebChanged THEN "rsSwitch" ELSE "rsHealth", GiveUp)
  /\ UNCHANGED <<files, records, marker, loaded, web, repeated>>

RsSwitch ==
  /\ At("rsSwitch")
  /\ pointer' \in {pointer, marker.spa}
  /\ Then(pointer' = marker.spa, "rsWeb", GiveUp)
  /\ UNCHANGED <<unit, copy, current, records, marker, host, repeated>>

RsWeb ==
  /\ At("rsWeb")
  /\ Restart(web, web', pointer, "rsHealth", GiveUp)
  /\ UNCHANGED <<files, records, marker, loaded, api, repeated>>

\* A container that is down fails the check whatever else happens.
RsHealth ==
  /\ At("rsHealth")
  /\ \/ Then(Up, "rsCurrent", GiveUp)
     \/ ~Up /\ cmd' = NoCmd /\ UNCHANGED budget
  /\ UNCHANGED <<files, records, marker, host, repeated>>

\* Mutant: the record of the previous release is left as it is.
RsCurrent_Skipped ==
  /\ At("rsCurrent")
  /\ Goto(IF cmd.kind = "resume" THEN "rsRecord" ELSE "rsClose")
  /\ UNCHANGED <<files, records, marker, host, repeated>>

RsCurrent ==
  /\ At("rsCurrent")
  /\ current' \in {current, marker.current}
  /\ Then(current' = marker.current,
          IF cmd.kind = "resume" THEN "rsRecord" ELSE "rsClose", GiveUp)
  /\ UNCHANGED <<unit, copy, pointer, records, marker, host, repeated>>

\* An interrupted transaction is recorded as its checked target.
RsRecord ==
  /\ At("rsRecord")
  /\ current' \in {current, Recorded}
  /\ Then(current' = Recorded, "rsClose", GiveUp)
  /\ UNCHANGED <<unit, copy, pointer, records, marker, host, repeated>>

RsClose ==
  /\ At("rsClose")
  /\ \/ marker' = None /\ cmd' = NoCmd /\ UNCHANGED budget
     \/ GiveUp /\ UNCHANGED marker
  /\ UNCHANGED <<files, records, host, repeated>>

----------------------------------------------------------------------------
(* The host.                                                               *)

Crash ==
  /\ budget.crashes < MaxCrashes
  /\ budget' = [budget EXCEPT !.crashes = @ + 1]

\* The command dies, or is interrupted: `except Exception` catches neither.
Kill ==
  /\ ~At("idle")
  /\ Crash
  /\ cmd' = NoCmd
  /\ UNCHANGED <<files, records, marker, host, repeated>>

\* A reboot generates the units again; a container may fail to come up.
Reboot ==
  /\ Crash
  /\ cmd' = NoCmd
  /\ loaded' = unit
  /\ api' \in {unit, None} /\ web' \in {pointer, None}
  /\ marker' = IF marker = None THEN None
                                ELSE [marker EXCEPT !.tried = FALSE]
  /\ repeated' = FALSE
  /\ UNCHANGED <<files, records>>

\* Restart=on-failure, or the operator, starts a container that is down.
ServiceUp ==
  /\ api = None \/ web = None
  /\ api' = (IF api = None THEN loaded ELSE api)
  /\ web' = (IF web = None THEN pointer ELSE web)
  /\ UNCHANGED <<files, records, marker, loaded, cmd, repeated, budget>>

----------------------------------------------------------------------------
Working ==
  \/ Mark \/ Stage \/ SetUnit \/ SetCopy \/ Reload \/ RestartApi \/ Switch
  \/ RestartWeb \/ Health \/ WriteRecord \/ Close
  \/ Restore \/ RsUnit \/ RsCopy \/ RsReload \/ RsRestart \/ RsSwitch
  \/ RsWeb \/ RsHealth \/ RsCurrent \/ RsRecord \/ RsClose

Begin ==
  \/ \E r \in Release : BeginDeploy(r)
  \/ \E n \in Name : BeginRollback(n)

Recover == \E n \in Name : Resume(n)

Next == Begin \/ Recover \/ Working \/ Kill \/ Reboot \/ ServiceUp

Spec == Init /\ [][Next]_vars

\* A command runs on, a container that is down is started again, and the
\* operator answers a marker with the rollback it names.
FairSpec ==
  Spec /\ WF_vars(Working) /\ WF_vars(ServiceUp) /\ WF_vars(Recover)

----------------------------------------------------------------------------
(* Properties.                                                             *)

\* No open transaction, no mixture: the unit, its copy and the SPA pointer
\* are of one release, and current-release.json, if any, names what they
\* hold.  Needs the marker written first and removed last.
Coherent ==
  marker = None =>
    /\ unit = copy /\ unit = pointer
    /\ current # None => current.image = unit /\ current.spa = pointer

\* Without an open transaction the containers run what the files say,
\* unless the last transaction needed a second attempt to be restored.
ServedIsInstalled ==
  marker = None /\ ~repeated =>
    /\ loaded = unit
    /\ api \in {unit, None} /\ web \in {pointer, None}

\* The release an open transaction names is retained and is the snapshot:
\* the operator has a command that is accepted, and it restores what the
\* checks were made on.
Recoverable ==
  marker # None =>
    records[marker.name] = [image |-> marker.image, spa |-> marker.spa]

\* A command reports success only with both containers running the release
\* it was asked for, recorded as current.
SuccessServes ==
  [][Close /\ marker' = None =>
       /\ api = cmd.goal.image /\ web = cmd.goal.spa
       /\ current = Recorded]_vars

\* Each transaction ends, by the command or by the operator's rollback.
TransactionsClose == marker # None ~> marker = None

\* The one release the unit, its copy and the SPA pointer agree on.
Installed == IF unit = copy /\ unit = pointer THEN unit ELSE None

\* Deployments implement the atomic switch of one installed release.
RS == INSTANCE ReleaseSwitch WITH
  installed <- IF marker = None THEN Installed ELSE marker.image,
  open      <- marker # None
SwitchesAtomically == RS!Spec

\* scripts/deployment-rehearsal.py:1197 expects of an interrupted recovery
\* a healthy previous application: what runs is what is installed.
RecoveredIsServed ==
  marker = None => api \in {unit, None} /\ web \in {pointer, None}

\* docs/runbooks/release-bundles.md:387 says `rollback` accepts a release
\* after checking its image, SPA and schema: what was checked is restored.
CheckedIsRestored ==
  At("rsClose") /\ cmd.kind = "resume" =>
    cmd.goal = [image |-> unit, spa |-> pointer]

\* scripts/deployment-rehearsal.py:1161 expects `status` to be healthy
\* after a rollback; `status` compares the record's name with the name of
\* the SPA directory.
StatusConsistent ==
  marker = None /\ current # None => current.name = pointer
=============================================================================
