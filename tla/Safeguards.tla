----------------------------- MODULE Safeguards -----------------------------
(***************************************************************************)
(* Backups at work: what the processes of DataRootLock do to the directory *)
(* of BackupStore and to the database.  A server makes backups on request, *)
(* on schedule, before a restore and before a data reset, and deletes      *)
(* them; the CLI makes one, alone or before a restore.                     *)
(*                                                                         *)
(* Making a backup is one synchronous function (createBackup,              *)
(* publishBackup): nothing else of its process runs in between, so its     *)
(* steps are apart only because the process can be killed between them,    *)
(* each can fail, the clock moves and another process may be at work.      *)
(*                                                                         *)
(* The swap of a restore is RestoreSwap's; here it happens or does not.    *)
(***************************************************************************)
EXTENDS DataRootLock, BackupStore

CONSTANT MaxPeriod  \* the longest time from one scheduled backup to the next

ASSUME SafeguardsAssumption == MaxPeriod \in Nat \ {0}

\* next_run_at of backup_scheduler_config: 0 when disabled.
Slots == 0 .. (MaxTime + MaxPeriod)

Kinds == {"manual", "scheduled", "restore", "reset", "delete"}
Steps == {"named", "written", "half", "published", "evicting", "kept", "unlisted"}
Job == [kind : Kinds, step : Steps,
        name : Names,                    \* the backup it makes or deletes
        id : Ids \union {None},          \* its snapshot, once taken
        created : Time,                  \* created_at of its metadata
        source : Names \union {None},    \* the backup a restore restores
        found : Ids \union {None},       \* the snapshot the candidate was made of
        todo : SUBSET Names,             \* still to evict
        evicted : Names \union {None}]   \* its artifact is gone, its metadata not

VARIABLES
  job,       \* what each process is in the middle of, or None
  slot,      \* the scheduler's row in the database
  same       \* the data, known by the last snapshot that holds the same data;
             \* 0 when none does

dataVars == <<slot, same>>
vars == <<lockVars, storeVars, job, dataVars>>

TypeOK ==
  /\ phase \in [Processes -> Phases]
  /\ holder \in Processes \union {Nobody, Orphan, Stray}
  /\ lost \subseteq Servers /\ adrift \subseteq Servers
  /\ overlapped \in BOOLEAN
  /\ StoreTypeOK
  /\ job \in [Processes -> Job \union {None}]
  /\ slot \in Slots /\ same \in 0 .. MaxBackups

Init ==
  /\ LockInit /\ StoreInit
  /\ job = [p \in Processes |-> None]
  /\ slot = 0 /\ same = 0

-----------------------------------------------------------------------------
\* A request or a poll finds the database open, if only because a stop waits for
\* the HTTP server, and the event loop free.
Free(s) == ~overlapped /\ phase[s] \in {"serving", "stopping"} /\ job[s] = None

\* createBackup begins by choosing a name; a restore has made its candidate.
Begins(p, kind, n, source) ==
  job' = [job EXCEPT ![p] =
    [kind |-> kind, step |-> "named", name |-> n, id |-> None, created |-> now, source |-> source,
     found |-> IF source = None THEN None ELSE art[source], todo |-> {}, evicted |-> None]]

\* POST backups, POST data-reset, and POST restore of a backup that is listed.
Requested(s, kind, source) ==
  /\ Free(s)
  /\ \/ kind \in {"manual", "reset"} /\ source = None
     \/ kind = "restore" /\ source \in Complete
  /\ \E n \in Names : ServerName(n) /\ Begins(s, kind, n, source)
  /\ UNCHANGED <<lockVars, storeVars, dataVars>>

\* Mutant: the next slot is counted from the last one.
NextSlots_FromLast == {slot + d : d \in 1 .. MaxPeriod}
\* schedulerNext: later than now, by the interval or at the next hour or weekday.
NextSlots == {now + d : d \in 1 .. MaxPeriod}
\* Mutant: the row is left for when the backup is made.
Polls_StoredLater(s) ==
  /\ Free(s) /\ slot # 0 /\ slot <= now
  /\ \E n \in Names : ServerName(n) /\ Begins(s, "scheduled", n, None)
  /\ UNCHANGED <<lockVars, storeVars, dataVars>>
\* The scheduler's poll: the next slot is stored before the backup begins.
Polls(s) ==
  /\ Free(s) /\ slot # 0 /\ slot <= now
  /\ slot' \in NextSlots
  /\ \E n \in Names : ServerName(n) /\ Begins(s, "scheduled", n, None)
  /\ UNCHANGED <<lockVars, storeVars, same>>

\* PUT scheduler: disabled, or enabled with a new slot.
Schedules(s) ==
  /\ Free(s)
  /\ slot' \in NextSlots \union {0}
  /\ UNCHANGED <<lockVars, storeVars, job, same>>

\* Any other request that changes the data.
Writes(s) ==
  /\ Free(s) /\ same' = 0
  /\ UNCHANGED <<lockVars, storeVars, job, slot>>

\* The CLI has the lock and begins its one operation.
CliBegins(c, kind, source) ==
  /\ CliStarts(c) /\ ~overlapped'
  /\ \/ kind = "manual" /\ source = None
     \/ kind = "restore" /\ source \in Complete
  /\ \E n \in Names : CliName(n) /\ Begins(c, kind, n, source)
  /\ UNCHANGED <<storeVars, dataVars>>

-----------------------------------------------------------------------------
At(p, step) == job[p] # None /\ job[p].step = step
Onward(p, j) == job' = [job EXCEPT ![p] = j]
Done(p) == job' = [job EXCEPT ![p] = None]
Aside == UNCHANGED <<lockVars, now, taken, dataVars>>

\* The database is serialized, encrypted and described.
Snapshot(p) ==
  /\ At(p, "named") /\ taken < MaxBackups
  /\ taken' = taken + 1
  /\ same' = taken'
  /\ Onward(p, [job[p] EXCEPT !.step = "written", !.id = taken', !.created = now])
  /\ UNCHANGED <<lockVars, now, art, meta, slot>>

\* Two renames.
PlaceArtifact(p) ==
  /\ At(p, "written")
  /\ PutArtifact(job[p].name, job[p].id)
  /\ Onward(p, [job[p] EXCEPT !.step = "half"])
  /\ Aside /\ UNCHANGED meta
PlaceMetadata(p) ==
  /\ At(p, "half")
  /\ PutMetadata(job[p].name, job[p].id, job[p].created)
  /\ Onward(p, [job[p] EXCEPT !.step = "published"])
  /\ Aside /\ UNCHANGED art

\* Anything that fails before both files are in place: what was placed stays,
\* and the request or the slot comes to nothing.
BackupFails(p) ==
  /\ At(p, "named") \/ At(p, "written") \/ At(p, "half")
  /\ Done(p) /\ Aside /\ UNCHANGED <<art, meta>>

\* Mutant: the new backup is spared only by its date.
Protected_SourceOnly(p) == {job[p].source}
\* Mutant: retention may evict the backup that is being restored.
Protected_NewOnly(p) == {job[p].name}
\* Retention lists the directory once, and spares the new backup and the one
\* that is being restored.  It may fail to list, and then removes nothing.
Protected(p) == {job[p].name, job[p].source}
Retains(p) ==
  /\ At(p, "published")
  /\ \E beyond \in {{}, Excess \ Protected(p)} :
       Onward(p, [job[p] EXCEPT !.step = "evicting", !.todo = beyond])
  /\ Aside /\ UNCHANGED <<art, meta>>

\* The rest of the list is gone through from the newest on.  What is no longer
\* complete is passed over; a removal that fails ends the entry's eviction.
ToEvict(p) == job[p].todo \intersect Complete
Evicts(p, n) ==
  /\ At(p, "evicting") /\ job[p].evicted = None
  /\ n \in ToEvict(p) /\ \A m \in ToEvict(p) \ {n} : Newer(n, m)
  /\ \/ /\ RemoveArtifact(n)
        /\ Onward(p, [job[p] EXCEPT !.todo = @ \ {n}, !.evicted = n])
     \/ Onward(p, [job[p] EXCEPT !.todo = @ \ {n}]) /\ UNCHANGED art
  /\ Aside /\ UNCHANGED meta
EvictsMetadata(p) ==
  /\ At(p, "evicting") /\ job[p].evicted # None
  /\ RemoveMetadata(job[p].evicted) \/ UNCHANGED meta
  /\ Onward(p, [job[p] EXCEPT !.evicted = None])
  /\ Aside /\ UNCHANGED art

\* The backup is made, and what it was for goes on; or the removal of the
\* temporary directory fails, and the call with it.
Concludes(p) ==
  /\ At(p, "evicting") /\ ToEvict(p) = {} /\ job[p].evicted = None
  /\ \/ job[p].kind \in {"restore", "reset"} /\ Onward(p, [job[p] EXCEPT !.step = "kept"])
     \/ Done(p)
  /\ Aside /\ UNCHANGED <<art, meta>>

\* The database is replaced by the candidate, with the scheduler's row as it was
\* when the snapshot was taken.
Restores(p) ==
  /\ At(p, "kept") /\ job[p].kind = "restore"
  /\ same' = job[p].found /\ slot' \in Slots
  /\ Done(p)
  /\ UNCHANGED <<lockVars, storeVars>>
\* The data is emptied in one transaction; the scheduler row is not touched.
Resets(p) ==
  /\ At(p, "kept") /\ job[p].kind = "reset"
  /\ same' = 0
  /\ Done(p)
  /\ UNCHANGED <<lockVars, storeVars, slot>>
\* The swap or the transaction is rolled back.
RollsBack(p) ==
  /\ At(p, "kept")
  /\ Done(p) /\ Aside /\ UNCHANGED <<art, meta>>

\* DELETE backups: the artifact, then the metadata, whose removal may fail.
Deletes(s, n) ==
  /\ Free(s) /\ n \in Complete
  /\ RemoveArtifact(n)
  /\ job' = [job EXCEPT ![s] =
       [kind |-> "delete", step |-> "unlisted", name |-> n, id |-> None, created |-> n.at,
        source |-> None, found |-> None, todo |-> {}, evicted |-> None]]
  /\ Aside /\ UNCHANGED meta
DeletesMetadata(p) ==
  /\ At(p, "unlisted")
  /\ RemoveMetadata(job[p].name) \/ UNCHANGED meta
  /\ Done(p) /\ Aside /\ UNCHANGED art

-----------------------------------------------------------------------------
\* Bound: a process starts to use the root while another does, whose lock was
\* lost.  What the two do to the directory is not followed; they come to their
\* ends.
Overlaps(p) ==
  /\ \/ p \in Servers /\ (Serves(p) \/ StartFails(p))
     \/ p \in Clis /\ CliStarts(p)
  /\ overlapped'
  /\ job' = [q \in Processes |-> None]
  /\ UNCHANGED <<storeVars, dataVars>>

\* What the one synchronous function of a process does next.
Works(p) ==
  \/ Snapshot(p) \/ PlaceArtifact(p) \/ PlaceMetadata(p) \/ BackupFails(p)
  \/ Retains(p) \/ (\E n \in Names : Evicts(p, n)) \/ EvictsMetadata(p) \/ Concludes(p)
  \/ Restores(p) \/ Resets(p) \/ RollsBack(p)
  \/ DeletesMetadata(p)

\* What the event loop of a server does for the server's own life.
Starts(s) == ~overlapped /\ Acquires(s) /\ UNCHANGED <<storeVars, job, dataVars>>
Lifecycle(s) ==
  /\ job[s] = None
  /\ \/ TakesLock(s) \/ Granted(s) \/ Refused(s) \/ TimesOut(s) \/ LostEarly(s)
     \/ (Serves(s) \/ StartFails(s)) /\ ~overlapped'
     \/ NoticesLoss(s) \/ Closes(s) \/ Released(s)
  /\ UNCHANGED <<storeVars, job, dataVars>>
Stops(s) ==
  /\ job[s] = None /\ Signalled(s)
  /\ UNCHANGED <<storeVars, job, dataVars>>

Dies(p) ==
  /\ (p \in Servers /\ ServerDies(p)) \/ (p \in Clis /\ CliEnds(p))
  /\ Done(p) /\ UNCHANGED <<storeVars, dataVars>>
Exits(c) ==
  /\ CliEnds(c) /\ job[c] = None
  /\ UNCHANGED <<storeVars, job, dataVars>>
ChildEnds ==
  /\ \/ OrphanExits \/ StrayEnds
     \/ \E s \in Servers : HolderDies(s) \/ AdriftTries(s)
  /\ UNCHANGED <<storeVars, job, dataVars>>
Clock ==
  /\ ~overlapped
  /\ Tick \/ SetBack
  /\ UNCHANGED <<lockVars, art, meta, taken, job, dataVars>>

Next ==
  \/ \E s \in Servers :
       \/ Starts(s) \/ Lifecycle(s) \/ Stops(s)
       \/ Polls(s) \/ Schedules(s) \/ Writes(s)
       \/ \E kind \in Kinds, source \in Names \union {None} : Requested(s, kind, source)
       \/ \E n \in Names : Deletes(s, n)
  \/ \E c \in Clis :
       \/ Exits(c)
       \/ \E kind \in Kinds, source \in Names \union {None} : CliBegins(c, kind, source)
  \/ \E p \in Processes : Works(p) \/ Dies(p) \/ Overlaps(p)
  \/ ChildEnds \/ Clock

\* A server that lives gets on with its one function, its event loop comes to
\* every event in turn, and an orphan polls its parent.  Nothing makes a stray end.
Fairness ==
  /\ \A s \in Servers : WF_vars(Works(s)) /\ SF_vars(Lifecycle(s) \/ Overlaps(s))
  /\ WF_vars(OrphanExits /\ UNCHANGED <<storeVars, job, dataVars>>)

Spec == Init /\ [][Next]_vars /\ Fairness

-----------------------------------------------------------------------------
\* Whoever has the database open or runs a CLI operation holds the data root's
\* lock, unless somebody else killed its lock-holding child: no orderly stop,
\* failed start, timeout or crash frees the lock while the database is in use
\* (server.ts stop() and its catch path).
LockedWhileInUse == \A p \in Processes : InUse(p) => holder = p \/ p \in lost

\* As long as no two processes have used the root at once, the metadata of
\* every listed backup describes the artifact beside it, whatever was killed or
\* failed between the two renames or the two removals (nextFilename reads both
\* kinds of file).
PairsMatch == ~overlapped => \A n \in Complete : art[n] = meta[n].id

\* When a restore or a data reset is about to replace the data, a listed backup
\* holds exactly that data, and the restored backup is still listed: retention
\* has spared both, also when the clock was set back and they sort last.
SafetyBackupHolds ==
  ~overlapped => \A p \in Processes : At(p, "kept") =>
    /\ job[p].name \in Complete
    /\ art[job[p].name] = same
    /\ job[p].kind = "restore" => job[p].source \in Complete

\* Retention takes a backup off the list only when at least Limit that were not
\* created before it stay on the list (evictBeyondRetention).
EvictsOldest ==
  [][\A n \in Complete \ Complete' : ~overlapped /\ (\E p \in Processes : At(p, "evicting")) =>
       Cardinality({m \in Complete' : meta[m].created >= meta[n].created}) >= Limit]_vars

Listed == [n \in Names |-> IF n \in Complete THEN art[n] ELSE None]

Shelf == INSTANCE BackupCatalogue WITH
  Snapshots <- Ids, listed <- Listed, data <- same

\* Placed and removed file by file, killed and failing between any two, backups
\* are listed and withdrawn whole and never change what they hold; a restore
\* brings back what is still listed, and what it replaces is listed too.
KeepsCatalogue == Shelf!Spec

\* A slot of the schedule is attempted once: at whatever point of a scheduled
\* backup it fails or its process is killed, the stored row has moved past the
\* moment it began (Scheduler.start stores next_run_at first).
SlotOnce ==
  ~overlapped => \A p \in Processes :
    job[p] # None /\ job[p].kind = "scheduled" => slot > job[p].name.at

\* A server whose lock was lost, at whatever point of its life, ends.
LostStops == \A s \in Servers : s \in lost ~> s \notin lost

\* Once its child has said LOCKED, a lock is put to use or comes free, wherever
\* between there and release() the start fails, times out or stops, with
\* requests and losses in between, or the server is killed; a child left behind
\* before that may keep it (backup-operation-lock-holder.ts).
LockServes == \E s \in Servers : holder = s /\ phase[s] = "serving"
LockPends == holder = Orphan \/ \E s \in Servers : holder = s /\ phase[s] \notin {"booting", "serving"}
LockReturns == LockPends ~> holder = Nobody \/ LockServes
=============================================================================
