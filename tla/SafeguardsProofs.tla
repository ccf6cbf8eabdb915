-------------------------- MODULE SafeguardsProofs --------------------------
(***************************************************************************)
(* Proofs about Safeguards, for any servers, CLI runs, retention limit and *)
(* periods.                                                                *)
(*                                                                         *)
(* The lock property is inductive once the phases around it are added:     *)
(* Locks.  What the directory keeps needs that one process at most is at   *)
(* work until two have overlapped, and what the directory looks like at    *)
(* each step of a job: Alone and Placed.                                   *)
(*                                                                         *)
(* Retention needs that what one pass of it still has to evict is never    *)
(* more recent than Limit backups it spares: Spared.  The catalogue needs  *)
(* that a restore's candidate is what its backup holds: Sourced.           *)
(***************************************************************************)
EXTENDS Safeguards, FiniteSetTheorems, TLAPS

\* What a job knows by its step and kind.
JobKnows ==
  \A p \in Processes : job[p] # None =>
    /\ job[p].step \notin {"named", "unlisted"} => job[p].id \in Ids
    /\ job[p].kind = "restore" => job[p].found \in Ids

\* Servers that were granted the lock have it or lost it; a CLI at work has it.
Locks ==
  /\ \A p \in Processes : phase[p] \in {"granted", "serving", "failing", "stopping"} => holder = p \/ p \in lost
  /\ \A p \in Processes : phase[p] = "working" => holder = p

\* Jobs belong to processes that use the root, and one does until two overlap.
Alone ==
  ~overlapped =>
    /\ \A p \in Processes : job[p] # None => InUse(p)
    /\ \A p, q \in Processes : InUse(p) /\ InUse(q) => p = q

\* Neither file of a name is there.
Vacant(n) == art[n] = None /\ meta[n] = None

Working(j) ==
  /\ j.step \in {"named", "written"} => Vacant(j.name)
  /\ j.step = "half" => art[j.name] = j.id /\ meta[j.name] = None
  /\ j.step \in {"written", "half", "published", "evicting", "kept"} => j.id = same
  /\ j.step \in {"published", "evicting", "kept"} => j.name \in Complete /\ art[j.name] = j.id
  /\ j.step # "unlisted" /\ j.source # None => j.source \in Complete
  /\ j.kind = "restore" => j.source # None
  /\ j.step \in {"named", "written", "half", "published"} => j.evicted = None
  /\ j.step = "evicting" => {j.name, j.source} \cap (j.todo \union {j.evicted}) \subseteq {None}
  /\ j.kind = "scheduled" => slot > j.name.at

Placed ==
  ~overlapped =>
    /\ \A n \in Complete : art[n] = meta[n].id
    /\ \A p \in Processes : job[p] # None => Working(job[p])

-----------------------------------------------------------------------------

\* The steps of the lock, whichever process takes them.
LockMoves ==
  \/ \E s \in Servers :
       \/ Acquires(s) \/ TakesLock(s) \/ Granted(s) \/ Refused(s) \/ TimesOut(s) \/ LostEarly(s)
       \/ StartFails(s) \/ Serves(s) \/ Signalled(s) \/ Closes(s) \/ Released(s)
       \/ HolderDies(s) \/ ServerDies(s) \/ AdriftTries(s)
  \/ \E c \in Clis : CliStarts(c) \/ CliEnds(c)
  \/ OrphanExits \/ StrayEnds

LockTypeOK ==
  /\ phase \in [Processes -> Phases]
  /\ holder \in Processes \union {Nobody, Orphan, Stray}
  /\ lost \subseteq Servers /\ adrift \subseteq Servers
  /\ overlapped \in BOOLEAN

LEMMA LockTypeStep == LockTypeOK /\ LockMoves => LockTypeOK'
<1> SUFFICES ASSUME LockTypeOK, LockMoves PROVE LockTypeOK'
  OBVIOUS
<1> USE DEF LockTypeOK, Processes, Moves, Ends, Phases
<1>1. ASSUME NEW s \in Servers,
             Acquires(s) \/ TakesLock(s) \/ Granted(s) \/ Refused(s) \/ TimesOut(s) \/ LostEarly(s)
      PROVE  LockTypeOK'
  BY <1>1 DEF Acquires, TakesLock, Granted, Refused, TimesOut, LostEarly
<1>2. ASSUME NEW s \in Servers, Signalled(s) \/ Closes(s) \/ Released(s)
      PROVE  LockTypeOK'
  BY <1>2 DEF Signalled, Closes, Released
<1>3. ASSUME NEW s \in Servers, Serves(s) \/ StartFails(s)
      PROVE  LockTypeOK'
  BY <1>3 DEF Serves, StartFails, Uses
<1>4. ASSUME NEW s \in Servers, HolderDies(s) \/ ServerDies(s) \/ AdriftTries(s)
      PROVE  LockTypeOK'
  BY <1>4 DEF HolderDies, ServerDies, AdriftTries
<1>5. ASSUME NEW c \in Clis, CliStarts(c) \/ CliEnds(c)
      PROVE  LockTypeOK'
  BY <1>5 DEF CliStarts, CliEnds, Uses
<1>6. CASE OrphanExits \/ StrayEnds
  BY <1>6 DEF OrphanExits, StrayEnds
<1> QED
  BY <1>1, <1>2, <1>3, <1>4, <1>5, <1>6 DEF LockMoves

\* Every step is a step of the lock or leaves it alone.
LEMMA LockStepOrNone == [Next]_vars => LockMoves \/ UNCHANGED lockVars
<1> SUFFICES ASSUME [Next]_vars PROVE LockMoves \/ UNCHANGED lockVars
  OBVIOUS
<1>1. ASSUME NEW s \in Servers, Starts(s) \/ Lifecycle(s) \/ Stops(s)
      PROVE  LockMoves
  BY <1>1 DEF Starts, Lifecycle, Stops, NoticesLoss, LockMoves
<1>2. ASSUME NEW p \in Processes, Dies(p) \/ Overlaps(p)
      PROVE  LockMoves
  BY <1>2 DEF Dies, Overlaps, LockMoves
<1>3. ASSUME NEW c \in Clis, Exits(c) \/ (\E kind \in Kinds, source \in Names \union {None} : CliBegins(c, kind, source))
      PROVE  LockMoves
  BY <1>3 DEF Exits, CliBegins, LockMoves
<1>4. CASE ChildEnds
  BY <1>4 DEF ChildEnds, LockMoves
<1>5. ASSUME NEW p \in Processes, Works(p) PROVE UNCHANGED lockVars
  BY <1>5 DEF Works, Snapshot, PlaceArtifact, PlaceMetadata, BackupFails, Retains, Evicts, EvictsMetadata,
     Concludes, Restores, Resets, RollsBack, DeletesMetadata, Aside
<1>6. ASSUME NEW s \in Servers,
             \/ Polls(s) \/ Schedules(s) \/ Writes(s)
             \/ \E kind \in Kinds, source \in Names \union {None} : Requested(s, kind, source)
             \/ \E n \in Names : Deletes(s, n)
      PROVE  UNCHANGED lockVars
  BY <1>6 DEF Polls, Schedules, Writes, Requested, Deletes, Aside
<1>7. CASE Clock
  BY <1>7 DEF Clock
<1>8. CASE UNCHANGED vars
  BY <1>8 DEF vars
<1> QED
  BY <1>1, <1>2, <1>3, <1>4, <1>5, <1>6, <1>7, <1>8 DEF Next

LEMMA LockTypeNext == LockTypeOK /\ [Next]_vars => LockTypeOK'
<1> SUFFICES ASSUME LockTypeOK, [Next]_vars PROVE LockTypeOK'
  OBVIOUS
<1>1. CASE UNCHANGED lockVars
  BY <1>1 DEF LockTypeOK, lockVars
<1> QED
  BY <1>1, LockStepOrNone, LockTypeStep

-----------------------------------------------------------------------------
LEMMA LocksStep == LockTypeOK /\ Locks /\ LockMoves => Locks'
<1> SUFFICES ASSUME LockTypeOK, Locks, LockMoves PROVE Locks'
  OBVIOUS
<1> USE LockAssumption DEF LockTypeOK, Locks, Processes, Moves, Ends, Phases
<1>1. ASSUME NEW s \in Servers, Acquires(s) \/ TakesLock(s) \/ Granted(s) \/ Refused(s) PROVE Locks'
  BY <1>1 DEF Acquires, TakesLock, Granted, Refused
<1>2. ASSUME NEW s \in Servers, TimesOut(s) \/ LostEarly(s) \/ StartFails(s) PROVE Locks'
  BY <1>2 DEF TimesOut, LostEarly, StartFails
<1>3. ASSUME NEW s \in Servers, Serves(s) \/ Signalled(s) PROVE Locks'
  BY <1>3 DEF Serves, Signalled
<1>4. ASSUME NEW s \in Servers, Closes(s) \/ Released(s) PROVE Locks'
  BY <1>4 DEF Closes, Released
<1>5. ASSUME NEW s \in Servers, HolderDies(s) PROVE Locks'
  BY <1>5 DEF HolderDies
<1>6. ASSUME NEW s \in Servers, ServerDies(s) \/ AdriftTries(s) PROVE Locks'
  BY <1>6 DEF ServerDies, AdriftTries
<1>7. ASSUME NEW c \in Clis, CliStarts(c) PROVE Locks'
  BY <1>7 DEF CliStarts
<1>8. ASSUME NEW c \in Clis, CliEnds(c) PROVE Locks'
  BY <1>8 DEF CliEnds
<1>9. CASE OrphanExits \/ StrayEnds
  BY <1>9 DEF OrphanExits, StrayEnds
<1> QED
  BY <1>1, <1>2, <1>3, <1>4, <1>5, <1>6, <1>7, <1>8, <1>9 DEF LockMoves

LEMMA LocksNext == LockTypeOK /\ Locks /\ [Next]_vars => Locks'
<1> SUFFICES ASSUME LockTypeOK, Locks, [Next]_vars PROVE Locks'
  OBVIOUS
<1>1. CASE UNCHANGED lockVars
  BY <1>1 DEF Locks, lockVars
<1> QED
  BY <1>1, LockStepOrNone, LocksStep

\* Whoever uses the data root has its lock, or lost it to somebody else.
THEOREM LockHeldWhileInUse == Spec => []LockedWhileInUse
<1>1. Init => LockTypeOK /\ Locks
  BY DEF Init, LockInit, LockTypeOK, Locks, Phases
<1>2. LockTypeOK /\ Locks /\ [Next]_vars => (LockTypeOK /\ Locks)'
  BY LockTypeNext, LocksNext
<1>3. LockTypeOK /\ Locks => LockedWhileInUse
  BY DEF LockTypeOK, Locks, LockedWhileInUse, InUse
<1> QED
  BY <1>1, <1>2, <1>3, PTL DEF Spec

-----------------------------------------------------------------------------
\* Everything typed that is not the lock's.
DataTypeOK ==
  /\ StoreTypeOK
  /\ job \in [Processes -> Job \union {None}]
  /\ slot \in Slots /\ same \in 0 .. MaxBackups

\* A job that begins is a job, and one that restores knows the candidate.
LEMMA JobBegins ==
  ASSUME DataTypeOK, JobKnows, NEW p \in Processes, NEW kind \in Kinds, NEW n \in Names,
         NEW source \in Names \union {None}, Begins(p, kind, n, source),
         source = None \/ source \in Complete, kind = "restore" => source \in Complete
  PROVE  job' \in [Processes -> Job \union {None}] /\ JobKnows'
<1> DEFINE j == [kind |-> kind, step |-> "named", name |-> n, id |-> None, created |-> now, source |-> source,
                 found |-> IF source = None THEN None ELSE art[source], todo |-> {}, evicted |-> None]
<1>1. j.found \in Ids \union {None} /\ (kind = "restore" => j.found \in Ids)
  BY StoreAssumption DEF DataTypeOK, StoreTypeOK, Complete
<1>2. j \in Job
  BY <1>1 DEF Job, Steps, DataTypeOK, StoreTypeOK
<1>3. job' = [job EXCEPT ![p] = j]
  BY DEF Begins
<1>4. j.kind = kind /\ j.step = "named"
  OBVIOUS
<1> HIDE DEF j
<1>5. JobKnows'
  BY <1>1, <1>3, <1>4 DEF JobKnows, DataTypeOK
<1> QED
  BY <1>2, <1>3, <1>5 DEF DataTypeOK

LEMMA ServerTypeStep ==
  ASSUME DataTypeOK, JobKnows, NEW s \in Servers,
         \/ Polls(s) \/ Schedules(s) \/ Writes(s)
         \/ \E kind \in Kinds, source \in Names \union {None} : Requested(s, kind, source)
         \/ \E n \in Names : Deletes(s, n)
  PROVE  DataTypeOK' /\ JobKnows'
<1> USE DEF Processes
<1>0. 0 \in 0 .. MaxBackups /\ \A t \in NextSlots \union {0} : t \in Slots
  BY StoreAssumption, SafeguardsAssumption DEF NextSlots, Slots, DataTypeOK, StoreTypeOK, Time
<1>1. CASE Polls(s)
  <2>1. PICK n \in Names : Begins(s, "scheduled", n, None)
    BY <1>1 DEF Polls
  <2>2. job' \in [Processes -> Job \union {None}] /\ JobKnows'
    BY <2>1, JobBegins DEF Kinds
  <2> QED
    BY <1>0, <1>1, <2>2 DEF Polls, DataTypeOK, StoreTypeOK, storeVars
<1>2. CASE Schedules(s)
  BY <1>0, <1>2 DEF Schedules, DataTypeOK, StoreTypeOK, storeVars, JobKnows
<1>3. CASE Writes(s)
  BY <1>0, <1>3 DEF Writes, DataTypeOK, StoreTypeOK, storeVars, JobKnows
<1>4. ASSUME NEW kind \in Kinds, NEW source \in Names \union {None}, Requested(s, kind, source)
      PROVE  DataTypeOK' /\ JobKnows'
  <2>1. PICK n \in Names : Begins(s, kind, n, source)
    BY <1>4 DEF Requested
  <2>2. /\ source = None \/ source \in Complete
        /\ kind = "restore" => source \in Complete
    BY <1>4 DEF Requested
  <2>3. job' \in [Processes -> Job \union {None}] /\ JobKnows'
    BY <2>1, <2>2, JobBegins
  <2> QED
    BY <1>4, <2>3 DEF Requested, DataTypeOK, StoreTypeOK, storeVars, dataVars
<1>5. ASSUME NEW n \in Names, Deletes(s, n) PROVE DataTypeOK' /\ JobKnows'
  <2> DEFINE j == [kind |-> "delete", step |-> "unlisted", name |-> n, id |-> None, created |-> n.at,
                   source |-> None, found |-> None, todo |-> {}, evicted |-> None]
  <2>1. j \in Job /\ j.step = "unlisted" /\ j.kind = "delete"
    BY DEF Job, Kinds, Steps, Names
  <2>2. job' = [job EXCEPT ![s] = j]
    BY <1>5 DEF Deletes
  <2> HIDE DEF j
  <2>3. job' \in [Processes -> Job \union {None}] /\ JobKnows'
    BY <2>1, <2>2 DEF DataTypeOK, JobKnows
  <2> QED
    BY <1>5, <2>3 DEF Deletes, RemoveArtifact, Aside, DataTypeOK, StoreTypeOK, dataVars
<1> QED
  BY <1>1, <1>2, <1>3, <1>4, <1>5

\* A job that moves on or ends keeps what it knows.
LEMMA JobMoves ==
  ASSUME DataTypeOK, JobKnows, NEW p \in Processes, NEW j \in Job \union {None}, Onward(p, j),
         j # None => /\ j.step \notin {"named", "unlisted"} => j.id \in Ids
                     /\ j.kind = "restore" => j.found \in Ids
  PROVE  job' \in [Processes -> Job \union {None}] /\ JobKnows'
BY DEF Onward, DataTypeOK, JobKnows

LEMMA WorkTypeStep ==
  ASSUME DataTypeOK, JobKnows, NEW p \in Processes, Works(p)
  PROVE  DataTypeOK' /\ JobKnows'
<1> DEFINE J == job' \in [Processes -> Job \union {None}] /\ JobKnows'
<1>1. job[p] \in Job /\ job[p] # None
  BY DEF Works, Snapshot, PlaceArtifact, PlaceMetadata, BackupFails, Retains, Evicts, EvictsMetadata,
     Concludes, Restores, Resets, RollsBack, DeletesMetadata, At, DataTypeOK
<1>2. /\ job[p].step \notin {"named", "unlisted"} => job[p].id \in Ids
      /\ job[p].kind = "restore" => job[p].found \in Ids
  BY <1>1 DEF JobKnows
<1>3. ASSUME Done(p) PROVE J
  BY <1>3 DEF Done, DataTypeOK, JobKnows
<1>4. CASE Snapshot(p)
  <2>1. taken' \in Ids /\ taken' \in 0 .. MaxBackups /\ now \in Time
    BY <1>4, StoreAssumption DEF Snapshot, DataTypeOK, StoreTypeOK, Ids
  <2>2. [job[p] EXCEPT !.step = "written", !.id = taken', !.created = now] \in Job
    BY <1>1, <2>1 DEF Job, Steps
  <2>3. J
    BY <1>1, <1>2, <1>4, <2>1, <2>2, JobMoves DEF Snapshot, Job
  <2> QED
    BY <1>4, <2>1, <2>3 DEF Snapshot, DataTypeOK, StoreTypeOK
<1>5. CASE PlaceArtifact(p)
  <2>1. job[p].id \in Ids /\ job[p].name \in Names
    BY <1>1, <1>2, <1>5 DEF PlaceArtifact, At, Job
  <2>2. [job[p] EXCEPT !.step = "half"] \in Job
    BY <1>1 DEF Job, Steps
  <2>3. J
    BY <1>1, <1>2, <1>5, <2>1, <2>2, JobMoves DEF PlaceArtifact, Job
  <2> QED
    BY <1>5, <2>1, <2>3 DEF PlaceArtifact, PutArtifact, Aside, dataVars, DataTypeOK, StoreTypeOK
<1>6. CASE PlaceMetadata(p)
  <2>1. job[p].id \in Ids /\ job[p].name \in Names /\ job[p].created \in Time
    BY <1>1, <1>2, <1>6 DEF PlaceMetadata, At, Job
  <2>2. [job[p] EXCEPT !.step = "published"] \in Job
    BY <1>1 DEF Job, Steps
  <2>3. J
    BY <1>1, <1>2, <1>6, <2>1, <2>2, JobMoves DEF PlaceMetadata, Job
  <2>4. [id |-> job[p].id, created |-> job[p].created] \in Metadata
    BY <2>1 DEF Metadata
  <2> QED
    BY <1>6, <2>1, <2>3, <2>4 DEF PlaceMetadata, PutMetadata, Aside, dataVars, DataTypeOK, StoreTypeOK
<1>7. CASE BackupFails(p) \/ RollsBack(p)
  BY <1>3, <1>7 DEF BackupFails, RollsBack, Aside, dataVars, DataTypeOK, StoreTypeOK
<1>8. CASE Retains(p)
  <2>1. PICK beyond \in {{}, Excess \ Protected(p)} :
          Onward(p, [job[p] EXCEPT !.step = "evicting", !.todo = beyond])
    BY <1>8 DEF Retains
  <2>2. beyond \in SUBSET Names
    BY <2>1 DEF Excess, Complete
  <2>3. [job[p] EXCEPT !.step = "evicting", !.todo = beyond] \in Job
    BY <1>1, <2>2 DEF Job, Steps
  <2>4. job[p].step = "published"
    BY <1>8 DEF Retains, At
  <2>5. J
    BY <1>1, <1>2, <2>1, <2>3, <2>4, JobMoves DEF Job
  <2> QED
    BY <1>8, <2>5 DEF Retains, Aside, dataVars, DataTypeOK, StoreTypeOK
<1>9. ASSUME NEW n \in Names, Evicts(p, n) PROVE DataTypeOK' /\ JobKnows'
  <2>1. PICK e \in Names \union {None} :
          Onward(p, [job[p] EXCEPT !.todo = @ \ {n}, !.evicted = e])
    <3>1. CASE Onward(p, [job[p] EXCEPT !.todo = @ \ {n}, !.evicted = n])
      BY <3>1
    <3>2. CASE Onward(p, [job[p] EXCEPT !.todo = @ \ {n}])
      <4>1. [job[p] EXCEPT !.todo = @ \ {n}] = [job[p] EXCEPT !.todo = @ \ {n}, !.evicted = job[p].evicted]
        BY <1>1 DEF Job
      <4> QED
        BY <1>1, <3>2, <4>1 DEF Job
    <3> QED
      BY <1>9, <3>1, <3>2 DEF Evicts
  <2>2. [job[p] EXCEPT !.todo = @ \ {n}, !.evicted = e] \in Job
    BY <1>1, <2>1 DEF Job
  <2>3. J
    BY <1>1, <1>2, <2>1, <2>2, JobMoves DEF Job
  <2> QED
    BY <1>9, <2>3 DEF Evicts, RemoveArtifact, Aside, dataVars, DataTypeOK, StoreTypeOK
<1>10. CASE EvictsMetadata(p)
  <2>1. [job[p] EXCEPT !.evicted = None] \in Job
    BY <1>1 DEF Job
  <2>2. J
    BY <1>1, <1>2, <1>10, <2>1, JobMoves DEF EvictsMetadata, Job
  <2> QED
    BY <1>10, <2>2 DEF EvictsMetadata, RemoveMetadata, Aside, dataVars, DataTypeOK, StoreTypeOK
<1>11. CASE Concludes(p)
  <2>1. [job[p] EXCEPT !.step = "kept"] \in Job
    BY <1>1 DEF Job, Steps
  <2>2. job[p].step = "evicting"
    BY <1>11 DEF Concludes, At
  <2>3. J
    BY <1>1, <1>2, <1>3, <1>11, <2>1, <2>2, JobMoves DEF Concludes, Job
  <2> QED
    BY <1>11, <2>3 DEF Concludes, Aside, dataVars, DataTypeOK, StoreTypeOK
<1>12. CASE Restores(p)
  <2>1. job[p].found \in 0 .. MaxBackups
    BY <1>2, <1>12, StoreAssumption DEF Restores, Ids
  <2> QED
    BY <1>3, <1>12, <2>1 DEF Restores, storeVars, DataTypeOK, StoreTypeOK
<1>13. CASE Resets(p)
  BY <1>3, <1>13, StoreAssumption DEF Resets, storeVars, DataTypeOK, StoreTypeOK
<1>14. CASE DeletesMetadata(p)
  BY <1>3, <1>14 DEF DeletesMetadata, RemoveMetadata, Aside, dataVars, DataTypeOK, StoreTypeOK
<1> HIDE DEF J
<1> QED
  BY <1>4, <1>5, <1>6, <1>7, <1>8, <1>9, <1>10, <1>11, <1>12, <1>13, <1>14 DEF Works
\* The steps that are not a server's request or a job's next step.
LEMMA OtherTypeStep ==
  ASSUME DataTypeOK, JobKnows,
         \/ \E s \in Servers : Starts(s) \/ Lifecycle(s) \/ Stops(s)
         \/ \E c \in Clis :
              \/ Exits(c)
              \/ \E kind \in Kinds, source \in Names \union {None} : CliBegins(c, kind, source)
         \/ \E p \in Processes : Dies(p) \/ Overlaps(p)
         \/ ChildEnds \/ Clock
  PROVE  DataTypeOK' /\ JobKnows'
<1> USE DEF Processes
<1>1. ASSUME UNCHANGED <<storeVars, job, dataVars>> PROVE DataTypeOK' /\ JobKnows'
  BY <1>1 DEF storeVars, dataVars, DataTypeOK, StoreTypeOK, JobKnows
<1>2. ASSUME NEW s \in Servers, Starts(s) \/ Lifecycle(s) \/ Stops(s) PROVE DataTypeOK' /\ JobKnows'
  BY <1>1, <1>2 DEF Starts, Lifecycle, Stops
<1>3. ASSUME NEW c \in Clis, Exits(c) PROVE DataTypeOK' /\ JobKnows'
  BY <1>1, <1>3 DEF Exits
<1>4. ASSUME NEW c \in Clis, NEW kind \in Kinds, NEW source \in Names \union {None}, CliBegins(c, kind, source)
      PROVE  DataTypeOK' /\ JobKnows'
  <2>1. PICK n \in Names : Begins(c, kind, n, source)
    BY <1>4 DEF CliBegins
  <2>2. /\ source = None \/ source \in Complete
        /\ kind = "restore" => source \in Complete
    BY <1>4 DEF CliBegins
  <2>3. job' \in [Processes -> Job \union {None}] /\ JobKnows'
    BY <2>1, <2>2, JobBegins
  <2> QED
    BY <1>4, <2>3 DEF CliBegins, DataTypeOK, StoreTypeOK, storeVars, dataVars
<1>5. ASSUME NEW p \in Processes, Dies(p) \/ Overlaps(p) PROVE DataTypeOK' /\ JobKnows'
  BY <1>5 DEF Dies, Overlaps, Done, DataTypeOK, StoreTypeOK, storeVars, dataVars, JobKnows
<1>6. CASE ChildEnds
  BY <1>1, <1>6 DEF ChildEnds
<1>7. CASE Clock
  <2>1. now' \in Time
    BY <1>7, StoreAssumption DEF Clock, Tick, SetBack, Time, DataTypeOK, StoreTypeOK
  <2> QED
    BY <1>7, <2>1 DEF Clock, dataVars, DataTypeOK, StoreTypeOK, JobKnows
<1> QED
  BY <1>2, <1>3, <1>4, <1>5, <1>6, <1>7

LEMMA TypeSplits == TypeOK <=> LockTypeOK /\ DataTypeOK
BY DEF TypeOK, LockTypeOK, DataTypeOK

LEMMA DataTypeNext == DataTypeOK /\ JobKnows /\ [Next]_vars => DataTypeOK' /\ JobKnows'
<1> SUFFICES ASSUME DataTypeOK, JobKnows, [Next]_vars PROVE DataTypeOK' /\ JobKnows'
  OBVIOUS
<1>1. CASE UNCHANGED vars
  BY <1>1 DEF vars, storeVars, dataVars, DataTypeOK, StoreTypeOK, JobKnows
<1> QED
  BY <1>1, ServerTypeStep, WorkTypeStep, OtherTypeStep DEF Next

LEMMA DataTypeInit == Init => DataTypeOK /\ JobKnows
BY StoreAssumption, SafeguardsAssumption
   DEF Init, StoreInit, DataTypeOK, StoreTypeOK, JobKnows, Time, Slots

\* Every variable keeps its type.
THEOREM SafeguardsTypeCorrect == Spec => []TypeOK
<1>1. Init => LockTypeOK
  BY DEF Init, LockInit, LockTypeOK, Phases
<1>2. LockTypeOK /\ DataTypeOK /\ JobKnows /\ [Next]_vars => (LockTypeOK /\ DataTypeOK /\ JobKnows)'
  BY LockTypeNext, DataTypeNext
<1> QED
  BY <1>1, <1>2, DataTypeInit, TypeSplits, PTL DEF Spec
-----------------------------------------------------------------------------
\* A process that starts to use the root alone is the only one that does.
LEMMA UsesAlone ==
  ASSUME LockTypeOK, Alone, NEW p \in Processes, NEW to \in Phases, Moves(p, to), Uses(p), ~overlapped',
         NEW q \in Processes, InUse(q)'
  PROVE  q = p
BY DEF LockTypeOK, Alone, Moves, Uses, InUse

\* A step in which only p moves, and has no job unless it uses the root,
\* leaves at most one at work.
LEMMA MovesAlone ==
  ASSUME LockTypeOK, DataTypeOK, Alone, NEW p \in Processes, NEW to \in Phases, Moves(p, to),
         \/ to \in {"serving", "failing", "stopping", "working"} /\ (InUse(p) \/ Uses(p))
         \/ to \notin {"serving", "failing", "stopping", "working"} /\ job'[p] = None,
         overlapped => overlapped',
         \A q \in Processes \ {p} : job'[q] = job[q]
  PROVE  Alone'
<1> SUFFICES ASSUME ~overlapped' PROVE Alone'
  BY DEF Alone
<1>1. ~overlapped
  OBVIOUS
<1>2. phase' = [phase EXCEPT ![p] = to] /\ phase \in [Processes -> Phases]
  BY DEF Moves, LockTypeOK
<1>3. \A q \in Processes \ {p} : InUse(q)' <=> InUse(q)
  BY <1>2 DEF InUse
<1>4. InUse(p)' <=> to \in {"serving", "failing", "stopping", "working"}
  BY <1>2 DEF InUse
<1>5. ASSUME NEW q \in Processes, NEW r \in Processes, InUse(q)', InUse(r)' PROVE q = r
  <2>1. CASE to \in {"serving", "failing", "stopping", "working"} /\ Uses(p)
    BY <1>5, <2>1, UsesAlone
  <2>2. CASE InUse(p) \/ to \notin {"serving", "failing", "stopping", "working"}
    BY <1>1, <1>3, <1>4, <1>5, <2>2 DEF Alone
  <2> QED
    BY <2>1, <2>2
<1>6. ASSUME NEW q \in Processes, job'[q] # None PROVE InUse(q)'
  BY <1>1, <1>3, <1>4, <1>6 DEF Alone
<1> QED
  BY <1>5, <1>6 DEF Alone

\* One at most is at work, as long as no two have overlapped.
LEMMA AloneNext == LockTypeOK /\ DataTypeOK /\ Alone /\ [Next]_vars => Alone'
<1> SUFFICES ASSUME LockTypeOK, DataTypeOK, Alone, [Next]_vars PROVE Alone'
  OBVIOUS
<1>1. ASSUME UNCHANGED <<phase, overlapped, job>> PROVE Alone'
  BY <1>1 DEF Alone, InUse
<1>2. ASSUME NEW s \in Servers, Starts(s) PROVE Alone'
  <2>1. s \in Processes /\ Moves(s, "acquiring") /\ ~InUse(s) /\ UNCHANGED <<overlapped, job>>
    BY <1>2 DEF Starts, Acquires, Processes, InUse
  <2> QED
    BY <2>1 DEF Alone, Moves, InUse, LockTypeOK
<1>3. ASSUME NEW s \in Servers, Lifecycle(s) PROVE Alone'
  <2>1. s \in Processes /\ job[s] = None /\ UNCHANGED job
    BY <1>3 DEF Lifecycle, Processes
  <2>2. CASE TakesLock(s) \/ Granted(s) \/ Refused(s) \/ TimesOut(s) \/ LostEarly(s)
    <3>1. \E to \in {"booting", "granted", "down"} : Moves(s, to) /\ UNCHANGED overlapped
      BY <2>2 DEF TakesLock, Granted, Refused, TimesOut, LostEarly, Ends
    <3> QED
      BY <2>1, <3>1, MovesAlone DEF Phases
  <2>3. CASE Closes(s) \/ Released(s)
    <3>1. \E to \in {"releasing", "down"} : Moves(s, to) /\ UNCHANGED overlapped
      BY <2>3 DEF Closes, Released, Ends
    <3> QED
      BY <2>1, <3>1, MovesAlone DEF Phases
  <2>4. CASE Serves(s)
    BY <2>1, <2>4, MovesAlone DEF Serves, Phases, Uses
  <2>5. CASE NoticesLoss(s)
    BY <2>1, <2>5, MovesAlone DEF NoticesLoss, Signalled, Phases, InUse
  <2>6. CASE StartFails(s)
    <3>1. CASE Moves(s, "releasing") /\ UNCHANGED overlapped
      BY <2>1, <3>1, MovesAlone DEF Phases
    <3>2. CASE Moves(s, "failing") /\ Uses(s)
      BY <2>1, <3>2, MovesAlone DEF Phases, Uses
    <3> QED
      BY <2>6, <3>1, <3>2 DEF StartFails
  <2> QED
    BY <1>3, <2>2, <2>3, <2>4, <2>5, <2>6 DEF Lifecycle
<1>4. ASSUME NEW s \in Servers, Stops(s) PROVE Alone'
  BY <1>4, MovesAlone DEF Stops, Signalled, Phases, InUse, Processes
<1>5. ASSUME NEW s \in Servers, Polls(s) \/ Schedules(s) \/ Writes(s) PROVE Alone'
  BY <1>5 DEF Polls, Schedules, Writes, Free, Begins, lockVars, Alone, InUse, DataTypeOK
<1>6. ASSUME NEW s \in Servers, NEW kind \in Kinds, NEW source \in Names \union {None}, Requested(s, kind, source)
      PROVE  Alone'
  BY <1>6 DEF Requested, Free, Begins, lockVars, Alone, InUse, DataTypeOK
<1>7. ASSUME NEW s \in Servers, NEW n \in Names, Deletes(s, n) PROVE Alone'
  BY <1>7 DEF Deletes, Free, Aside, lockVars, Alone, InUse, DataTypeOK
<1>8. ASSUME NEW c \in Clis, Exits(c) PROVE Alone'
  BY <1>8, MovesAlone DEF Exits, CliEnds, Phases, Processes
<1>9. ASSUME NEW c \in Clis, NEW kind \in Kinds, NEW source \in Names \union {None}, CliBegins(c, kind, source)
      PROVE  Alone'
  <2>1. c \in Processes /\ Moves(c, "working") /\ Uses(c) /\ (overlapped => overlapped')
    BY <1>9 DEF CliBegins, CliStarts, Processes, Uses
  <2>2. \A q \in Processes \ {c} : job'[q] = job[q]
    BY <1>9 DEF CliBegins, Begins, DataTypeOK
  <2> QED
    BY <2>1, <2>2, MovesAlone DEF Phases
<1>10. ASSUME NEW p \in Processes, Works(p) PROVE Alone'
  <2>1. job[p] # None /\ UNCHANGED lockVars
    BY <1>10 DEF Works, Snapshot, PlaceArtifact, PlaceMetadata, BackupFails, Retains, Evicts, EvictsMetadata,
       Concludes, Restores, Resets, RollsBack, DeletesMetadata, Aside, At
  <2>2. \A q \in Processes \ {p} : job'[q] = job[q]
    BY <1>10 DEF Works, Snapshot, PlaceArtifact, PlaceMetadata, BackupFails, Retains, Evicts, EvictsMetadata,
       Concludes, Restores, Resets, RollsBack, DeletesMetadata, Onward, Done, DataTypeOK
  <2> QED
    BY <2>1, <2>2 DEF lockVars, Alone, InUse
<1>11. ASSUME NEW p \in Processes, Dies(p) PROVE Alone'
  <2>1. Moves(p, "down") /\ UNCHANGED overlapped /\ job' = [job EXCEPT ![p] = None]
    BY <1>11 DEF Dies, ServerDies, CliEnds, Ends, Done
  <2>2. job'[p] = None /\ \A q \in Processes \ {p} : job'[q] = job[q]
    BY <2>1 DEF DataTypeOK
  <2> QED
    BY <2>1, <2>2, MovesAlone DEF Phases
<1>12. ASSUME NEW p \in Processes, Overlaps(p) PROVE Alone'
  BY <1>12 DEF Overlaps, Alone
<1>13. CASE ChildEnds \/ Clock \/ UNCHANGED vars
  BY <1>1, <1>13 DEF ChildEnds, OrphanExits, StrayEnds, HolderDies, AdriftTries, Clock, vars, lockVars
<1> QED
  BY <1>2, <1>3, <1>4, <1>5, <1>6, <1>7, <1>8, <1>9, <1>10, <1>11, <1>12, <1>13 DEF Next
-----------------------------------------------------------------------------
PairsOK == \A n \in Complete : art[n] = meta[n].id

\* A step that changes only p's job, while no other process has one.
LEMMA SoleStep ==
  ASSUME DataTypeOK, NEW p \in Processes, NEW j, job' = [job EXCEPT ![p] = j],
         \A q \in Processes \ {p} : job[q] = None,
         PairsOK', j # None => Working(j)'
  PROVE  Placed'
BY DEF DataTypeOK, Placed, PairsOK

\* The files stay as they are, and so do the other jobs.
LEMMA StillPlaced ==
  ASSUME DataTypeOK, Placed, ~overlapped, UNCHANGED <<art, meta, same, slot>>,
         \A q \in Processes : job'[q] \in {job[q], None}
  PROVE  Placed'
BY DEF Placed, Working, Vacant, Complete

\* The name that is chosen is that of no file.
LEMMA NamesAreVacant ==
  ASSUME DataTypeOK, NEW n \in Names, ServerName(n) \/ CliName(n)
  PROVE  Vacant(n) /\ n.at = now
<1>1. n.seq \in Nat /\ n.at = now
  BY StoreAssumption DEF Names, ServerName, CliName
<1>2. n.seq \notin Used(now)
  BY <1>1 DEF ServerName, CliName
<1> QED
  BY <1>1, <1>2 DEF Used, Vacant

\* A backup begins.
LEMMA BeginsPlaced ==
  ASSUME DataTypeOK, ~overlapped, Placed, NEW p \in Processes, NEW kind \in Kinds, NEW n \in Names,
         NEW source \in Names \union {None}, Begins(p, kind, n, source),
         \A q \in Processes \ {p} : job[q] = None,
         ServerName(n) \/ CliName(n), UNCHANGED <<art, meta>>,
         source = None \/ source \in Complete,
         kind = "restore" => source \in Complete,
         kind = "scheduled" => slot' > now
  PROVE  Placed'
<1>1. PICK j : j = [kind |-> kind, step |-> "named", name |-> n, id |-> None, created |-> now, source |-> source,
                    found |-> IF source = None THEN None ELSE art[source], todo |-> {}, evicted |-> None]
  OBVIOUS
<1>2. /\ j.step = "named" /\ j.name = n /\ j.source = source /\ j.kind = kind
      /\ j.evicted = None /\ j.todo = {}
  BY <1>1
<1>3. job' = [job EXCEPT ![p] = j]
  BY <1>1 DEF Begins
<1>4. None \notin Names /\ Complete' = Complete /\ PairsOK'
  BY StoreAssumption DEF Complete, Placed, PairsOK
<1>5. Vacant(n) /\ n.at = now
  BY NamesAreVacant
<1>6. source # None => source \in Complete
  OBVIOUS
<1>7. kind = "restore" => source # None
  BY <1>4 DEF Complete
<1>8. Working(j)'
  BY <1>2, <1>4, <1>5, <1>6, <1>7 DEF Working, Vacant
<1>9. \A q \in Processes : job'[q] # None => job'[q] = j
  BY <1>3 DEF DataTypeOK
<1> QED
  BY <1>4, <1>8, <1>9 DEF Placed, PairsOK

\* Nobody else has a job while a server takes a request, or a process works.
LEMMA Others ==
  ASSUME Alone, ~overlapped, NEW p \in Processes, InUse(p)
  PROVE  \A q \in Processes \ {p} : job[q] = None
BY DEF Alone

\* A server takes a request.
LEMMA ServerPlaced ==
  ASSUME DataTypeOK, Alone, Placed, ~overlapped, NEW s \in Servers,
         \/ Polls(s) \/ Schedules(s) \/ Writes(s)
         \/ \E kind \in Kinds, source \in Names \union {None} : Requested(s, kind, source)
         \/ \E n \in Names : Deletes(s, n)
  PROVE  Placed'
<1>0. s \in Processes /\ job[s] = None /\ \A q \in Processes \ {s} : job[q] = None
  <2>1. s \in Processes /\ job[s] = None /\ InUse(s)
    BY DEF Polls, Schedules, Writes, Requested, Deletes, Free, InUse, Processes
  <2> QED
    BY <2>1, Others
<1>1. CASE Polls(s)
  <2>1. PICK n \in Names : ServerName(n) /\ Begins(s, "scheduled", n, None)
    BY <1>1 DEF Polls
  <2>2. now \in Int /\ slot' > now
    BY <1>1, SafeguardsAssumption, StoreAssumption DEF Polls, NextSlots, DataTypeOK, StoreTypeOK, Time
  <2> QED
    BY <1>0, <1>1, <2>1, <2>2, BeginsPlaced DEF Polls, storeVars, Kinds
<1>2. CASE Schedules(s) \/ Writes(s)
  <2>1. PairsOK' /\ \A q \in Processes : job'[q] = None
    BY <1>0, <1>2 DEF Schedules, Writes, storeVars, Placed, PairsOK, Complete
  <2> QED
    BY <2>1 DEF Placed, PairsOK
<1>3. ASSUME NEW kind \in Kinds, NEW source \in Names \union {None}, Requested(s, kind, source)
      PROVE  Placed'
  <2>1. PICK n \in Names : ServerName(n) /\ Begins(s, kind, n, source)
    BY <1>3 DEF Requested
  <2>2. /\ source = None \/ source \in Complete
        /\ kind = "restore" => source \in Complete
        /\ kind # "scheduled"
        /\ UNCHANGED <<art, meta>>
    BY <1>3 DEF Requested, storeVars
  <2> QED
    BY <1>0, <2>1, <2>2, BeginsPlaced
<1>4. ASSUME NEW n \in Names, Deletes(s, n) PROVE Placed'
  <2>1. PICK j : j = [kind |-> "delete", step |-> "unlisted", name |-> n, id |-> None, created |-> n.at,
                      source |-> None, found |-> None, todo |-> {}, evicted |-> None]
    OBVIOUS
  <2>2. job' = [job EXCEPT ![s] = j]
    BY <1>4, <2>1 DEF Deletes
  <2>3. Working(j)'
    BY <2>1 DEF Working
  <2>4. PairsOK'
    BY <1>4 DEF Deletes, RemoveArtifact, Placed, PairsOK, Complete, DataTypeOK, StoreTypeOK
  <2>5. \A q \in Processes : job'[q] # None => job'[q] = j
    BY <1>0, <2>2 DEF DataTypeOK
  <2> QED
    BY <2>3, <2>4, <2>5 DEF Placed, PairsOK
<1> QED
  BY <1>1, <1>2, <1>3, <1>4
\* The next step of a job.
LEMMA WorkPlaced ==
  ASSUME DataTypeOK, JobKnows, Alone, Placed, ~overlapped, NEW p \in Processes, Works(p)
  PROVE  Placed'
<1>1. job[p] \in Job /\ job[p] # None
  BY DEF Works, Snapshot, PlaceArtifact, PlaceMetadata, BackupFails, Retains, Evicts, EvictsMetadata,
     Concludes, Restores, Resets, RollsBack, DeletesMetadata, At, DataTypeOK
<1>2. \A q \in Processes \ {p} : job[q] = None
  BY <1>1, Others DEF Alone
<1>3. Working(job[p]) /\ PairsOK
  BY <1>1 DEF Placed, PairsOK
<1>4. None \notin Names /\ None \notin Ids /\ None \notin Metadata
  BY StoreAssumption
<1>5. /\ art \in [Names -> Ids \union {None}] /\ meta \in [Names -> Metadata \union {None}]
      /\ job[p].name \in Names /\ job[p].source \in Names \union {None}
      /\ job[p].step \notin {"named", "unlisted"} => job[p].id \in Ids
  BY <1>1 DEF DataTypeOK, StoreTypeOK, JobKnows, Job
<1>6. ASSUME Done(p), PairsOK' PROVE Placed'
  BY <1>2, <1>6, SoleStep DEF Done
<1>7. ASSUME UNCHANGED <<art, meta>> PROVE PairsOK' /\ Complete' = Complete
  BY <1>3, <1>7 DEF PairsOK, Complete
<1>8. CASE Snapshot(p)
  <2>1. PICK j : j = [job[p] EXCEPT !.step = "written", !.id = taken', !.created = now]
    OBVIOUS
  <2>2. /\ j.step = "written" /\ j.id = same' /\ job[p].step = "named"
        /\ j.name = job[p].name /\ j.source = job[p].source /\ j.kind = job[p].kind /\ j.evicted = job[p].evicted
    BY <1>1, <1>8, <2>1 DEF Snapshot, At, Job
  <2>3. job' = [job EXCEPT ![p] = j] /\ UNCHANGED <<art, meta, slot>>
    BY <1>8, <2>1 DEF Snapshot, Onward
  <2>4. Working(j)'
    BY <1>3, <1>7, <2>2, <2>3 DEF Working, Vacant
  <2> QED
    BY <1>2, <1>7, <2>3, <2>4, SoleStep
<1>9. CASE PlaceArtifact(p)
  <2>1. PICK j : j = [job[p] EXCEPT !.step = "half"]
    OBVIOUS
  <2>2. /\ j.step = "half" /\ j.id = job[p].id /\ job[p].step = "written"
        /\ j.name = job[p].name /\ j.source = job[p].source /\ j.kind = job[p].kind /\ j.evicted = job[p].evicted
    BY <1>1, <1>9, <2>1 DEF PlaceArtifact, At, Job
  <2>3. job' = [job EXCEPT ![p] = j] /\ UNCHANGED <<meta, same, slot>>
    BY <1>9, <2>1 DEF PlaceArtifact, Onward, Aside, dataVars
  <2>4. art' = [art EXCEPT ![job[p].name] = job[p].id]
    BY <1>9 DEF PlaceArtifact, PutArtifact
  <2>5. meta[job[p].name] = None
    BY <1>3, <2>2 DEF Working, Vacant
  <2>6. PairsOK' /\ Complete' = Complete
    BY <1>3, <1>5, <2>3, <2>4, <2>5 DEF PairsOK, Complete
  <2>7. art'[job[p].name] = job[p].id
    BY <1>5, <2>4
  <2>8. Working(j)'
    BY <1>3, <2>2, <2>3, <2>5, <2>6, <2>7 DEF Working
  <2> QED
    BY <1>2, <2>3, <2>6, <2>8, SoleStep
<1>10. CASE PlaceMetadata(p)
  <2>1. PICK j : j = [job[p] EXCEPT !.step = "published"]
    OBVIOUS
  <2>2. /\ j.step = "published" /\ j.id = job[p].id /\ job[p].step = "half"
        /\ j.name = job[p].name /\ j.source = job[p].source /\ j.kind = job[p].kind /\ j.evicted = job[p].evicted
    BY <1>1, <1>10, <2>1 DEF PlaceMetadata, At, Job
  <2>3. job' = [job EXCEPT ![p] = j] /\ UNCHANGED <<art, same, slot>>
    BY <1>10, <2>1 DEF PlaceMetadata, Onward, Aside, dataVars
  <2>4. PICK m \in Metadata : m.id = job[p].id /\ meta' = [meta EXCEPT ![job[p].name] = m]
    <3>1. [id |-> job[p].id, created |-> job[p].created] \in Metadata
      BY <1>1, <1>5, <2>2 DEF Metadata, Job
    <3> QED
      BY <1>10, <3>1 DEF PlaceMetadata, PutMetadata
  <2>5. art[job[p].name] = job[p].id /\ job[p].id \in Ids
    BY <1>3, <1>5, <2>2 DEF Working
  <2>6. meta'[job[p].name] = m /\ \A n \in Names \ {job[p].name} : meta'[n] = meta[n]
    BY <1>5, <2>4
  <2>7. Complete' = Complete \union {job[p].name}
    BY <1>4, <1>5, <2>3, <2>4, <2>5, <2>6 DEF Complete
  <2>8. PairsOK'
    BY <1>3, <2>3, <2>4, <2>5, <2>6, <2>7 DEF PairsOK, Complete
  <2>9. Working(j)'
    BY <1>3, <2>2, <2>3, <2>5, <2>7 DEF Working
  <2> QED
    BY <1>2, <2>3, <2>8, <2>9, SoleStep
<1>11. CASE BackupFails(p) \/ RollsBack(p)
  BY <1>6, <1>7, <1>11 DEF BackupFails, RollsBack
<1>12. CASE Retains(p)
  <2>1. PICK beyond \in {{}, Excess \ Protected(p)} :
          job' = [job EXCEPT ![p] = [job[p] EXCEPT !.step = "evicting", !.todo = beyond]]
    BY <1>12 DEF Retains, Onward
  <2>2. PICK j : j = [job[p] EXCEPT !.step = "evicting", !.todo = beyond]
    OBVIOUS
  <2>3. /\ j.step = "evicting" /\ j.id = job[p].id /\ job[p].step = "published" /\ j.todo = beyond
        /\ j.name = job[p].name /\ j.source = job[p].source /\ j.kind = job[p].kind /\ j.evicted = job[p].evicted
    BY <1>1, <1>12, <2>2 DEF Retains, At, Job
  <2>4. job' = [job EXCEPT ![p] = j] /\ UNCHANGED <<art, meta, same, slot>>
    BY <1>12, <2>1, <2>2 DEF Retains, Aside, dataVars
  <2>5. {j.name, j.source} \cap (j.todo \union {j.evicted}) \subseteq {None}
    BY <1>3, <2>1, <2>3 DEF Protected, Working
  <2>6. Working(j)'
    BY <1>3, <1>7, <2>3, <2>4, <2>5 DEF Working
  <2> QED
    BY <1>2, <1>7, <2>4, <2>6, SoleStep
<1>13. ASSUME NEW n \in Names, Evicts(p, n) PROVE Placed'
  <2>1. /\ job[p].step = "evicting" /\ job[p].evicted = None /\ n \in job[p].todo
        /\ UNCHANGED <<meta, same, slot>>
    BY <1>13 DEF Evicts, At, ToEvict, Aside, dataVars
  <2>2. PICK e \in {None, n} : job' = [job EXCEPT ![p] = [job[p] EXCEPT !.todo = @ \ {n}, !.evicted = e]]
    <3>1. CASE Onward(p, [job[p] EXCEPT !.todo = @ \ {n}, !.evicted = n])
      BY <3>1 DEF Onward
    <3>2. CASE Onward(p, [job[p] EXCEPT !.todo = @ \ {n}])
      <4>1. [job[p] EXCEPT !.todo = @ \ {n}] = [job[p] EXCEPT !.todo = @ \ {n}, !.evicted = None]
        BY <1>1, <2>1 DEF Job
      <4> QED
        BY <3>2, <4>1 DEF Onward
    <3> QED
      BY <1>13, <3>1, <3>2 DEF Evicts
  <2>3. PICK j : j = [job[p] EXCEPT !.todo = @ \ {n}, !.evicted = e]
    OBVIOUS
  <2>4. /\ j.step = "evicting" /\ j.id = job[p].id /\ j.todo = job[p].todo \ {n} /\ j.evicted = e
        /\ j.name = job[p].name /\ j.source = job[p].source /\ j.kind = job[p].kind
    BY <1>1, <2>1, <2>3 DEF Job
  <2>5. job' = [job EXCEPT ![p] = j]
    BY <2>2, <2>3
  <2>6. art' = [art EXCEPT ![n] = None] \/ art' = art
    BY <1>13 DEF Evicts, RemoveArtifact
  <2>7. n # job[p].name /\ n # job[p].source
    BY <1>3, <1>4, <2>1 DEF Working
  <2>8. PairsOK' /\ Complete \ {n} \subseteq Complete'
    BY <1>3, <1>5, <2>1, <2>6 DEF PairsOK, Complete
  <2>9. art'[job[p].name] = art[job[p].name]
    BY <1>5, <2>6, <2>7
  <2>10. {j.name, j.source} \cap (j.todo \union {j.evicted}) \subseteq {None}
    BY <1>3, <2>1, <2>2, <2>4, <2>7 DEF Working
  <2>11. Working(j)'
    BY <1>3, <2>1, <2>4, <2>7, <2>8, <2>9, <2>10 DEF Working
  <2> QED
    BY <1>2, <2>5, <2>8, <2>11, SoleStep
<1>14. CASE EvictsMetadata(p)
  <2>1. PICK j : j = [job[p] EXCEPT !.evicted = None]
    OBVIOUS
  <2>2. /\ j.step = "evicting" /\ j.id = job[p].id /\ job[p].step = "evicting" /\ job[p].evicted # None
        /\ j.todo = job[p].todo /\ j.evicted = None
        /\ j.name = job[p].name /\ j.source = job[p].source /\ j.kind = job[p].kind
    BY <1>1, <1>14, <2>1 DEF EvictsMetadata, At, Job
  <2>3. job' = [job EXCEPT ![p] = j] /\ UNCHANGED <<art, same, slot>>
    BY <1>14, <2>1 DEF EvictsMetadata, Onward, Aside, dataVars
  <2>4. meta' = [meta EXCEPT ![job[p].evicted] = None] \/ meta' = meta
    BY <1>14 DEF EvictsMetadata, RemoveMetadata
  <2>5. PairsOK' /\ Complete \ {job[p].evicted} \subseteq Complete'
    BY <1>3, <1>5, <2>3, <2>4 DEF PairsOK, Complete
  <2>6. job[p].evicted # job[p].name /\ (job[p].source # None => job[p].evicted # job[p].source)
    BY <1>3, <1>4, <1>5, <2>2 DEF Working
  <2>7. Working(j)'
    BY <1>3, <2>2, <2>3, <2>5, <2>6 DEF Working
  <2> QED
    BY <1>2, <2>3, <2>5, <2>7, SoleStep
<1>15. CASE Concludes(p)
  <2>1. UNCHANGED <<art, meta, same, slot>> /\ job[p].step = "evicting"
    BY <1>15 DEF Concludes, Aside, dataVars, At
  <2>2. CASE Onward(p, [job[p] EXCEPT !.step = "kept"])
    <3>1. PICK j : j = [job[p] EXCEPT !.step = "kept"]
      OBVIOUS
    <3>2. /\ j.step = "kept" /\ j.id = job[p].id
          /\ j.name = job[p].name /\ j.source = job[p].source /\ j.kind = job[p].kind
      BY <1>1, <3>1 DEF Job
    <3>3. job' = [job EXCEPT ![p] = j]
      BY <2>2, <3>1 DEF Onward
    <3>4. Working(j)'
      BY <1>3, <1>7, <2>1, <3>2 DEF Working
    <3> QED
      BY <1>2, <1>7, <2>1, <3>3, <3>4, SoleStep
  <2> QED
    BY <1>6, <1>7, <1>15, <2>1, <2>2 DEF Concludes
<1>16. CASE Restores(p) \/ Resets(p)
  BY <1>6, <1>7, <1>16 DEF Restores, Resets, storeVars
<1>17. CASE DeletesMetadata(p)
  <2>1. PairsOK'
    BY <1>3, <1>5, <1>17 DEF DeletesMetadata, RemoveMetadata, Aside, PairsOK, Complete
  <2> QED
    BY <1>6, <1>17, <2>1 DEF DeletesMetadata
<1> QED
  BY <1>8, <1>9, <1>10, <1>11, <1>12, <1>13, <1>14, <1>15, <1>16, <1>17 DEF Works
\* Overlapping is never forgotten.
LEMMA OverlapStays == LockTypeOK /\ [Next]_vars /\ ~overlapped' => ~overlapped
<1> SUFFICES ASSUME LockTypeOK, [Next]_vars, overlapped PROVE overlapped'
  BY DEF LockTypeOK
<1>1. CASE UNCHANGED lockVars
  BY <1>1 DEF lockVars
<1>2. CASE LockMoves
  BY <1>2 DEF LockMoves, Acquires, TakesLock, Granted, Refused, TimesOut, LostEarly, StartFails, Serves, Uses,
     Signalled, Closes, Released, HolderDies, ServerDies, AdriftTries, CliStarts, CliEnds, OrphanExits, StrayEnds
<1> QED
  BY <1>1, <1>2, LockStepOrNone

\* The directory and the jobs stay in order.
LEMMA PlacedNext == LockTypeOK /\ DataTypeOK /\ JobKnows /\ Alone /\ Placed /\ [Next]_vars => Placed'
<1> SUFFICES ASSUME LockTypeOK, DataTypeOK, JobKnows, Alone, Placed, [Next]_vars, ~overlapped' PROVE Placed'
  BY DEF Placed
<1>1. ~overlapped
  BY OverlapStays
<1>2. ASSUME UNCHANGED <<storeVars, job, dataVars>> PROVE Placed'
  BY <1>1, <1>2, StillPlaced DEF storeVars, dataVars
<1>3. ASSUME NEW s \in Servers, Starts(s) \/ Lifecycle(s) \/ Stops(s) PROVE Placed'
  BY <1>2, <1>3 DEF Starts, Lifecycle, Stops
<1>4. ASSUME NEW c \in Clis, Exits(c) PROVE Placed'
  BY <1>2, <1>4 DEF Exits
<1>5. ASSUME NEW c \in Clis, NEW kind \in Kinds, NEW source \in Names \union {None}, CliBegins(c, kind, source)
      PROVE  Placed'
  <2>1. PICK n \in Names : CliName(n) /\ Begins(c, kind, n, source)
    BY <1>5 DEF CliBegins
  <2>2. c \in Processes /\ \A q \in Processes \ {c} : ~InUse(q)
    BY <1>5 DEF CliBegins, CliStarts, Uses, Processes
  <2>3. \A q \in Processes \ {c} : job[q] = None
    BY <1>1, <2>2 DEF Alone
  <2>4. /\ source = None \/ source \in Complete
        /\ kind = "restore" => source \in Complete
        /\ kind # "scheduled"
        /\ UNCHANGED <<art, meta>>
    BY <1>5 DEF CliBegins, storeVars
  <2> QED
    BY <1>1, <2>1, <2>2, <2>3, <2>4, BeginsPlaced
<1>6. ASSUME NEW p \in Processes, Dies(p) PROVE Placed'
  BY <1>1, <1>6, StillPlaced DEF Dies, Done, storeVars, dataVars, DataTypeOK
<1>7. ASSUME NEW p \in Processes, Overlaps(p) PROVE Placed'
  BY <1>7 DEF Overlaps
<1>8. CASE ChildEnds
  BY <1>2, <1>8 DEF ChildEnds
<1>9. CASE Clock \/ UNCHANGED vars
  BY <1>1, <1>9, StillPlaced DEF Clock, vars, storeVars, dataVars
<1> QED
  BY <1>1, <1>3, <1>4, <1>5, <1>6, <1>7, <1>8, <1>9, ServerPlaced, WorkPlaced DEF Next

SafeInv == LockTypeOK /\ DataTypeOK /\ JobKnows /\ Alone /\ Placed

LEMMA SafeInvHolds == Spec => []SafeInv
<1>1. Init => LockTypeOK /\ Alone /\ Placed
  BY DEF Init, LockInit, LockTypeOK, StoreInit, Phases, Alone, InUse, Placed, Complete
<1>2. SafeInv /\ [Next]_vars => SafeInv'
  BY LockTypeNext, DataTypeNext, AloneNext, PlacedNext DEF SafeInv
<1>3. Init => SafeInv
  BY <1>1, DataTypeInit DEF SafeInv
<1> QED
  BY <1>2, <1>3, PTL DEF Spec

\* The metadata of a listed backup describes the artifact beside it.
THEOREM PairsDoMatch == Spec => []PairsMatch
<1>1. SafeInv => PairsMatch
  BY DEF SafeInv, Placed, PairsMatch
<1> QED
  BY <1>1, SafeInvHolds, PTL

\* What is about to be replaced is kept in a listed backup, and what replaces
\* it is still listed.
THEOREM SafetyBackupKept == Spec => []SafetyBackupHolds
<1>1. SafeInv => SafetyBackupHolds
  <2> SUFFICES ASSUME SafeInv, ~overlapped, NEW p \in Processes, At(p, "kept")
               PROVE  /\ job[p].name \in Complete /\ art[job[p].name] = same
                      /\ job[p].kind = "restore" => job[p].source \in Complete
    BY DEF SafetyBackupHolds
  <2>1. job[p].step = "kept" /\ Working(job[p])
    BY DEF SafeInv, Placed, At
  <2> QED
    BY <2>1 DEF Working
<1> QED
  BY <1>1, SafeInvHolds, PTL

\* A slot is attempted once.
THEOREM SlotAttemptedOnce == Spec => []SlotOnce
<1>1. SafeInv => SlotOnce
  BY DEF SafeInv, Placed, Working, SlotOnce
<1> QED
  BY <1>1, SafeInvHolds, PTL

-----------------------------------------------------------------------------
(* Retention.                                                              *)

\* While a process evicts, what it has half evicted is off the list, and at
\* least Limit listed backups, none of them due, are as recent as every one due.
Spared(j) ==
  /\ j.evicted # None => art[j.evicted] = None
  /\ j.todo # {} =>
       \E rest \in SUBSET (Complete \ j.todo) :
         /\ IsFiniteSet(rest) /\ Cardinality(rest) >= Limit
         /\ \A m \in rest, n \in j.todo \intersect Complete : meta[m].created >= meta[n].created
Retained ==
  ~overlapped => \A p \in Processes : At(p, "evicting") => Spared(job[p])

LEMMA NamesFinite == IsFiniteSet(Names)
<1>1. MaxTime \in Int /\ MaxBackups \in Int /\ 0 \in Int
  BY StoreAssumption
<1>2. IsFiniteSet(Time) /\ IsFiniteSet(0 .. MaxBackups)
  BY <1>1, FS_Interval DEF Time
<1>3. IsFiniteSet(Time \X (0 .. MaxBackups))
  BY <1>2, FS_Product
<1> DEFINE f == [x \in Time \X (0 .. MaxBackups) |-> [at |-> x[1], seq |-> x[2]]]
<1>4. f \in Surjection(Time \X (0 .. MaxBackups), Names)
  <2>1. f \in [Time \X (0 .. MaxBackups) -> Names]
    BY DEF Names
  <2>2. ASSUME NEW n \in Names PROVE \E x \in Time \X (0 .. MaxBackups) : f[x] = n
    <3>1. <<n.at, n.seq>> \in Time \X (0 .. MaxBackups)
      BY DEF Names
    <3>2. f[<<n.at, n.seq>>] = n
      BY <3>1 DEF Names
    <3> QED
      BY <3>1, <3>2
  <2> QED
    BY <2>1, <2>2 DEF Surjection
<1> QED
  BY <1>3, <1>4, FS_Surjection

\* Two listed names are apart, the one or the other way round.
LEMMA NewerOrder ==
  ASSUME DataTypeOK
  PROVE  /\ \A n \in Complete : ~Newer(n, n)
         /\ \A m, n \in Complete : m # n => Newer(m, n) \/ Newer(n, m)
         /\ \A l, m, n \in Complete : Newer(l, m) /\ Newer(m, n) => Newer(l, n)
         /\ \A m, n \in Complete : Newer(m, n) => meta[m].created >= meta[n].created
<1>1. \A n \in Complete : n \in Names /\ meta[n].created \in Int /\ n.at \in Int /\ n.seq \in Int
  <2>1. \A n \in Complete : n \in Names /\ meta[n] \in Metadata
    BY DEF DataTypeOK, StoreTypeOK, Complete
  <2>2. \A n \in Names : n.at \in Int /\ n.seq \in Int
    BY DEF Names, Time
  <2>3. \A m \in Metadata : m.created \in Int
    BY DEF Metadata, Time
  <2> QED
    BY <2>1, <2>2, <2>3
<1>2. \A m, n \in Complete : m # n => m.at # n.at \/ m.seq # n.seq
  BY <1>1 DEF Names
<1> QED
  BY <1>1, <1>2 DEF Newer

\* The newest of what lies beyond the Limit has at least Limit newer ones, none
\* of them beyond; they are newer than everything that lies beyond.
LEMMA ExcessSpares ==
  ASSUME DataTypeOK, Excess # {}
  PROVE  \E rest \in SUBSET (Complete \ Excess) :
           /\ IsFiniteSet(rest) /\ Cardinality(rest) >= Limit
           /\ \A m \in rest, n \in Excess : meta[m].created >= meta[n].created
<1>1. \A n \in Excess : NewerThan(n) \in FiniteSubsetsOf(Names)
  BY NamesFinite, FS_Subset DEF NewerThan, Complete, FiniteSubsetsOf
<1> DEFINE T == {NewerThan(n) : n \in Excess}
<1>2. T \subseteq FiniteSubsetsOf(Names) /\ T # {}
  BY <1>1
<1>3. PICK S \in T : \A U \in T : ~(<<U, S>> \in StrictSubsetOrdering(Names))
  BY <1>2, FS_StrictSubsetOrderingWellFounded, WFMin
<1>4. PICK n \in Excess : S = NewerThan(n)
  BY <1>3
<1>5. \A m \in Excess : ~(NewerThan(m) \subseteq S /\ NewerThan(m) # S)
  <2>1. \A m \in Excess : NewerThan(m) \in SUBSET Names
    BY DEF NewerThan, Complete
  <2> QED
    BY <1>3, <1>4, <2>1 DEF StrictSubsetOrdering
<1> HIDE DEF T
<1>6. Excess \subseteq Complete
  BY DEF Excess
<1>7. S \cap Excess = {}
  <2>1. ASSUME NEW m \in S \cap Excess PROVE FALSE
    <3>1. m \in Complete /\ Newer(m, n)
      BY <1>4, <2>1 DEF NewerThan
    <3>2. NewerThan(m) \subseteq S
      BY <1>4, <1>6, <3>1, NewerOrder DEF NewerThan
    <3>3. m \in S /\ m \notin NewerThan(m)
      BY <2>1, <3>1, NewerOrder DEF NewerThan
    <3> QED
      BY <1>5, <2>1, <3>2, <3>3
  <2> QED
    BY <2>1
<1>8. IsFiniteSet(S) /\ Cardinality(S) >= Limit /\ S \subseteq Complete
  BY <1>1, <1>4 DEF FiniteSubsetsOf, NewerThan, Excess
<1>9. ASSUME NEW m \in S, NEW o \in Excess PROVE meta[m].created >= meta[o].created
  <2>1. m \in Complete /\ o \in Complete /\ n \in Complete /\ Newer(m, n)
    BY <1>4, <1>6, <1>9 DEF NewerThan
  <2>2. o # n => Newer(n, o)
    <3>1. ~Newer(o, n)
      BY <1>4, <1>7, <1>9, <2>1 DEF NewerThan
    <3> QED
      BY <2>1, <3>1, NewerOrder
  <2>3. Newer(m, o)
    BY <2>1, <2>2, NewerOrder
  <2> QED
    BY <2>1, <2>3, NewerOrder
<1>10. S \in SUBSET (Complete \ Excess)
  BY <1>7, <1>8
<1> QED
  BY <1>8, <1>9, <1>10

\* One step of the job of p that keeps what is listed, but for one name that is
\* not among the rest.
LEMMA StillSpared ==
  ASSUME NEW j \in Job, Spared(j), NEW k \in Job, NEW n,
         k.todo \subseteq j.todo \ {n}, n \in j.todo \/ n \notin Complete,
         Complete \ {n} \subseteq Complete', Complete' \subseteq Complete,
         \A m \in Complete' : meta'[m] = meta[m],
         k.evicted # None => art'[k.evicted] = None
  PROVE  Spared(k)'
<1>1. SUFFICES ASSUME k.todo # {}
               PROVE  \E rest \in SUBSET (Complete' \ k.todo) :
                        /\ IsFiniteSet(rest) /\ Cardinality(rest) >= Limit
                        /\ \A m \in rest, o \in k.todo \intersect Complete' :
                             meta'[m].created >= meta'[o].created
  BY DEF Spared
<1>2. j.todo # {}
  BY <1>1
<1>3. PICK rest \in SUBSET (Complete \ j.todo) :
         /\ IsFiniteSet(rest) /\ Cardinality(rest) >= Limit
         /\ \A m \in rest, o \in j.todo \intersect Complete : meta[m].created >= meta[o].created
  BY <1>2 DEF Spared
<1>4. rest \in SUBSET (Complete' \ k.todo)
  BY <1>3
<1>5. \A m \in rest, o \in k.todo \intersect Complete' : meta'[m].created >= meta'[o].created
  BY <1>3, <1>4
<1> QED
  BY <1>3, <1>4, <1>5

\* The work of p, which alone is at work.
LEMMA WorkRetained ==
  ASSUME SafeInv, Retained, ~overlapped, NEW p \in Processes, Works(p)
  PROVE  Retained' /\ (At(p, "evicting") => Complete' \subseteq Complete)
<1>1. job[p] \in Job /\ job[p] # None /\ DataTypeOK
  BY DEF SafeInv, Works, Snapshot, PlaceArtifact, PlaceMetadata, BackupFails, Retains, Evicts, EvictsMetadata,
     Concludes, Restores, Resets, RollsBack, DeletesMetadata, At, DataTypeOK
<1>2. \A q \in Processes \ {p} : job[q] = None
  BY <1>1, Others DEF Alone, SafeInv
<1>3. /\ art \in [Names -> Ids \union {None}] /\ meta \in [Names -> Metadata \union {None}]
      /\ job \in [Processes -> Job \union {None}]
  BY <1>1 DEF DataTypeOK, StoreTypeOK
<1>4. At(p, "evicting") => Spared(job[p])
  BY DEF Retained
<1>5. ASSUME NEW j, job' = [job EXCEPT ![p] = j], j = None \/ j.step # "evicting" \/ Spared(j)'
      PROVE  Retained'
  BY <1>2, <1>3, <1>5 DEF Retained, At, Processes
<1>6. ASSUME Done(p) PROVE Retained'
  BY <1>5, <1>6 DEF Done
<1>7. CASE Snapshot(p) \/ PlaceArtifact(p) \/ PlaceMetadata(p)
  <2>1. PICK j \in Job : job' = [job EXCEPT ![p] = j] /\ j.step # "evicting"
    <3>1. CASE Snapshot(p)
      <4>1. PICK j : j = [job[p] EXCEPT !.step = "written", !.id = taken', !.created = now]
        OBVIOUS
      <4>2. taken' \in Ids /\ now \in Time
        BY <1>1, <3>1, StoreAssumption DEF Snapshot, DataTypeOK, StoreTypeOK, Ids
      <4>3. j \in Job /\ j.step = "written"
        BY <1>1, <4>1, <4>2 DEF Job, Steps
      <4> QED
        BY <3>1, <4>1, <4>3 DEF Snapshot, Onward
    <3>2. CASE PlaceArtifact(p)
      <4>1. [job[p] EXCEPT !.step = "half"] \in Job /\ [job[p] EXCEPT !.step = "half"].step = "half"
        BY <1>1 DEF Job, Steps
      <4> QED
        BY <3>2, <4>1 DEF PlaceArtifact, Onward
    <3>3. CASE PlaceMetadata(p)
      <4>1. [job[p] EXCEPT !.step = "published"] \in Job /\ [job[p] EXCEPT !.step = "published"].step = "published"
        BY <1>1 DEF Job, Steps
      <4> QED
        BY <3>3, <4>1 DEF PlaceMetadata, Onward
    <3> QED
      BY <1>7, <3>1, <3>2, <3>3
  <2>2. ~At(p, "evicting")
    BY <1>7 DEF Snapshot, PlaceArtifact, PlaceMetadata, At
  <2> QED
    BY <1>5, <2>1, <2>2
<1>8. CASE BackupFails(p) \/ RollsBack(p) \/ Restores(p) \/ Resets(p) \/ DeletesMetadata(p)
  <2>1. Done(p) /\ ~At(p, "evicting")
    BY <1>8 DEF BackupFails, RollsBack, Restores, Resets, DeletesMetadata, At
  <2> QED
    BY <1>6, <2>1
<1>9. CASE Retains(p)
  <2>1. PICK beyond \in {{}, Excess \ Protected(p)} :
          job' = [job EXCEPT ![p] = [job[p] EXCEPT !.step = "evicting", !.todo = beyond]]
    BY <1>9 DEF Retains, Onward
  <2>2. PICK j : j = [job[p] EXCEPT !.step = "evicting", !.todo = beyond]
    OBVIOUS
  <2>3. /\ j.todo = beyond /\ j.evicted = job[p].evicted /\ job[p].step = "published"
        /\ UNCHANGED <<art, meta>>
    BY <1>1, <1>9, <2>2 DEF Retains, At, Job
  <2>4. j.evicted = None
    BY <1>1, <2>3 DEF SafeInv, Placed, Working
  <2>5. beyond # {} =>
          \E rest \in SUBSET (Complete \ beyond) :
            /\ IsFiniteSet(rest) /\ Cardinality(rest) >= Limit
            /\ \A m \in rest, n \in beyond \intersect Complete : meta[m].created >= meta[n].created
    <3>1. SUFFICES ASSUME beyond # {}
                   PROVE  \E rest \in SUBSET (Complete \ beyond) :
                            /\ IsFiniteSet(rest) /\ Cardinality(rest) >= Limit
                            /\ \A m \in rest, n \in beyond \intersect Complete :
                                 meta[m].created >= meta[n].created
      OBVIOUS
    <3>2. beyond \subseteq Excess /\ Excess # {}
      BY <2>1, <3>1
    <3>3. PICK rest \in SUBSET (Complete \ Excess) :
             /\ IsFiniteSet(rest) /\ Cardinality(rest) >= Limit
             /\ \A m \in rest, n \in Excess : meta[m].created >= meta[n].created
      BY <1>1, <3>2, ExcessSpares
    <3>4. rest \in SUBSET (Complete \ beyond)
      BY <3>2, <3>3
    <3> QED
      BY <3>2, <3>3, <3>4
  <2>6. Spared(j)'
    BY <2>3, <2>4, <2>5 DEF Spared, Complete
  <2>7. ~At(p, "evicting")
    BY <2>3 DEF At
  <2> QED
    BY <1>5, <2>1, <2>2, <2>6, <2>7
<1>10. ASSUME NEW n \in Names, Evicts(p, n)
       PROVE  Retained' /\ Complete' \subseteq Complete
  <2>1. /\ job[p].evicted = None /\ n \in job[p].todo /\ n \in Complete
        /\ meta' = meta /\ At(p, "evicting")
    BY <1>10 DEF Evicts, ToEvict
  <2>2. PICK e \in {None, n} :
          /\ job' = [job EXCEPT ![p] = [job[p] EXCEPT !.todo = @ \ {n}, !.evicted = e]]
          /\ e = n => art' = [art EXCEPT ![n] = None]
          /\ e # n => art' = art
    <3>1. CASE Onward(p, [job[p] EXCEPT !.todo = @ \ {n}, !.evicted = n]) /\ RemoveArtifact(n)
      BY <3>1 DEF Onward, RemoveArtifact
    <3>2. CASE Onward(p, [job[p] EXCEPT !.todo = @ \ {n}]) /\ art' = art
      <4>1. [job[p] EXCEPT !.todo = @ \ {n}] = [job[p] EXCEPT !.todo = @ \ {n}, !.evicted = None]
        BY <1>1, <2>1 DEF Job
      <4>2. None # n
        BY StoreAssumption
      <4> QED
        BY <3>2, <4>1, <4>2 DEF Onward
    <3> QED
      BY <1>10, <3>1, <3>2 DEF Evicts
  <2>3. PICK j : j = [job[p] EXCEPT !.todo = @ \ {n}, !.evicted = e]
    OBVIOUS
  <2>4. j \in Job /\ j.todo = job[p].todo \ {n} /\ j.evicted = e
    BY <1>1, <2>3 DEF Job
  <2>5. Complete \ {n} \subseteq Complete' /\ Complete' \subseteq Complete
    BY <1>3, <2>1, <2>2 DEF Complete
  <2>6. j.evicted # None => art'[j.evicted] = None
    BY <1>3, <2>2, <2>4
  <2>7. Spared(j)'
    BY <1>1, <1>4, <2>1, <2>4, <2>5, <2>6, StillSpared
  <2> QED
    BY <1>5, <2>2, <2>3, <2>5, <2>7
<1>11. CASE EvictsMetadata(p)
  <2>1. PICK j : j = [job[p] EXCEPT !.evicted = None]
    OBVIOUS
  <2>2. j \in Job /\ j.todo = job[p].todo /\ j.evicted = None
    BY <1>1, <2>1 DEF Job
  <2>3. /\ job' = [job EXCEPT ![p] = j] /\ art' = art
        /\ At(p, "evicting") /\ job[p].evicted # None
    BY <1>11, <2>1 DEF EvictsMetadata, Onward
  <2>4. art[job[p].evicted] = None
    BY <1>4, <2>3 DEF Spared
  <2>5. meta' = [meta EXCEPT ![job[p].evicted] = None] \/ meta' = meta
    BY <1>11 DEF EvictsMetadata, RemoveMetadata
  <2>6. Complete' = Complete /\ \A m \in Complete : meta'[m] = meta[m]
    BY <1>3, <2>3, <2>4, <2>5 DEF Complete
  <2>7. None \notin Complete
    BY StoreAssumption DEF Complete
  <2>8. None \notin job[p].todo
    BY <1>1, StoreAssumption DEF Job
  <2>9. Spared(j)'
    BY <1>1, <1>4, <2>2, <2>3, <2>6, <2>7, <2>8, StillSpared
  <2> QED
    BY <1>5, <2>3, <2>6, <2>9
<1>12. CASE Concludes(p)
  <2>1. UNCHANGED <<art, meta>>
    BY <1>12 DEF Concludes
  <2>2. Complete' = Complete
    BY <2>1 DEF Complete
  <2>3. CASE Onward(p, [job[p] EXCEPT !.step = "kept"])
    <3>1. [job[p] EXCEPT !.step = "kept"].step = "kept"
      BY <1>1 DEF Job
    <3> QED
      BY <1>5, <2>2, <2>3, <3>1 DEF Onward
  <2> QED
    BY <1>6, <1>12, <2>2, <2>3 DEF Concludes
<1> QED
  BY <1>7, <1>8, <1>9, <1>10, <1>11, <1>12 DEF Works

\* What a process does to its own life, and the clock, leave the directory alone.
LEMMA RetainedStep ==
  ASSUME SafeInv, Retained, [Next]_vars, ~overlapped'
  PROVE  Retained' /\ ((\E p \in Processes : At(p, "evicting")) => Complete' \subseteq Complete)
<1>1. LockTypeOK /\ ~overlapped /\ job \in [Processes -> Job \union {None}]
  BY OverlapStays DEF SafeInv, DataTypeOK
<1>2. ASSUME UNCHANGED <<art, meta>>,
             \A q \in Processes : job'[q] = job[q] \/ job'[q] = None \/ job'[q].step # "evicting"
      PROVE  Retained' /\ Complete' \subseteq Complete
  <2>1. Complete' = Complete
    BY <1>2 DEF Complete
  <2>2. ASSUME NEW q \in Processes, At(q, "evicting")' PROVE Spared(job[q])'
    <3>1. job'[q] = job[q] /\ Spared(job[q])
      BY <1>1, <1>2, <2>2 DEF Retained, At
    <3> QED
      BY <1>2, <2>1, <3>1 DEF Spared
  <2> QED
    BY <2>1, <2>2 DEF Retained, Processes
<1>3. ASSUME NEW p \in Processes, NEW j, j.step # "evicting", job' = [job EXCEPT ![p] = j],
             UNCHANGED <<art, meta>>
      PROVE  Retained' /\ Complete' \subseteq Complete
  BY <1>1, <1>2, <1>3
<1>4. ASSUME NEW p \in Processes, NEW kind, NEW n, NEW source, Begins(p, kind, n, source), UNCHANGED <<art, meta>>
      PROVE  Retained' /\ Complete' \subseteq Complete
  <2> DEFINE j == [kind |-> kind, step |-> "named", name |-> n, id |-> None, created |-> now, source |-> source,
                   found |-> IF source = None THEN None ELSE art[source], todo |-> {}, evicted |-> None]
  <2>1. j.step = "named" /\ job' = [job EXCEPT ![p] = j]
    BY <1>4 DEF Begins
  <2> HIDE DEF j
  <2> QED
    BY <1>3, <1>4, <2>1
<1>5. ASSUME NEW s \in Servers,
             \/ Starts(s) \/ Lifecycle(s) \/ Stops(s) \/ Polls(s) \/ Schedules(s) \/ Writes(s)
             \/ \E kind \in Kinds, source \in Names \union {None} : Requested(s, kind, source)
      PROVE  Retained' /\ Complete' \subseteq Complete
  BY <1>2, <1>4, <1>5 DEF Starts, Lifecycle, Stops, Polls, Schedules, Writes, Requested, storeVars, Processes
<1>6. ASSUME NEW s \in Servers, NEW n \in Names, Deletes(s, n)
      PROVE  Retained' /\ ~\E p \in Processes : At(p, "evicting")
  <2>1. Free(s) /\ s \in Processes
    BY <1>6 DEF Deletes, Processes
  <2>2. \A p \in Processes : ~At(p, "evicting")
    BY <1>1, <2>1 DEF SafeInv, Alone, Free, InUse, At
  <2>3. PICK j : j.step = "unlisted" /\ job' = [job EXCEPT ![s] = j]
    BY <1>6 DEF Deletes
  <2>4. \A p \in Processes : ~At(p, "evicting")'
    BY <1>1, <2>1, <2>2, <2>3 DEF At
  <2> QED
    BY <2>2, <2>4 DEF Retained, Processes
<1>7. ASSUME NEW c \in Clis,
             \/ Exits(c)
             \/ \E kind \in Kinds, source \in Names \union {None} : CliBegins(c, kind, source)
      PROVE  Retained' /\ Complete' \subseteq Complete
  BY <1>2, <1>4, <1>7 DEF Exits, CliBegins, storeVars, Processes
<1>8. ASSUME NEW p \in Processes, Works(p)
      PROVE  Retained' /\ ((\E q \in Processes : At(q, "evicting")) => Complete' \subseteq Complete)
  <2>1. Retained' /\ (At(p, "evicting") => Complete' \subseteq Complete)
    BY <1>1, <1>8, WorkRetained
  <2>2. job[p] # None
    BY <1>8 DEF Works, Snapshot, PlaceArtifact, PlaceMetadata, BackupFails, Retains, Evicts, EvictsMetadata,
       Concludes, Restores, Resets, RollsBack, DeletesMetadata, At
  <2>3. \A q \in Processes : At(q, "evicting") => q = p
    BY <1>1, <2>2 DEF At, SafeInv, Alone
  <2> QED
    BY <2>1, <2>3
<1>9. ASSUME NEW p \in Processes, Dies(p)
      PROVE  Retained' /\ Complete' \subseteq Complete
  BY <1>1, <1>2, <1>9 DEF Dies, Done, storeVars
<1>10. ASSUME NEW p \in Processes, Overlaps(p) PROVE FALSE
  BY <1>10 DEF Overlaps
<1>11. CASE ChildEnds \/ Clock \/ UNCHANGED vars
  BY <1>2, <1>11 DEF ChildEnds, Clock, vars, storeVars
<1> QED
  BY <1>5, <1>6, <1>7, <1>8, <1>9, <1>10, <1>11 DEF Next

LEMMA RetainedAlways == Spec => [](SafeInv /\ Retained)
<1>1. Init => Retained
  BY DEF Init, Retained, At
<1>2. SafeInv /\ Retained /\ [Next]_vars => Retained'
  <2> SUFFICES ASSUME SafeInv, Retained, [Next]_vars PROVE Retained'
    OBVIOUS
  <2>1. CASE ~overlapped'
    BY <2>1, RetainedStep
  <2>2. CASE overlapped'
    BY <2>2 DEF Retained
  <2> QED
    BY <2>1, <2>2
<1> QED
  BY <1>1, <1>2, SafeInvHolds, PTL DEF Spec

\* What EvictsOldest asks of one step.
EvictsOldestStep ==
  \A n \in Complete \ Complete' : ~overlapped /\ (\E p \in Processes : At(p, "evicting")) =>
    Cardinality({m \in Complete' : meta[m].created >= meta[n].created}) >= Limit

LEMMA EvictsOldestByStep == SafeInv /\ Retained /\ [Next]_vars => [EvictsOldestStep]_vars
<1> SUFFICES ASSUME SafeInv, Retained, Next, NEW n \in Complete \ Complete',
                    ~overlapped, NEW p \in Processes, At(p, "evicting")
             PROVE  Cardinality({m \in Complete' : meta[m].created >= meta[n].created}) >= Limit
  BY DEF EvictsOldestStep
<1>1. DataTypeOK /\ job[p] \in Job /\ Spared(job[p]) /\ Limit \in Nat
  BY StoreAssumption DEF SafeInv, DataTypeOK, Retained, At
<1>2. /\ art \in [Names -> Ids \union {None}] /\ meta \in [Names -> Metadata \union {None}]
  BY <1>1 DEF DataTypeOK, StoreTypeOK
<1>3. \A q \in Processes : q # p => job[q] = None
  BY DEF SafeInv, Alone, At
<1>4. CASE \E o \in Names : Evicts(p, o)
  <2>1. PICK o \in Names : Evicts(p, o)
    BY <1>4
  <2>2. o \in job[p].todo /\ o \in Complete /\ meta' = meta /\ (art' = [art EXCEPT ![o] = None] \/ art' = art)
    BY <2>1 DEF Evicts, ToEvict, RemoveArtifact
  <2>3. n = o /\ Complete \ {n} \subseteq Complete'
    BY <1>2, <2>2 DEF Complete
  <2>4. PICK rest \in SUBSET (Complete \ job[p].todo) :
           /\ IsFiniteSet(rest) /\ Cardinality(rest) >= Limit
           /\ \A m \in rest, o2 \in job[p].todo \intersect Complete : meta[m].created >= meta[o2].created
    BY <1>1, <2>2 DEF Spared
  <2>5. rest \subseteq {m \in Complete' : meta[m].created >= meta[n].created}
    BY <2>2, <2>3, <2>4
  <2>6. {m \in Complete' : meta[m].created >= meta[n].created} \in SUBSET Names
    BY DEF Complete, Names, Time
  <2>7. IsFiniteSet({m \in Complete' : meta[m].created >= meta[n].created})
    BY <2>6, NamesFinite, FS_Subset
  <2>8. Cardinality(rest) <= Cardinality({m \in Complete' : meta[m].created >= meta[n].created})
    BY <2>5, <2>7, FS_Subset
  <2> QED
    BY <1>1, <2>4, <2>7, <2>8, FS_CardinalityType
<1>5. ASSUME NEW q \in Processes, Works(q), ~\E o \in Names : Evicts(p, o) PROVE FALSE
  <2>1. q = p
    BY <1>3, <1>5 DEF Works, Snapshot, PlaceArtifact, PlaceMetadata, BackupFails, Retains, Evicts, EvictsMetadata,
       Concludes, Restores, Resets, RollsBack, DeletesMetadata, At
  <2>2. EvictsMetadata(p) \/ Concludes(p)
    BY <1>5, <2>1 DEF Works, Snapshot, PlaceArtifact, PlaceMetadata, BackupFails, Retains,
       Restores, Resets, RollsBack, DeletesMetadata, At
  <2>3. CASE EvictsMetadata(p)
    <3>1. art[job[p].evicted] = None /\ art' = art /\ (meta' = [meta EXCEPT ![job[p].evicted] = None] \/ meta' = meta)
      BY <1>1, <2>3 DEF Spared, EvictsMetadata, RemoveMetadata
    <3> QED
      BY <1>2, <3>1 DEF Complete
  <2>4. CASE Concludes(p)
    BY <2>4 DEF Concludes, Complete
  <2> QED
    BY <2>2, <2>3, <2>4
<1>6. ASSUME UNCHANGED <<art, meta>> PROVE FALSE
  BY <1>6 DEF Complete
<1>7. ASSUME NEW s \in Servers, NEW o \in Names, Deletes(s, o) PROVE FALSE
  BY <1>3, <1>7 DEF Deletes, Free, SafeInv, Alone, InUse, At, Processes
<1>8. ASSUME NEW s \in Servers,
             \/ Starts(s) \/ Lifecycle(s) \/ Stops(s) \/ Polls(s) \/ Schedules(s) \/ Writes(s)
             \/ \E kind \in Kinds, source \in Names \union {None} : Requested(s, kind, source)
      PROVE  FALSE
  BY <1>6, <1>8 DEF Starts, Lifecycle, Stops, Polls, Schedules, Writes, Requested, storeVars
<1>9. ASSUME NEW c \in Clis,
             \/ Exits(c)
             \/ \E kind \in Kinds, source \in Names \union {None} : CliBegins(c, kind, source)
      PROVE  FALSE
  BY <1>6, <1>9 DEF Exits, CliBegins, storeVars
<1>10. ASSUME NEW q \in Processes, Dies(q) \/ Overlaps(q) PROVE FALSE
  BY <1>6, <1>10 DEF Dies, Overlaps, storeVars
<1>11. CASE ChildEnds \/ Clock
  BY <1>6, <1>11 DEF ChildEnds, Clock, storeVars
<1> QED
  BY <1>4, <1>5, <1>7, <1>8, <1>9, <1>10, <1>11 DEF Next

\* Retention takes off the list only what Limit others outlast.
THEOREM EvictsOldestAlways == Spec => EvictsOldest
<1>1. EvictsOldest <=> [][EvictsOldestStep]_vars
  BY PTL DEF EvictsOldest, EvictsOldestStep
<1> QED
  BY <1>1, RetainedAlways, EvictsOldestByStep, PTL DEF Spec

-----------------------------------------------------------------------------
(* The catalogue: Safeguards implements BackupCatalogue.                   *)

\* After two have overlapped nobody has a job; the candidate of a restore was
\* made of what the backup it restores holds.
Sourced ==
  /\ overlapped => \A p \in Processes : job[p] = None
  /\ ~overlapped => \A p \in Processes : job[p] # None /\ job[p].kind = "restore" =>
       job[p].found = art[job[p].source]

\* A step of a job that leaves what it is for.
SamePurpose(j, k) == j.kind = k.kind /\ j.source = k.source /\ j.found = k.found

\* A step of a process that has a job.
LEMMA WorkFacts ==
  ASSUME SafeInv, Sourced, NEW p \in Processes, Works(p)
  PROVE  /\ job[p] \in Job /\ job[p] # None
         /\ ~overlapped /\ ~overlapped'
         /\ \A q \in Processes \ {p} : job[q] = None
<1>1. job[p] \in Job /\ job[p] # None
  BY DEF Works, Snapshot, PlaceArtifact, PlaceMetadata, BackupFails, Retains, Evicts, EvictsMetadata,
     Concludes, Restores, Resets, RollsBack, DeletesMetadata, At, SafeInv, DataTypeOK
<1>2. ~overlapped
  BY <1>1 DEF Sourced
<1>3. UNCHANGED overlapped
  BY DEF Works, Snapshot, PlaceArtifact, PlaceMetadata, BackupFails, Retains, Evicts, EvictsMetadata,
     Concludes, Restores, Resets, RollsBack, DeletesMetadata, Aside, lockVars
<1>4. \A q \in Processes \ {p} : job[q] = None
  BY <1>1, <1>2 DEF SafeInv, Alone
<1> QED
  BY <1>1, <1>2, <1>3, <1>4

LEMMA WorkSourced ==
  ASSUME SafeInv, Sourced, NEW p \in Processes, Works(p)
  PROVE  Sourced'
<1>1. /\ job[p] \in Job /\ job[p] # None
      /\ ~overlapped /\ ~overlapped'
      /\ \A q \in Processes \ {p} : job[q] = None
  BY WorkFacts
<1>2. /\ Working(job[p]) /\ job \in [Processes -> Job \union {None}]
      /\ None \notin Names
      /\ art \in [Names -> Ids \union {None}] /\ job[p].name \in Names
      /\ job[p].kind = "restore" => job[p].found = art[job[p].source]
  BY <1>1, StoreAssumption DEF SafeInv, Placed, DataTypeOK, StoreTypeOK, Sourced, Job
<1>3. ASSUME Done(p) PROVE Sourced'
  BY <1>1, <1>2, <1>3 DEF Done, Sourced
<1>4. ASSUME NEW j, SamePurpose(j, job[p]), job' = [job EXCEPT ![p] = j],
             job[p].kind = "restore" => art'[job[p].source] = art[job[p].source]
      PROVE  Sourced'
  BY <1>1, <1>2, <1>4 DEF SamePurpose, Sourced
<1>5. CASE Snapshot(p) \/ PlaceMetadata(p) \/ EvictsMetadata(p)
  <2>1. PICK j : Onward(p, j) /\ SamePurpose(j, job[p])
    <3>1. /\ SamePurpose([job[p] EXCEPT !.step = "written", !.id = taken', !.created = now], job[p])
          /\ SamePurpose([job[p] EXCEPT !.step = "published"], job[p])
          /\ SamePurpose([job[p] EXCEPT !.evicted = None], job[p])
      BY <1>1 DEF Job, SamePurpose
    <3> QED
      BY <1>5, <3>1 DEF Snapshot, PlaceMetadata, EvictsMetadata
  <2> QED
    BY <1>4, <1>5, <2>1 DEF Snapshot, PlaceMetadata, EvictsMetadata, Onward
<1>6. CASE PlaceArtifact(p)
  <2>1. PICK j : Onward(p, j) /\ SamePurpose(j, job[p])
    <3>1. SamePurpose([job[p] EXCEPT !.step = "half"], job[p])
      BY <1>1 DEF Job, SamePurpose
    <3> QED
      BY <1>6, <3>1 DEF PlaceArtifact
  <2>2. art[job[p].name] = None /\ (job[p].kind = "restore" => job[p].source \in Complete)
    BY <1>2, <1>6 DEF PlaceArtifact, At, Working, Vacant
  <2>3. job[p].kind = "restore" => art'[job[p].source] = art[job[p].source]
    BY <1>2, <1>6, <2>2 DEF PlaceArtifact, PutArtifact, Complete
  <2> QED
    BY <1>4, <2>1, <2>3 DEF Onward
<1>7. ASSUME NEW n \in Names, Evicts(p, n) PROVE Sourced'
  <2>1. PICK j : Onward(p, j) /\ SamePurpose(j, job[p])
    <3>1. /\ SamePurpose([job[p] EXCEPT !.todo = @ \ {n}, !.evicted = n], job[p])
          /\ SamePurpose([job[p] EXCEPT !.todo = @ \ {n}], job[p])
      BY <1>1 DEF Job, SamePurpose
    <3> QED
      BY <1>7, <3>1 DEF Evicts
  <2>2. n \in job[p].todo /\ job[p].step = "evicting" /\ (art' = [art EXCEPT ![n] = None] \/ art' = art)
    BY <1>7 DEF Evicts, ToEvict, At, RemoveArtifact
  <2>3. n # job[p].source
    BY <1>2, <2>2 DEF Working
  <2>4. job[p].kind = "restore" => job[p].source \in Names
    BY <1>2, <2>2 DEF Working, Complete
  <2>5. job[p].kind = "restore" => art'[job[p].source] = art[job[p].source]
    BY <1>2, <2>2, <2>3, <2>4
  <2> QED
    BY <1>4, <2>1, <2>5 DEF Onward
<1>8. CASE Retains(p) \/ Concludes(p)
  <2>1. Done(p) \/ \E j : Onward(p, j) /\ SamePurpose(j, job[p])
    <3>1. /\ \A beyond : SamePurpose([job[p] EXCEPT !.step = "evicting", !.todo = beyond], job[p])
          /\ SamePurpose([job[p] EXCEPT !.step = "kept"], job[p])
      BY <1>1 DEF Job, SamePurpose
    <3> QED
      BY <1>8, <3>1 DEF Retains, Concludes
  <2> QED
    BY <1>3, <1>4, <1>8, <2>1 DEF Retains, Concludes, Onward
<1>9. CASE BackupFails(p) \/ Restores(p) \/ Resets(p) \/ RollsBack(p) \/ DeletesMetadata(p)
  BY <1>3, <1>9 DEF BackupFails, Restores, Resets, RollsBack, DeletesMetadata
<1> QED
  BY <1>5, <1>6, <1>7, <1>8, <1>9 DEF Works

LEMMA SourcedNext == SafeInv /\ Sourced /\ [Next]_vars => Sourced'
<1> SUFFICES ASSUME SafeInv, Sourced, [Next]_vars PROVE Sourced'
  OBVIOUS
<1>1. job \in [Processes -> Job \union {None}] /\ overlapped \in BOOLEAN /\ (overlapped => overlapped')
  BY OverlapStays DEF SafeInv, DataTypeOK, LockTypeOK
<1>2. ASSUME UNCHANGED art, overlapped' <=> overlapped, \A q \in Processes : job'[q] \in {job[q], None} PROVE Sourced'
  BY <1>1, <1>2 DEF Sourced
<1>3. ASSUME NEW p \in Processes, NEW kind \in Kinds, NEW n, NEW source, Begins(p, kind, n, source),
             \/ source = None
             \/ source \in Complete,
             kind = "restore" => source \in Complete,
             UNCHANGED art, ~overlapped, ~overlapped'
      PROVE  Sourced'
  <2>1. PICK j : j = [kind |-> kind, step |-> "named", name |-> n, id |-> None, created |-> now, source |-> source,
                      found |-> IF source = None THEN None ELSE art[source], todo |-> {}, evicted |-> None]
    OBVIOUS
  <2>2. None \notin Complete
    BY StoreAssumption DEF Complete
  <2>3. job' = [job EXCEPT ![p] = j] /\ (j.kind = "restore" => j.found = art[j.source])
    BY <1>3, <2>1, <2>2 DEF Begins
  <2> QED
    BY <1>1, <1>3, <2>3 DEF Sourced
<1>4. ASSUME NEW s \in Servers, Polls(s) PROVE Sourced'
  <2>1. PICK n \in Names : Begins(s, "scheduled", n, None)
    BY <1>4 DEF Polls
  <2>2. s \in Processes /\ UNCHANGED <<art, overlapped>> /\ ~overlapped
    BY <1>4 DEF Polls, Free, storeVars, lockVars, Processes
  <2> QED
    BY <1>3, <2>1, <2>2 DEF Kinds
<1>5. ASSUME NEW s \in Servers, NEW kind \in Kinds, NEW source \in Names \union {None}, Requested(s, kind, source)
      PROVE  Sourced'
  <2>1. PICK n \in Names : Begins(s, kind, n, source)
    BY <1>5 DEF Requested
  <2>2. s \in Processes /\ UNCHANGED <<art, overlapped>> /\ ~overlapped
    BY <1>5 DEF Requested, Free, storeVars, lockVars, Processes
  <2> QED
    BY <1>3, <1>5, <2>1, <2>2 DEF Requested
<1>6. ASSUME NEW c \in Clis, NEW kind \in Kinds, NEW source \in Names \union {None}, CliBegins(c, kind, source)
      PROVE  Sourced'
  <2>1. PICK n \in Names : Begins(c, kind, n, source)
    BY <1>6 DEF CliBegins
  <2>2. c \in Processes /\ UNCHANGED art /\ ~overlapped /\ ~overlapped'
    BY <1>1, <1>6 DEF CliBegins, storeVars, Processes
  <2> QED
    BY <1>3, <1>6, <2>1, <2>2 DEF CliBegins
<1>7. ASSUME NEW s \in Servers, NEW n \in Names, Deletes(s, n) PROVE Sourced'
  <2>1. /\ s \in Processes /\ ~overlapped /\ UNCHANGED overlapped
        /\ \A q \in Processes : job[q] = None
    <3>1. s \in Processes /\ ~overlapped /\ job[s] = None /\ InUse(s) /\ UNCHANGED overlapped
      BY <1>7 DEF Deletes, Free, InUse, Processes, Aside, lockVars
    <3> QED
      BY <3>1, Others DEF SafeInv
  <2>2. PICK j : j.kind = "delete" /\ job' = [job EXCEPT ![s] = j]
    BY <1>7 DEF Deletes
  <2> QED
    BY <1>1, <2>1, <2>2 DEF Sourced
<1>8. ASSUME NEW s \in Servers, Starts(s) \/ Lifecycle(s) \/ Stops(s) \/ Schedules(s) \/ Writes(s)
      PROVE  Sourced'
  <2>1. CASE UNCHANGED overlapped
    BY <1>2, <1>8, <2>1 DEF Starts, Lifecycle, Stops, Schedules, Writes, storeVars
  <2>2. CASE Lifecycle(s) /\ (Serves(s) \/ StartFails(s)) /\ ~overlapped'
    BY <1>1, <1>2, <2>2 DEF Lifecycle, storeVars
  <2> QED
    BY <1>8, <2>1, <2>2 DEF Starts, Acquires, Lifecycle, TakesLock, Granted, Refused, TimesOut, LostEarly,
       NoticesLoss, Closes, Released, Stops, Signalled, Schedules, Writes, lockVars
<1>9. ASSUME NEW c \in Clis, Exits(c) PROVE Sourced'
  BY <1>2, <1>9 DEF Exits, CliEnds, storeVars
<1>10. ASSUME NEW p \in Processes, Dies(p) PROVE Sourced'
  BY <1>1, <1>2, <1>10 DEF Dies, ServerDies, CliEnds, Done, storeVars
<1>11. ASSUME NEW p \in Processes, Overlaps(p) PROVE Sourced'
  BY <1>11 DEF Overlaps, Sourced
<1>12. CASE ChildEnds \/ Clock \/ UNCHANGED vars
  BY <1>2, <1>12 DEF ChildEnds, OrphanExits, StrayEnds, HolderDies, AdriftTries, Clock, vars, lockVars, storeVars
<1> QED
  BY <1>4, <1>5, <1>6, <1>7, <1>8, <1>9, <1>10, <1>11, <1>12, WorkSourced DEF Next
Shelved == Shelf!Next \/ UNCHANGED Shelf!vars

LEMMA ShelfInit == Init => Shelf!Init
BY DEF Init, StoreInit, Shelf!Init, Listed, Complete

\* Every step is one of the catalogue's, or none.
LEMMA ShelfStep == SafeInv /\ Sourced /\ [Next]_vars => [Shelf!Next]_(Shelf!vars)
<1> SUFFICES ASSUME SafeInv, Sourced, [Next]_vars PROVE Shelved
  BY DEF Shelved
<1>t. /\ art \in [Names -> Ids \union {None}] /\ meta \in [Names -> Metadata \union {None}]
      /\ None \notin Names /\ None \notin Ids /\ None \notin Metadata
  BY StoreAssumption DEF SafeInv, DataTypeOK, StoreTypeOK
<1>l. ASSUME UNCHANGED <<art, meta>> PROVE Listed' = Listed
  BY <1>l DEF Listed, Complete
<1>h. \A n \in Complete : art[n] \in Shelf!Held
  BY <1>t DEF Shelf!Held, Listed, Complete
<1>s. ASSUME UNCHANGED <<art, meta, same, taken>> PROVE Shelved
  BY <1>l, <1>s DEF Shelved, Shelf!vars
<1>w. ASSUME UNCHANGED <<same, taken>>, NEW n \in Names,
             \/ art' = [art EXCEPT ![n] = None] /\ meta' = meta
             \/ art' = art /\ meta' = [meta EXCEPT ![n] = None]
      PROVE  Shelved
  <2>1. Complete' = Complete \ {n}
    BY <1>t, <1>w DEF Complete
  <2>2. \A m \in Complete' : art'[m] = art[m]
    BY <1>t, <1>w, <2>1 DEF Complete
  <2>3. CASE n \in Complete
    <3>1. Listed[n] # None
      BY <2>3 DEF Listed, Complete
    <3>2. Listed' = [Listed EXCEPT ![n] = None]
      BY <2>1, <2>2 DEF Listed
    <3> QED
      BY <1>w, <3>1, <3>2 DEF Shelved, Shelf!Next, Shelf!Withdraw
  <2>4. CASE n \notin Complete
    <3>1. Listed' = Listed
      BY <2>1, <2>2, <2>4 DEF Listed
    <3> QED
      BY <1>w, <3>1 DEF Shelved, Shelf!vars
  <2> QED
    BY <2>3, <2>4
<1>c. ASSUME UNCHANGED <<art, meta, taken>>, same' = 0 PROVE Shelved
  BY <1>l, <1>c DEF Shelved, Shelf!Next, Shelf!Change
<1>1. ASSUME NEW s \in Servers,
             \/ Starts(s) \/ Lifecycle(s) \/ Stops(s) \/ Polls(s) \/ Schedules(s)
             \/ \E kind \in Kinds, source \in Names \union {None} : Requested(s, kind, source)
      PROVE  Shelved
  BY <1>s, <1>1 DEF Starts, Lifecycle, Stops, Polls, Schedules, Requested, storeVars, dataVars
<1>2. ASSUME NEW s \in Servers, Writes(s) PROVE Shelved
  BY <1>c, <1>2 DEF Writes, storeVars
<1>3. ASSUME NEW s \in Servers, NEW n \in Names, Deletes(s, n) PROVE Shelved
  BY <1>w, <1>3 DEF Deletes, RemoveArtifact, Aside, dataVars
<1>4. ASSUME NEW c \in Clis,
             \/ Exits(c)
             \/ \E kind \in Kinds, source \in Names \union {None} : CliBegins(c, kind, source)
      PROVE  Shelved
  BY <1>s, <1>4 DEF Exits, CliBegins, storeVars, dataVars
<1>5. ASSUME NEW p \in Processes, Dies(p) \/ Overlaps(p) PROVE Shelved
  BY <1>s, <1>5 DEF Dies, Overlaps, storeVars, dataVars
<1>6. CASE ChildEnds \/ Clock \/ UNCHANGED vars
  BY <1>s, <1>6 DEF ChildEnds, Clock, vars, storeVars, dataVars
<1>7. ASSUME NEW p \in Processes, Works(p) PROVE Shelved
  <2>1. /\ Working(job[p]) /\ job[p] \in Job /\ job[p].name \in Names
        /\ job[p].evicted \in Names \union {None}
        /\ job[p].step \notin {"named", "unlisted"} => job[p].id \in Ids
        /\ job[p].kind = "restore" => job[p].found = art[job[p].source]
    BY <1>7, WorkFacts DEF SafeInv, Placed, JobKnows, Sourced, Job
  <2>2. CASE Snapshot(p)
    <3>1. taken + 1 \in Ids
      BY <2>2, StoreAssumption DEF Snapshot, Ids, SafeInv, DataTypeOK, StoreTypeOK
    <3> QED
      BY <1>l, <2>2, <3>1 DEF Snapshot, Shelved, Shelf!Next, Shelf!Take
  <2>3. CASE PlaceArtifact(p)
    <3>1. meta[job[p].name] = None /\ meta' = meta /\ art' = [art EXCEPT ![job[p].name] = job[p].id]
      BY <2>1, <2>3 DEF PlaceArtifact, PutArtifact, At, Working, Vacant
    <3>2. Listed' = Listed
      BY <1>t, <2>1, <3>1 DEF Listed, Complete
    <3> QED
      BY <2>3, <3>2 DEF PlaceArtifact, Aside, dataVars, Shelved, Shelf!vars
  <2>4. CASE PlaceMetadata(p)
    <3>1. /\ art[job[p].name] = same /\ meta[job[p].name] = None /\ same \in Ids
          /\ art' = art
      BY <2>1, <2>4 DEF PlaceMetadata, At, Working
    <3>2. PICK m : m # None /\ meta' = [meta EXCEPT ![job[p].name] = m]
      <4>1. [id |-> job[p].id, created |-> job[p].created] \in Metadata
        BY <2>1, <2>4 DEF PlaceMetadata, At, Metadata, Job
      <4> QED
        BY <1>t, <2>4, <4>1 DEF PlaceMetadata, PutMetadata
    <3>3. Complete' = Complete \union {job[p].name} /\ job[p].name \notin Complete
      BY <1>t, <2>1, <3>1, <3>2 DEF Complete
    <3>4. Listed[job[p].name] = None /\ Listed' = [Listed EXCEPT ![job[p].name] = same]
      BY <2>1, <3>1, <3>3 DEF Listed
    <3> QED
      BY <2>1, <2>4, <3>1, <3>4 DEF PlaceMetadata, Aside, dataVars, Shelved, Shelf!Next, Shelf!Publish
  <2>5. CASE BackupFails(p) \/ Retains(p) \/ Concludes(p) \/ RollsBack(p)
    BY <1>s, <2>5 DEF BackupFails, Retains, Concludes, RollsBack, Aside, dataVars
  <2>6. ASSUME NEW n \in Names, Evicts(p, n) PROVE Shelved
    BY <1>s, <1>w, <2>6 DEF Evicts, RemoveArtifact, Aside, dataVars
  <2>7. CASE EvictsMetadata(p)
    BY <1>s, <1>w, <2>1, <2>7 DEF EvictsMetadata, RemoveMetadata, Aside, dataVars
  <2>8. CASE DeletesMetadata(p)
    BY <1>s, <1>w, <2>1, <2>8 DEF DeletesMetadata, RemoveMetadata, Aside, dataVars
  <2>9. CASE Restores(p)
    <3>1. /\ job[p].name \in Complete /\ art[job[p].name] = same
          /\ job[p].source \in Complete /\ same' = art[job[p].source]
      BY <2>1, <2>9 DEF Restores, At, Working
    <3>2. UNCHANGED <<art, meta, taken>>
      BY <2>9 DEF Restores, storeVars
    <3> QED
      BY <1>h, <1>l, <3>1, <3>2 DEF Shelved, Shelf!Next, Shelf!Restore
  <2>10. CASE Resets(p)
    BY <1>c, <2>10 DEF Resets, storeVars
  <2> QED
    BY <1>7, <2>2, <2>3, <2>4, <2>5, <2>6, <2>7, <2>8, <2>9, <2>10 DEF Works
<1> QED
  BY <1>1, <1>2, <1>3, <1>4, <1>5, <1>6, <1>7 DEF Next

\* Backups are listed and withdrawn whole, and a restore swaps one listed
\* snapshot for another, whatever fails or is killed between the files.
THEOREM CatalogueKept == Spec => KeepsCatalogue
<1>1. Init => Sourced
  BY DEF Init, LockInit, Sourced
<1> QED
  BY <1>1, SafeInvHolds, SourcedNext, ShelfInit, ShelfStep, PTL
     DEF Spec, KeepsCatalogue, Shelf!Spec
=============================================================================
