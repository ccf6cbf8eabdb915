---------------------------- MODULE BackupStore ----------------------------
(***************************************************************************)
(* The backup directory (domains/safety.ts, backup-cli.ts).  A backup is   *)
(* two files of one name: the encrypted artifact and its metadata, placed, *)
(* listed and removed one after the other.  Only a name with both is       *)
(* shown, downloaded, deleted or evicted; a name with one of them is       *)
(* invisible and taken.                                                    *)
(*                                                                         *)
(* A backup is known by the number of its snapshot.  Encryption, payload   *)
(* and checksums are not looked into.                                      *)
(***************************************************************************)
EXTENDS Integers, FiniteSets

CONSTANTS
  Limit,       \* BACKUP_RETENTION_LIMIT
  MaxBackups,  \* bound: snapshots ever taken, and the highest suffix of a name
  MaxTime,     \* bound: the last instant of the wall clock
  None

Time == 0 .. MaxTime
Ids == 1 .. MaxBackups
\* backup_<second>.sqlite3 has suffix 0, backup_<second>_<n>.sqlite3 suffix n.
Names == [at : Time, seq : 0 .. MaxBackups]
Metadata == [id : Ids, created : Time]

ASSUME StoreAssumption ==
  /\ Limit \in Nat \ {0} /\ MaxBackups \in Nat /\ MaxTime \in Nat
  /\ None \notin Ids \union Names \union Metadata

VARIABLES
  now,   \* the wall clock, which may be set back
  art,   \* name -> the snapshot its artifact holds, or None
  meta,  \* name -> what its metadata says, or None
  taken  \* snapshots taken so far

storeVars == <<now, art, meta, taken>>

StoreTypeOK ==
  /\ now \in Time
  /\ art \in [Names -> Ids \union {None}]
  /\ meta \in [Names -> Metadata \union {None}]
  /\ taken \in 0 .. MaxBackups

StoreInit ==
  /\ now = 0
  /\ art = [n \in Names |-> None] /\ meta = [n \in Names |-> None]
  /\ taken = 0

-----------------------------------------------------------------------------
\* rowsFromFiles: the names that are listed.
Complete == {n \in Names : art[n] # None /\ meta[n] # None}

\* Mutant: a name is looked for among the artifacts only.
Used_ByArtifacts(t) == {n.seq : n \in {m \in Names : m.at = t /\ art[m] # None}}
\* Suffixes in use in this second, by either file.
Used(t) == {n.seq : n \in {m \in Names : m.at = t /\ (art[m] # None \/ meta[m] # None)}}

\* nextFilename: the server goes one past the highest suffix, the CLI takes the
\* first that is free.
ServerName(n) ==
  /\ n.at = now
  /\ \A k \in Used(now) : k < n.seq
  /\ n.seq # 0 => n.seq - 1 \in Used(now)
CliName(n) ==
  /\ n.at = now /\ n.seq \notin Used(now)
  /\ 0 .. (n.seq - 1) \subseteq Used(now)

\* compareBackupDescending: by creation, then by second and suffix of the name.
Newer(m, n) ==
  \/ meta[m].created > meta[n].created
  \/ /\ meta[m].created = meta[n].created
     /\ m.at > n.at \/ (m.at = n.at /\ m.seq > n.seq)
NewerThan(n) == {m \in Complete : Newer(m, n)}

\* Mutant: the last of the newest is counted out.
Excess_OffByOne == {n \in Complete : Cardinality(NewerThan(n)) + 1 >= Limit}
\* evictBeyondRetention: what lies beyond the newest Limit.
Excess == {n \in Complete : Cardinality(NewerThan(n)) >= Limit}

-----------------------------------------------------------------------------
\* The files of a name, one call each.
PutArtifact(n, id) == art' = [art EXCEPT ![n] = id]
PutMetadata(n, id, created) == meta' = [meta EXCEPT ![n] = [id |-> id, created |-> created]]
RemoveArtifact(n) == art' = [art EXCEPT ![n] = None]
RemoveMetadata(n) == meta' = [meta EXCEPT ![n] = None]

\* The wall clock runs, and may be set back.
Tick == now < MaxTime /\ now' = now + 1
SetBack == \E t \in Time : t < now /\ now' = t
=============================================================================
