--------------------------- MODULE AttendanceProofs ---------------------------
(***************************************************************************)
(* Proofs about Attendance: type correctness, that an override always      *)
(* names the status of its evidence, and the three action properties.      *)
(*                                                                         *)
(* OriginalIsEvidence is not inductive by itself: a commit writes what an  *)
(* earlier preview proposed, so the invariant also says what the staged    *)
(* rows of every preview may propose (RowsSound).                          *)
(***************************************************************************)
EXTENDS Attendance, TLAPS

\* A row keeps the scans of the record it was staged against.
Keeps(before, proposal) ==
  before # None => /\ before.in = "scan" => proposal.in = "scan"
                   /\ before.out = "scan" => proposal.out = "scan"

Sound(row) ==
  row.class \in Committable =>
    /\ row.proposal \in Evidence
    /\ row.class = "NEW" => row.before = None
    /\ row.class = "UNCHANGED" => row.proposal = row.before
    /\ Keeps(row.before, row.proposal)

RowsSound ==
  \A b \in Batches : batches[b] # None =>
    \A k \in Key : batches[b].rows[k] # None => Sound(batches[b].rows[k])

IInv == TypeOK /\ OriginalIsEvidence /\ RowsSound

-----------------------------------------------------------------------------
(* Lemmas about the operators.                                             *)

\* A merged scan is a scan, and it is there if it was there before.
LEMMA OrElseScan ==
  ASSUME NEW s \in Scan, NEW t \in Scan
  PROVE  OrElse(s, t) \in Scan /\ (t = "scan" => OrElse(s, t) = "scan")
BY DEF OrElse, Scan

\* Whatever the scans and the cutoff, the derived status is one of the contract.
LEMMA DerivedStatus ==
  ASSUME NEW in \in Scan, NEW out \in Scan
  PROVE  DeriveAttendanceStatus(in, out) \subseteq Status
BY StoreAssumption DEF DeriveAttendanceStatus, Status, Scan

\* What is seen of a record that exists has the types of what is stored.
LEMMA CurrentTypes ==
  ASSUME StoreTypeOK, NEW k \in Key, records[k] # None
  PROVE  CurrentStatus(k) \in Status /\ CurrentIn(k) \in Scan /\ CurrentOut(k) \in Scan
<1>1. records[k] \in Evidence
  BY DEF StoreTypeOK
<1>2. CASE overrides[k] = None
  BY <1>1, <1>2 DEF CurrentStatus, CurrentIn, CurrentOut, Evidence
<1>3. CASE overrides[k] # None
  <2>1. overrides[k] \in Review
    BY <1>3 DEF StoreTypeOK
  <2> QED
    BY <1>1, <1>3, <2>1, OrElseScan DEF CurrentStatus, CurrentIn, CurrentOut, Evidence, Review
<1> QED
  BY <1>2, <1>3

\* Writing an override keeps the types of the store and touches no other record.
LEMMA ReviewedType ==
  ASSUME StoreTypeOK, NEW k \in Key, records[k] # None, NEW status \in Status,
         NEW in \in Scan, NEW out \in Scan, NEW stamp \in NextStamps(k)
  PROVE  Reviewed(k, status, in, out, stamp) \in Review
<1>1. records[k] \in Evidence /\ (overrides[k] # None => overrides[k] \in Review)
  BY DEF StoreTypeOK
<1>2. stamp \in 1 .. MaxReviews
  BY StoreAssumption DEF NextStamps
<1>3. OriginalOf(k) \in Status
  BY <1>1 DEF OriginalOf, Evidence, Review
<1> QED
  BY <1>2, <1>3 DEF Reviewed, Review

LEMMA WriteOverrideType ==
  ASSUME StoreTypeOK, NEW k \in Key, records[k] # None, NEW status \in Status,
         NEW in \in Scan, NEW out \in Scan, NEW prev \in Status,
         WriteOverride(k, status, in, out, prev)
  PROVE  /\ overrides' \in [Key -> Review \union {None}]
         /\ history' \in [Key -> Entry \union {None}]
         /\ overrides'[k] # None
         /\ overrides'[k].original = OriginalOf(k)
         /\ overrides'[k].status = status
         /\ history'[k] = [prev |-> prev, new |-> status]
         /\ \A j \in Key : j # k => overrides'[j] = overrides[j] /\ history'[j] = history[j]
<1>1. PICK stamp \in NextStamps(k) :
        overrides' = [overrides EXCEPT ![k] = Reviewed(k, status, in, out, stamp)]
  BY DEF WriteOverride
<1>2. Reviewed(k, status, in, out, stamp) \in Review
  BY ReviewedType
<1>3. [prev |-> prev, new |-> status] \in Entry
  BY DEF Entry
<1>4. history' = [history EXCEPT ![k] = [prev |-> prev, new |-> status]]
  BY DEF WriteOverride
<1>5. overrides' \in [Key -> Review \union {None}] /\ overrides'[k] = Reviewed(k, status, in, out, stamp)
  BY <1>1, <1>2 DEF StoreTypeOK
<1>6. overrides'[k] # None
  BY <1>2, <1>5, NoneAssumption
<1>7. overrides'[k].original = OriginalOf(k) /\ overrides'[k].status = status
  BY <1>5 DEF Reviewed
<1>8. history' \in [Key -> Entry \union {None}] /\ history'[k] = [prev |-> prev, new |-> status]
  BY <1>3, <1>4 DEF StoreTypeOK
<1>9. \A j \in Key : j # k => overrides'[j] = overrides[j] /\ history'[j] = history[j]
  BY <1>1, <1>4 DEF StoreTypeOK
<1> QED
  BY <1>5, <1>6, <1>7, <1>8, <1>9

\* Every row a preview stages is well formed and sound.
LEMMA StagedRow ==
  ASSUME StoreTypeOK, NEW k \in Key, NEW source \in SourceRow, NEW divergent \in BOOLEAN,
         NEW row \in Staged(k, source, divergent)
  PROVE  row \in Row /\ Sound(row) /\ row # None
<1> DEFINE blocked == {Blocked(source, c) : c \in Conflict}
<1>1. CASE row \in blocked
  <2>1. PICK c \in Conflict : row = Blocked(source, c)
    BY <1>1
  <2>2. row \in Row
    BY <2>1 DEF Blocked, Row
  <2>3. row.class \notin Committable
    BY <2>1 DEF Blocked, Conflict, Committable
  <2> QED
    BY <2>2, <2>3, BatchAssumption DEF Sound
<1>2. CASE row \notin blocked
  <2>1. k[1] \in linked /\ ~divergent
    BY <1>2 DEF Staged, Conflict
  <2>2. PICK p \in ProposedPayload(k, source) :
          row = IF overrides[k] # None /\ records[k] # p THEN Blocked(source, "OVERRIDDEN")
                ELSE [source |-> source, before |-> records[k], proposal |-> p,
                      class |-> IF records[k] = None THEN "NEW"
                                ELSE IF records[k] = p THEN "UNCHANGED" ELSE "DIFFERENCE"]
    BY <2>1 DEF Staged
  <2>3. row = [source |-> source, before |-> records[k], proposal |-> p,
               class |-> IF records[k] = None THEN "NEW"
                         ELSE IF records[k] = p THEN "UNCHANGED" ELSE "DIFFERENCE"]
    BY <1>2, <2>2 DEF Conflict
  <2>4. source.in \in Scan /\ source.out \in Scan
    BY DEF SourceRow
  <2>5. records[k] \in Evidence \union {None}
    BY DEF StoreTypeOK
  <2>6. p \in Evidence /\ Keeps(records[k], p)
    <3> DEFINE m == Merged(k, source)
    <3>1. m.in \in Scan /\ m.out \in Scan /\ Keeps(records[k], m)
      BY <2>4, <2>5, OrElseScan DEF Merged, Evidence, Keeps
    <3>2. DeriveAttendanceStatus(m.in, m.out) \subseteq Status
      BY <3>1, DerivedStatus
    <3>3. PICK s \in DeriveAttendanceStatus(m.in, m.out) :
            p = [in |-> m.in, out |-> m.out, status |-> s]
      BY DEF ProposedPayload
    <3> HIDE DEF m
    <3> QED
      BY <3>1, <3>2, <3>3 DEF Evidence, Keeps
  <2>7. row.class \in Committable
    BY <2>3 DEF Committable
  <2>8. row \in Row
    BY <2>3, <2>5, <2>6 DEF Row, Committable
  <2>9. Sound(row)
    BY <2>3, <2>6, NoneAssumption DEF Sound
  <2> QED
    BY <2>8, <2>9, BatchAssumption
<1> QED
  BY <1>1, <1>2
-----------------------------------------------------------------------------
(* What a review does: it creates evidence where there is none, and every  *)
(* change of an override is dated, filed and keeps the evidence's status.  *)

ReviewEffect ==
  \A k \in Key :
    /\ records'[k] # records[k] =>
         records[k] = None /\ records'[k] # None /\ PeriodOpen(DateOf(k))
    /\ overrides'[k] # overrides[k] =>
         /\ records[k] # None /\ PeriodOpen(DateOf(k))
         /\ overrides'[k] # None /\ overrides'[k].original = OriginalOf(k)
         /\ history'[k] = [prev |-> CurrentStatus(k), new |-> overrides'[k].status]

\* The types and the effect of rewriting the override of one record.
LEMMA WriteEffect ==
  ASSUME StoreTypeOK, NEW k \in Key, records[k] # None, PeriodOpen(DateOf(k)),
         NEW status \in Status, NEW in \in Scan, NEW out \in Scan,
         WriteOverride(k, status, in, out, CurrentStatus(k)),
         UNCHANGED <<records, finalized>>
  PROVE  StoreTypeOK' /\ ReviewEffect
<1>1. CurrentStatus(k) \in Status
  BY CurrentTypes
<1>2. /\ overrides' \in [Key -> Review \union {None}]
      /\ history' \in [Key -> Entry \union {None}]
      /\ overrides'[k] # None
      /\ overrides'[k].original = OriginalOf(k)
      /\ overrides'[k].status = status
      /\ history'[k] = [prev |-> CurrentStatus(k), new |-> status]
      /\ \A j \in Key : j # k => overrides'[j] = overrides[j] /\ history'[j] = history[j]
  BY <1>1, WriteOverrideType
<1>3. StoreTypeOK'
  BY <1>2 DEF StoreTypeOK
<1>4. ASSUME NEW j \in Key, overrides'[j] # overrides[j]  PROVE  j = k
  BY <1>2, <1>4
<1>5. ReviewEffect
  BY <1>2, <1>4 DEF ReviewEffect
<1> QED
  BY <1>3, <1>5

LEMMA OverrideEffect ==
  ASSUME StoreTypeOK, NEW k \in Key, NEW status \in Judgements, Override(k, status)
  PROVE  StoreTypeOK' /\ ReviewEffect
<1> DEFINE in  == IF overrides[k] = None THEN "none" ELSE overrides[k].in
           out == IF overrides[k] = None THEN "none" ELSE overrides[k].out
<1>1. in \in Scan /\ out \in Scan
  BY DEF StoreTypeOK, Review, Scan
<1>2. status \in Status
  BY ReviewAssumption
<1>3. WriteOverride(k, status, in, out, CurrentStatus(k))
  BY DEF Override
<1>4. records[k] # None /\ PeriodOpen(DateOf(k)) /\ UNCHANGED <<records, finalized>>
  BY DEF Override, Write
<1> HIDE DEF in, out
<1> QED
  BY <1>1, <1>2, <1>3, <1>4, WriteEffect

LEMMA MassOverrideEffect ==
  ASSUME StoreTypeOK, NEW status \in Judgements, MassOverrideIncomplete(status)
  PROVE  StoreTypeOK' /\ ReviewEffect
<1> DEFINE in(k)  == IF overrides[k] = None THEN "none" ELSE overrides[k].in
           out(k) == IF overrides[k] = None THEN "none" ELSE overrides[k].out
<1>1. PICK stamp \in [Key -> 1 .. MaxReviews] :
        /\ \A k \in Incomplete : stamp[k] \in NextStamps(k)
        /\ overrides' = [k \in Key |-> IF k \notin Incomplete THEN overrides[k]
                           ELSE Reviewed(k, status, in(k), out(k), stamp[k])]
  BY DEF MassOverrideIncomplete
<1>2. history' = [k \in Key |-> IF k \in Incomplete
                    THEN [prev |-> CurrentStatus(k), new |-> status] ELSE history[k]]
  BY DEF MassOverrideIncomplete
<1>3. ASSUME NEW k \in Incomplete
      PROVE  /\ k \in Key /\ records[k] # None /\ PeriodOpen(DateOf(k))
             /\ Reviewed(k, status, in(k), out(k), stamp[k]) \in Review
             /\ [prev |-> CurrentStatus(k), new |-> status] \in Entry
  <2>1. k \in Key /\ records[k] # None /\ PeriodOpen(DateOf(k))
    BY DEF Incomplete, Write
  <2>2. in(k) \in Scan /\ out(k) \in Scan
    BY <2>1 DEF StoreTypeOK, Review, Scan
  <2>3. status \in Status
    BY ReviewAssumption
  <2>4. Reviewed(k, status, in(k), out(k), stamp[k]) \in Review
    <3> HIDE DEF in, out
    <3> QED
      BY <1>1, <2>1, <2>2, <2>3, ReviewedType
  <2>5. CurrentStatus(k) \in Status
    BY <2>1, CurrentTypes
  <2> QED
    BY <2>1, <2>3, <2>4, <2>5 DEF Entry
<1>4. overrides' \in [Key -> Review \union {None}]
  <2> HIDE DEF in, out
  <2> QED
    BY <1>1, <1>3 DEF StoreTypeOK
<1>5. history' \in [Key -> Entry \union {None}]
  BY <1>2, <1>3 DEF StoreTypeOK
<1>6. UNCHANGED <<records, finalized>>
  BY DEF MassOverrideIncomplete
<1>7. ASSUME NEW k \in Key, overrides'[k] # overrides[k]
      PROVE  /\ records[k] # None /\ PeriodOpen(DateOf(k))
             /\ overrides'[k] # None /\ overrides'[k].original = OriginalOf(k)
             /\ history'[k] = [prev |-> CurrentStatus(k), new |-> overrides'[k].status]
  <2>1. k \in Incomplete /\ overrides'[k] = Reviewed(k, status, in(k), out(k), stamp[k])
    BY <1>1, <1>7
  <2>2. overrides'[k].original = OriginalOf(k) /\ overrides'[k].status = status
    BY <2>1 DEF Reviewed
  <2>3. overrides'[k] # None
    <3> HIDE DEF in, out
    <3> QED
      BY <1>3, <2>1, NoneAssumption
  <2> QED
    BY <1>2, <1>3, <2>1, <2>2, <2>3
<1>8. StoreTypeOK'
  BY <1>4, <1>5, <1>6 DEF StoreTypeOK
<1>9. ReviewEffect
  BY <1>6, <1>7 DEF ReviewEffect
<1> QED
  BY <1>8, <1>9

LEMMA ClassEntryEffect ==
  ASSUME StoreTypeOK, NEW k \in Key, NEW m \in Manual, ClassEntry(k, m)
  PROVE  StoreTypeOK' /\ ReviewEffect
<1> DEFINE in  == IF overrides[k] = None THEN m.in ELSE OrElse(m.in, overrides[k].in)
           out == IF overrides[k] = None THEN m.out ELSE OrElse(m.out, overrides[k].out)
<1>1. m \in Evidence
  BY ReviewAssumption
<1>2. PICK status \in CanonicalEntry(m) :
        \/ /\ records[k] = None
           /\ Create(k, [m EXCEPT !.status = status])
           /\ UNCHANGED <<overrides, history>>
        \/ /\ records[k] # None
           /\ WriteOverride(k, status, in, out, CurrentStatus(k))
           /\ UNCHANGED records
  BY DEF ClassEntry
<1>3. status \in Status
  BY <1>1, StoreAssumption DEF CanonicalEntry, Evidence, Status
<1>4. PeriodOpen(DateOf(k)) /\ UNCHANGED finalized
  BY DEF ClassEntry
<1>5. CASE /\ records[k] = None
           /\ Create(k, [m EXCEPT !.status = status])
           /\ UNCHANGED <<overrides, history>>
  <2>1. [m EXCEPT !.status = status] \in Evidence
    BY <1>1, <1>3 DEF Evidence
  <2>2. records' = [records EXCEPT ![k] = [m EXCEPT !.status = status]]
    BY <1>5 DEF Create
  <2>3. StoreTypeOK'
    BY <1>4, <1>5, <2>1, <2>2 DEF StoreTypeOK
  <2>4. records'[k] # None
    BY <2>1, <2>2, NoneAssumption DEF StoreTypeOK
  <2>5. \A j \in Key : j # k => records'[j] = records[j]
    BY <2>2 DEF StoreTypeOK
  <2>6. ReviewEffect
    BY <1>4, <1>5, <2>4, <2>5 DEF ReviewEffect
  <2> QED
    BY <2>3, <2>6
<1>6. CASE /\ records[k] # None
           /\ WriteOverride(k, status, in, out, CurrentStatus(k))
           /\ UNCHANGED records
  <2>1. in \in Scan /\ out \in Scan
    BY <1>1, OrElseScan DEF StoreTypeOK, Review, Evidence
  <2> HIDE DEF in, out
  <2> QED
    BY <1>3, <1>4, <1>6, <2>1, WriteEffect
<1> QED
  BY <1>2, <1>5, <1>6

-----------------------------------------------------------------------------
(* Requests.                                                               *)

\* A request that is still open has what an open request has.
LEMMA ActiveRequest ==
  ASSUME ReviewTypeOK, NEW k \in Key, IsActive(k)
  PROVE  requests[k] \in Pending
<1>1. requests[k] \in Pending \union Closed
  BY DEF ReviewTypeOK, IsActive
<1>2. requests[k] \notin Closed
  BY DEF IsActive, Closed, Active, Decided
<1> QED
  BY <1>1, <1>2

\* A snapshot has the types of what a request remembers.
LEMMA SnapshotType ==
  ASSUME StoreTypeOK, NEW k \in Key, records[k] # None
  PROVE  Snapshot(k) \in Seen /\ Snapshot(k).status = CurrentStatus(k)
<1>1. CurrentStatus(k) \in Status /\ CurrentIn(k) \in Scan /\ CurrentOut(k) \in Scan
  BY CurrentTypes
<1>2. overrides[k] # None => overrides[k].stamp \in 1 .. MaxReviews
  BY DEF StoreTypeOK, Review
<1>3. (IF overrides[k] = None THEN 0 ELSE overrides[k].stamp) \in 0 .. MaxReviews
  BY <1>2, StoreAssumption
<1> QED
  BY <1>1, <1>3 DEF Snapshot, Seen

\* Closing a request keeps the types of the requests.
LEMMA CloseType ==
  ASSUME ReviewTypeOK, NEW k \in Key, NEW outcome \in Decided, Close(k, outcome)
  PROVE  ReviewTypeOK'
<1>1. [state |-> outcome] \in Closed
  BY DEF Closed
<1> QED
  BY <1>1 DEF ReviewTypeOK, Close

LEMMA DecideEffect ==
  ASSUME StoreTypeOK, ReviewTypeOK, NEW k \in Key, Decide(k)
  PROVE  StoreTypeOK' /\ ReviewTypeOK' /\ ReviewEffect
<1>1. records[k] # None /\ PeriodOpen(DateOf(k)) /\ UNCHANGED <<records, finalized>>
  BY DEF Decide, Write
<1>2. requests[k] \in Pending
  BY ActiveRequest DEF Decide
<1>3. CASE Snapshot(k) = requests[k].seen
  <2> DEFINE want == requests[k].want
  <2>1. want \in Evidence
    BY <1>2, ReviewAssumption DEF Pending
  <2>2. requests[k].seen.status = CurrentStatus(k)
    BY <1>1, <1>3, SnapshotType
  <2>3. WriteOverride(k, want.status, want.in, want.out, CurrentStatus(k)) /\ Close(k, "APPROVED")
    BY <1>3, <2>2 DEF Decide
  <2>4. want.status \in Status /\ want.in \in Scan /\ want.out \in Scan
    BY <2>1 DEF Evidence
  <2>5. ReviewTypeOK'
    BY <2>3, CloseType DEF Decided
  <2> HIDE DEF want
  <2> QED
    BY <1>1, <2>3, <2>4, <2>5, WriteEffect
<1>4. CASE Snapshot(k) # requests[k].seen
  <2>1. Close(k, "STALE") /\ UNCHANGED <<overrides, history>>
    BY <1>4 DEF Decide
  <2>2. ReviewTypeOK'
    BY <2>1, CloseType DEF Decided
  <2> QED
    BY <1>1, <2>1, <2>2 DEF StoreTypeOK, ReviewEffect
<1> QED
  BY <1>3, <1>4
\* Every step of a reviewer keeps the types and has the effect.
LEMMA ReviewStep ==
  ASSUME StoreTypeOK, ReviewTypeOK, ReviewNext
  PROVE  StoreTypeOK' /\ ReviewTypeOK' /\ ReviewEffect
<1>1. ASSUME NEW k \in Key, NEW status \in Judgements, Override(k, status)
      PROVE  StoreTypeOK' /\ ReviewTypeOK' /\ ReviewEffect
  <2>1. ReviewTypeOK'
    BY <1>1 DEF Override, ReviewTypeOK
  <2> QED
    BY <1>1, <2>1, OverrideEffect
<1>2. ASSUME NEW k \in Key, NEW m \in Manual, ClassEntry(k, m)
      PROVE  StoreTypeOK' /\ ReviewTypeOK' /\ ReviewEffect
  <2>1. ReviewTypeOK'
    BY <1>2 DEF ClassEntry, ReviewTypeOK
  <2> QED
    BY <1>2, <2>1, ClassEntryEffect
<1>3. ASSUME NEW k \in Key, NEW m \in Manual, CreateCorrection(k, m)
      PROVE  StoreTypeOK' /\ ReviewTypeOK' /\ ReviewEffect
  <2>1. Snapshot(k) \in Seen
    BY <1>3, SnapshotType DEF CreateCorrection
  <2>2. [state |-> "DRAFT", want |-> m, seen |-> Snapshot(k)] \in Pending
    BY <2>1 DEF Pending, Active
  <2>3. ReviewTypeOK'
    BY <1>3, <2>2 DEF CreateCorrection, ReviewTypeOK
  <2> QED
    BY <1>3, <2>3 DEF CreateCorrection, StoreTypeOK, ReviewEffect
<1>4. ASSUME NEW k \in Key, Submit(k)
      PROVE  StoreTypeOK' /\ ReviewTypeOK' /\ ReviewEffect
  <2>1. requests[k] \in Pending
    BY <1>4, ActiveRequest DEF Submit
  <2>2. [requests[k] EXCEPT !.state = "SUBMITTED"] \in Pending
    BY <2>1 DEF Pending, Active
  <2>3. ReviewTypeOK'
    BY <1>4, <2>2 DEF Submit, ReviewTypeOK
  <2> QED
    BY <1>4, <2>3 DEF Submit, StoreTypeOK, ReviewEffect
<1>5. ASSUME NEW k \in Key, Reject(k) \/ Cancel(k)
      PROVE  StoreTypeOK' /\ ReviewTypeOK' /\ ReviewEffect
  <2>1. ReviewTypeOK'
    BY <1>5, CloseType DEF Reject, Cancel, Decided
  <2> QED
    BY <1>5, <2>1 DEF Reject, Cancel, StoreTypeOK, ReviewEffect
<1>6. ASSUME NEW k \in Key, Approve(k) \/ SelfConfirm(k)
      PROVE  StoreTypeOK' /\ ReviewTypeOK' /\ ReviewEffect
  BY <1>6, DecideEffect DEF Approve, SelfConfirm
<1>7. ASSUME NEW status \in Judgements, MassOverrideIncomplete(status)
      PROVE  StoreTypeOK' /\ ReviewTypeOK' /\ ReviewEffect
  <2>1. ReviewTypeOK'
    BY <1>7 DEF MassOverrideIncomplete, ReviewTypeOK
  <2> QED
    BY <1>7, <2>1, MassOverrideEffect
<1>8. ASSUME NEW d \in Dates, Finalize(d) \/ Reopen(d)
      PROVE  StoreTypeOK' /\ ReviewTypeOK' /\ ReviewEffect
  BY <1>8 DEF Finalize, Reopen, StoreTypeOK, ReviewTypeOK, ReviewEffect
<1> QED
  BY <1>1, <1>2, <1>3, <1>4, <1>5, <1>6, <1>7, <1>8 DEF ReviewNext

-----------------------------------------------------------------------------
(* What an import does: it writes only on open dates and only evidence that *)
(* no override rests on, and keeps the scans that were there.               *)

ImportEffect ==
  /\ UNCHANGED <<overrides, history, finalized>>
  /\ \A k \in Key : records'[k] # records[k] =>
       /\ PeriodOpen(DateOf(k)) /\ overrides[k] = None
       /\ records'[k] # None /\ Keeps(records[k], records'[k])

\* Staging a preview of sound rows keeps the types and the soundness.
LEMMA StageStep ==
  ASSUME StoreTypeOK, ImportTypeOK, RowsSound,
         NEW b \in Batches, NEW rows \in [Key -> Row \union {None}],
         \A k \in Key : rows[k] # None => Sound(rows[k]),
         Stage(b, rows)
  PROVE  StoreTypeOK' /\ ImportTypeOK' /\ RowsSound' /\ ImportEffect
<1> DEFINE batch == [state |-> "preview", rows |-> rows, selected |-> {}]
<1>1. batch \in Batch
  BY DEF Batch
<1>2. batches' = [batches EXCEPT ![b] = batch] /\ UNCHANGED <<records, overrides, history, finalized, linked>>
  BY DEF Stage
<1>3. ImportTypeOK'
  BY <1>1, <1>2 DEF ImportTypeOK
<1>4. RowsSound'
  <2> SUFFICES ASSUME NEW c \in Batches, batches'[c] # None,
                      NEW k \in Key, batches'[c].rows[k] # None
               PROVE  Sound(batches'[c].rows[k])
    BY DEF RowsSound, Sound, Keeps
  <2>1. CASE c = b
    BY <1>2, <2>1 DEF ImportTypeOK
  <2>2. CASE c # b
    <3>1. batches'[c] = batches[c]
      BY <1>2, <2>2 DEF ImportTypeOK
    <3> QED
      BY <3>1 DEF RowsSound
  <2> QED
    BY <2>1, <2>2
<1> QED
  BY <1>2, <1>3, <1>4 DEF StoreTypeOK, ImportEffect

LEMMA CreatePreviewStep ==
  ASSUME StoreTypeOK, ImportTypeOK, RowsSound,
         NEW b \in Batches, NEW w \in Workbooks, CreatePreview(b, w)
  PROVE  StoreTypeOK' /\ ImportTypeOK' /\ RowsSound' /\ ImportEffect
<1>1. PICK rows \in [Key -> UNION {Staged(k, w[k], w[k].contested) : k \in DOMAIN w} \union {None}] :
        /\ \A k \in Key : IF k \in DOMAIN w THEN rows[k] \in Staged(k, w[k], w[k].contested)
                                            ELSE rows[k] = None
        /\ Stage(b, rows)
  BY DEF CreatePreview
<1>2. ASSUME NEW k \in Key
      PROVE  rows[k] \in Row \union {None} /\ (rows[k] # None => Sound(rows[k]))
  <2>1. CASE k \in DOMAIN w
    <3>1. w[k] \in SourceRow
      BY <2>1, ImportAssumption
    <3>2. w[k].contested \in BOOLEAN
      BY <3>1 DEF SourceRow
    <3>3. rows[k] \in Staged(k, w[k], w[k].contested)
      BY <1>1, <2>1
    <3> QED
      BY <3>1, <3>2, <3>3, StagedRow
  <2>2. CASE k \notin DOMAIN w
    BY <1>1, <2>2
  <2> QED
    BY <2>1, <2>2
<1>3. rows \in [Key -> Row \union {None}]
  BY <1>1, <1>2
<1> QED
  BY <1>1, <1>2, <1>3, StageStep

LEMMA RetryPreviewStep ==
  ASSUME StoreTypeOK, ImportTypeOK, RowsSound,
         NEW b \in Batches, NEW from \in Batches, NEW ks \in SUBSET Key,
         RetryPreview(b, from, ks)
  PROVE  StoreTypeOK' /\ ImportTypeOK' /\ RowsSound' /\ ImportEffect
<1> DEFINE source(k) == batches[from].rows[k].source
<1>1. PICK rows \in [Key -> UNION {Staged(k, source(k), FALSE) : k \in ks} \union {None}] :
        /\ \A k \in Key : IF k \in ks THEN rows[k] \in Staged(k, source(k), FALSE)
                                      ELSE rows[k] = None
        /\ Stage(b, rows)
  BY DEF RetryPreview
<1>2. batches[from] \in Batch /\ ks \subseteq Rows(from)
  BY DEF RetryPreview, Retriable, ImportTypeOK
<1>3. ASSUME NEW k \in Key
      PROVE  rows[k] \in Row \union {None} /\ (rows[k] # None => Sound(rows[k]))
  <2>1. CASE k \in ks
    <3>1. batches[from].rows[k] \in Row
      BY <1>2, <2>1 DEF Rows, Batch
    <3>2. source(k) \in SourceRow
      BY <3>1 DEF Row
    <3>3. rows[k] \in Staged(k, source(k), FALSE)
      BY <1>1, <2>1
    <3> HIDE DEF source
    <3> QED
      BY <3>2, <3>3, StagedRow
  <2>2. CASE k \notin ks
    BY <1>1, <2>2
  <2> QED
    BY <2>1, <2>2
<1>4. rows \in [Key -> Row \union {None}]
  BY <1>1, <1>3
<1> QED
  BY <1>1, <1>3, <1>4, StageStep
\* A commit changes a record only where it is open, as previewed and without
\* an override: a row that an override does not refuse is NEW or UNCHANGED.
LEMMA CommitStep ==
  ASSUME IInv, NEW b \in Batches, NEW ks \in SUBSET Key, Commit(b, ks)
  PROVE  StoreTypeOK' /\ ImportTypeOK' /\ RowsSound' /\ ImportEffect
<1> DEFINE row(k) == batches[b].rows[k]
<1>1. /\ StoreTypeOK /\ ImportTypeOK /\ OriginalIsEvidence /\ RowsSound
      /\ batches[b] # None /\ ks \subseteq Rows(b)
      /\ \A k \in ks : row(k).class \in Committable /\ Fresh(k, row(k))
      /\ UNCHANGED <<overrides, history, finalized, linked>>
  BY DEF IInv, TypeOK, Commit
<1>2. records' = [k \in Key |-> IF k \in ks THEN row(k).proposal ELSE records[k]]
  BY DEF Commit
<1>3. batches' = [batches EXCEPT ![b].state = "committed", ![b].selected = ks]
  BY DEF Commit
<1>4. batches[b] \in Batch
  BY <1>1 DEF ImportTypeOK
<1>5. ASSUME NEW k \in ks
      PROVE  /\ row(k) # None /\ Sound(row(k)) /\ row(k).class \in Committable
             /\ PeriodOpen(DateOf(k)) /\ records[k] = row(k).before
             /\ ~(row(k).class = "DIFFERENCE" /\ overrides[k] # None)
  BY <1>1 DEF Rows, RowsSound, Fresh
<1>6. \A k \in ks : row(k).proposal \in Evidence /\ Keeps(records[k], row(k).proposal)
  BY <1>5 DEF Sound
<1>7. StoreTypeOK'
  BY <1>1, <1>2, <1>6 DEF StoreTypeOK
<1>8. [batches[b] EXCEPT !.state = "committed", !.selected = ks] \in Batch
  BY <1>4 DEF Batch
<1>9. batches' = [batches EXCEPT ![b] = [batches[b] EXCEPT !.state = "committed", !.selected = ks]]
  BY <1>1, <1>3, <1>4 DEF ImportTypeOK, Batch
<1>10. ImportTypeOK'
  BY <1>1, <1>8, <1>9 DEF ImportTypeOK
<1>11. \A c \in Batches : /\ c # b => batches'[c] = batches[c]
                          /\ c = b => batches'[c].rows = batches[c].rows
  BY <1>1, <1>4, <1>9 DEF ImportTypeOK, Batch
<1>12. RowsSound'
  <2> SUFFICES ASSUME NEW c \in Batches, batches'[c] # None,
                      NEW k \in Key, batches'[c].rows[k] # None
               PROVE  Sound(batches'[c].rows[k])
    BY DEF RowsSound, Sound, Keeps
  <2>1. batches[c] # None /\ batches'[c].rows = batches[c].rows
    BY <1>1, <1>11
  <2> QED
    BY <1>1, <2>1 DEF RowsSound
<1>13. ASSUME NEW k \in Key, records'[k] # records[k]
       PROVE  /\ PeriodOpen(DateOf(k)) /\ overrides[k] = None
              /\ records'[k] # None /\ Keeps(records[k], records'[k])
  <2>1. k \in ks /\ records'[k] = row(k).proposal
    BY <1>2, <1>13
  <2>2. overrides[k] = None
    <3> SUFFICES ASSUME overrides[k] # None  PROVE FALSE
      OBVIOUS
    <3>1. records[k] # None
      BY <1>1 DEF OriginalIsEvidence
    <3>2. row(k).class # "UNCHANGED"
      BY <1>5, <1>13, <2>1 DEF Sound
    <3>3. row(k).class # "NEW"
      BY <1>5, <2>1, <3>1 DEF Sound
    <3> QED
      BY <1>5, <2>1, <3>2, <3>3 DEF Committable
  <2>3. row(k).proposal # None
    BY <1>6, <2>1, NoneAssumption
  <2> QED
    BY <1>5, <1>6, <2>1, <2>2, <2>3
<1> QED
  BY <1>1, <1>7, <1>10, <1>12, <1>13 DEF ImportEffect

LEMMA MachineApplyStep ==
  ASSUME IInv, NEW w \in Workbooks, MachineApply(w)
  PROVE  StoreTypeOK' /\ ImportTypeOK' /\ RowsSound' /\ ImportEffect
<1> DEFINE new == {k \in DOMAIN w : Eligible(k, w[k])}
<1>1. StoreTypeOK /\ ImportTypeOK /\ OriginalIsEvidence /\ RowsSound
  BY DEF IInv, TypeOK
<1>2. PICK status \in [new -> Arrivals] :
        records' = [k \in Key |-> IF k \in new
                      THEN [in |-> "scan", out |-> w[k].out, status |-> status[k]]
                      ELSE records[k]]
  BY DEF MachineApply
<1>3. UNCHANGED <<overrides, history, finalized, batches, linked>>
  BY DEF MachineApply
<1>4. ASSUME NEW k \in new
      PROVE  /\ records[k] = None /\ PeriodOpen(DateOf(k)) /\ k \in Key
             /\ [in |-> "scan", out |-> w[k].out, status |-> status[k]] \in Evidence
  <2>1. k \in Key /\ w[k] \in SourceRow
    BY ImportAssumption
  <2>2. status[k] \in Status
    BY <1>2, StoreAssumption DEF Status
  <2> QED
    BY <2>1, <2>2 DEF Eligible, Evidence, Scan, SourceRow
<1>5. StoreTypeOK'
  <2> HIDE DEF new
  <2> QED
    BY <1>1, <1>2, <1>3, <1>4 DEF StoreTypeOK
<1>6. ASSUME NEW k \in Key, records'[k] # records[k]
      PROVE  /\ PeriodOpen(DateOf(k)) /\ overrides[k] = None
             /\ records'[k] # None /\ Keeps(records[k], records'[k])
  <2> HIDE DEF new
  <2>1. k \in new /\ records'[k] = [in |-> "scan", out |-> w[k].out, status |-> status[k]]
    BY <1>2, <1>6
  <2>2. records[k] = None /\ PeriodOpen(DateOf(k)) /\ records'[k] # None
    BY <1>4, <2>1, NoneAssumption
  <2> QED
    BY <1>1, <2>2 DEF OriginalIsEvidence, Keeps
<1>7. ImportTypeOK' /\ RowsSound'
  BY <1>1, <1>3 DEF ImportTypeOK, RowsSound, Sound, Keeps
<1> QED
  BY <1>3, <1>5, <1>6, <1>7 DEF ImportEffect

\* Every step of an import keeps the invariants of its data and has the effect.
LEMMA ImportStep ==
  ASSUME IInv, ImportNext
  PROVE  StoreTypeOK' /\ ImportTypeOK' /\ RowsSound' /\ ImportEffect
<1>1. StoreTypeOK /\ ImportTypeOK /\ RowsSound
  BY DEF IInv, TypeOK
<1>2. ASSUME NEW s \in Students, LinkDevice(s) \/ RetireDevice(s)
      PROVE  StoreTypeOK' /\ ImportTypeOK' /\ RowsSound' /\ ImportEffect
  <2>1. UNCHANGED <<records, overrides, history, finalized, batches>> /\ linked' \subseteq Students
    BY <1>1, <1>2 DEF LinkDevice, RetireDevice, ImportTypeOK
  <2> QED
    BY <1>1, <2>1 DEF StoreTypeOK, ImportTypeOK, RowsSound, Sound, Keeps, ImportEffect
<1> QED
  BY <1>1, <1>2, CreatePreviewStep, RetryPreviewStep, CommitStep, MachineApplyStep DEF ImportNext

\* A step of the ledger writes a revision of an open month and nothing else.
LEMMA LedgerStep ==
  ASSUME LedgerTypeOK, LedgerNext
  PROVE  /\ LedgerTypeOK' /\ UNCHANGED store
         /\ \A d \in finalized \intersect Dates : ledger'[MonthOf[d]] = ledger[MonthOf[d]]
<1>1. PICK m \in Months, state \in {"OPEN", "SUBMITTED"} : AppendRevision(m, state)
  BY DEF LedgerNext, SaveTotals, SubmitLedger, ReopenLedger
<1>2. /\ ledger[m].no < MaxRevisions /\ ledger[m] \in Revision
      /\ ledger' = [ledger EXCEPT ![m] = [no |-> ledger[m].no + 1, state |-> state]]
  BY <1>1 DEF AppendRevision, LedgerTypeOK
<1>3. [no |-> ledger[m].no + 1, state |-> state] \in Revision
  BY <1>2, LedgerAssumption DEF Revision
<1>4. LedgerTypeOK'
  BY <1>2, <1>3 DEF LedgerTypeOK
<1>5. UNCHANGED store
  BY <1>1 DEF AppendRevision, store
<1>6. ASSUME NEW d \in finalized \intersect Dates
      PROVE  ledger'[MonthOf[d]] = ledger[MonthOf[d]]
  <2>1. MonthOf[d] # m /\ MonthOf[d] \in Months
    BY <1>1, StoreAssumption DEF AppendRevision, MonthOpen
  <2> QED
    BY <1>2, <2>1 DEF LedgerTypeOK
<1> QED
  BY <1>4, <1>5, <1>6
-----------------------------------------------------------------------------
(* The inductive invariant.                                                *)

LEMMA InitIInv == Init => IInv
<1> SUFFICES ASSUME Init  PROVE IInv
  OBVIOUS
<1> USE DEF Init, StoreInit, ReviewInit, ImportInit, LedgerInit
<1>1. StoreTypeOK /\ ReviewTypeOK /\ ImportTypeOK
  BY DEF StoreTypeOK, ReviewTypeOK, ImportTypeOK
<1>2. LedgerTypeOK
  BY LedgerAssumption DEF LedgerTypeOK, Revision
<1>3. OriginalIsEvidence /\ RowsSound
  BY DEF OriginalIsEvidence, RowsSound
<1> QED
  BY <1>1, <1>2, <1>3 DEF IInv, TypeOK

LEMMA NextIInv == IInv /\ [Next]_vars => IInv'
<1> SUFFICES ASSUME IInv, [Next]_vars  PROVE IInv'
  OBVIOUS
<1>1. /\ StoreTypeOK /\ ReviewTypeOK /\ ImportTypeOK /\ LedgerTypeOK
      /\ OriginalIsEvidence /\ RowsSound
  BY DEF IInv, TypeOK
<1>2. CASE ReviewNext /\ UNCHANGED <<batches, linked, ledger>>
  <2>1. StoreTypeOK' /\ ReviewTypeOK' /\ ReviewEffect
    BY <1>1, <1>2, ReviewStep
  <2>2. ImportTypeOK' /\ RowsSound'
    BY <1>1, <1>2 DEF ImportTypeOK, RowsSound, Sound, Keeps
  <2>3. LedgerTypeOK'
    BY <1>1, <1>2 DEF LedgerTypeOK
  <2>4. OriginalIsEvidence'
    <3> SUFFICES ASSUME NEW k \in Key, overrides'[k] # None
                 PROVE  records'[k] # None /\ overrides'[k].original = records'[k].status
      BY DEF OriginalIsEvidence
    <3>1. CASE overrides'[k] = overrides[k]
      BY <1>1, <2>1, <3>1 DEF OriginalIsEvidence, ReviewEffect
    <3>2. CASE overrides'[k] # overrides[k]
      <4>1. records[k] # None /\ overrides'[k].original = OriginalOf(k)
        BY <2>1, <3>2 DEF ReviewEffect
      <4>2. records'[k] = records[k]
        BY <2>1, <4>1 DEF ReviewEffect
      <4>3. OriginalOf(k) = records[k].status
        BY <1>1 DEF OriginalOf, OriginalIsEvidence
      <4> QED
        BY <4>1, <4>2, <4>3
    <3> QED
      BY <3>1, <3>2
  <2> QED
    BY <2>1, <2>2, <2>3, <2>4 DEF IInv, TypeOK
<1>3. CASE ImportNext /\ UNCHANGED <<requests, ledger>>
  <2>1. StoreTypeOK' /\ ImportTypeOK' /\ RowsSound' /\ ImportEffect
    BY <1>3, ImportStep
  <2>2. ReviewTypeOK' /\ LedgerTypeOK'
    BY <1>1, <1>3 DEF ReviewTypeOK, LedgerTypeOK
  <2>3. OriginalIsEvidence'
    BY <1>1, <2>1 DEF OriginalIsEvidence, ImportEffect
  <2> QED
    BY <2>1, <2>2, <2>3 DEF IInv, TypeOK
<1>4. CASE LedgerNext /\ UNCHANGED <<requests, batches, linked>>
  <2>1. LedgerTypeOK' /\ UNCHANGED store
    BY <1>1, <1>4, LedgerStep
  <2> QED
    BY <1>1, <1>4, <2>1
    DEF IInv, TypeOK, store, StoreTypeOK, ReviewTypeOK, ImportTypeOK,
        OriginalIsEvidence, RowsSound, Sound, Keeps
<1>5. CASE UNCHANGED vars
  BY <1>1, <1>5
  DEF IInv, TypeOK, vars, store, StoreTypeOK, ReviewTypeOK, ImportTypeOK, LedgerTypeOK,
      OriginalIsEvidence, RowsSound, Sound, Keeps
<1> QED
  BY <1>2, <1>3, <1>4, <1>5 DEF Next

\* The inductive invariant holds in every reachable state.
LEMMA IInvAlways == Spec => []IInv
BY InitIInv, NextIInv, PTL DEF Spec

-----------------------------------------------------------------------------
(* The theorems.                                                           *)

\* Every workflow keeps the types of the store, its requests, previews and
\* ledger, for any students, dates, workbooks and bounds.
THEOREM TypeCorrect == Spec => []TypeOK
<1>1. IInv => TypeOK
  BY DEF IInv
<1> QED
  BY <1>1, IInvAlways, PTL

\* No interleaving of reviews, previews, retries and commits moves the evidence
\* beneath an override.
THEOREM OriginalAlways == Spec => []OriginalIsEvidence
<1>1. IInv => OriginalIsEvidence
  BY DEF IInv
<1> QED
  BY <1>1, IInvAlways, PTL

\* What a finalized date holds changes by no step until it is reopened.
THEOREM FinalizedAlways == Spec => FinalizedFrozen
<1> DEFINE Frozen == /\ \A k \in Key : DateOf(k) \in finalized =>
                          records'[k] = records[k] /\ overrides'[k] = overrides[k]
                     /\ \A d \in finalized : ledger'[MonthOf[d]] = ledger[MonthOf[d]]
<1>1. IInv /\ [Next]_vars => [Frozen]_vars
  <2> SUFFICES ASSUME IInv, Next  PROVE Frozen
    OBVIOUS
  <2>1. StoreTypeOK /\ ReviewTypeOK /\ LedgerTypeOK
    BY DEF IInv, TypeOK
  <2>2. CASE ReviewNext /\ UNCHANGED <<batches, linked, ledger>>
    <3>1. ReviewEffect
      BY <2>1, <2>2, ReviewStep
    <3> QED
      BY <2>2, <3>1 DEF ReviewEffect, PeriodOpen
  <2>3. CASE ImportNext /\ UNCHANGED <<requests, ledger>>
    <3>1. ImportEffect
      BY <2>3, ImportStep
    <3> QED
      BY <2>3, <3>1 DEF ImportEffect, PeriodOpen
  <2>4. CASE LedgerNext /\ UNCHANGED <<requests, batches, linked>>
    <3>1. /\ UNCHANGED store
          /\ \A d \in finalized \intersect Dates : ledger'[MonthOf[d]] = ledger[MonthOf[d]]
      BY <2>1, <2>4, LedgerStep
    <3>2. finalized \intersect Dates = finalized
      BY <2>1 DEF StoreTypeOK
    <3> QED
      BY <3>1, <3>2 DEF store
  <2> QED
    BY <2>2, <2>3, <2>4 DEF Next
<1> QED
  BY <1>1, IInvAlways, PTL DEF Spec, FinalizedFrozen

\* The history of an override is a true account of it, whichever workflow
\* wrote it and whatever happened between a request and its approval.
THEOREM HistoryTrue == Spec => HistoryAccounts
<1> DEFINE Accounts == \A k \in Key : overrides'[k] # overrides[k] =>
             history'[k] = [prev |-> CurrentStatus(k), new |-> overrides'[k].status]
<1>1. IInv /\ [Next]_vars => [Accounts]_vars
  <2> SUFFICES ASSUME IInv, Next  PROVE Accounts
    OBVIOUS
  <2>1. StoreTypeOK /\ ReviewTypeOK /\ LedgerTypeOK
    BY DEF IInv, TypeOK
  <2>2. CASE ReviewNext /\ UNCHANGED <<batches, linked, ledger>>
    BY <2>1, <2>2, ReviewStep DEF ReviewEffect
  <2>3. CASE ImportNext /\ UNCHANGED <<requests, ledger>>
    BY <2>3, ImportStep DEF ImportEffect
  <2>4. CASE LedgerNext /\ UNCHANGED <<requests, batches, linked>>
    BY <2>1, <2>4, LedgerStep DEF store
  <2> QED
    BY <2>2, <2>3, <2>4 DEF Next
<1> QED
  BY <1>1, IInvAlways, PTL DEF Spec, HistoryAccounts

\* No workflow loses a scan of a record, in whatever order previews of the same
\* evidence are staged, retried and committed.
THEOREM ScansAlways == Spec => ScansKept
<1> DEFINE Kept == \A k \in Key : records[k] # None =>
             /\ records'[k] # None
             /\ records[k].in = "scan" => records'[k].in = "scan"
             /\ records[k].out = "scan" => records'[k].out = "scan"
<1>1. IInv /\ [Next]_vars => [Kept]_vars
  <2> SUFFICES ASSUME IInv, Next  PROVE Kept
    OBVIOUS
  <2>1. StoreTypeOK /\ ReviewTypeOK /\ LedgerTypeOK
    BY DEF IInv, TypeOK
  <2>2. CASE ReviewNext /\ UNCHANGED <<batches, linked, ledger>>
    <3>1. ReviewEffect
      BY <2>1, <2>2, ReviewStep
    <3> QED
      BY <3>1 DEF ReviewEffect
  <2>3. CASE ImportNext /\ UNCHANGED <<requests, ledger>>
    <3>1. ImportEffect
      BY <2>3, ImportStep
    <3> QED
      BY <3>1 DEF ImportEffect, Keeps
  <2>4. CASE LedgerNext /\ UNCHANGED <<requests, batches, linked>>
    BY <2>1, <2>4, LedgerStep DEF store
  <2> QED
    BY <2>2, <2>3, <2>4 DEF Next
<1> QED
  BY <1>1, IInvAlways, PTL DEF Spec, ScansKept
=============================================================================
