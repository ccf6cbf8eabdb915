-------------------------- MODULE AttendanceImport --------------------------
(***************************************************************************)
(* attendance-import.ts, upload-conflicts.ts and the apply step of         *)
(* machine-attendance-preview.ts: workbooks staged as a preview, committed *)
(* by a later request, and conflicts retried as a preview of their own.    *)
(*                                                                         *)
(* The reader keeps one logical row for a student and date, so a preview   *)
(* is a function on keys.  A row is contested when the workbook had other  *)
(* rows for its key that differ.  Names always match.                      *)
(***************************************************************************)
EXTENDS AttendanceRecords

CONSTANTS
  Batches,   \* bound: previews ever staged
  Workbooks  \* partial functions from keys to [in, out, contested]

SourceRow == [in : Scan, out : Scan, contested : BOOLEAN]

ASSUME ImportAssumption ==
  \A w \in Workbooks : /\ DOMAIN w \subseteq Key
                       /\ \A k \in DOMAIN w : w[k] \in SourceRow

VARIABLES
  batches,  \* attendance_import_batches with their rows
  linked    \* students with an active attendance device identity

Committable == {"NEW", "UNCHANGED", "DIFFERENCE"}
Conflict    == {"UNMATCHED", "DIVERGENT", "OVERRIDDEN"}

\* before and proposal are what the preview showed of a committable row.
Row == [source : SourceRow, class : Committable \union Conflict,
        before : Evidence \union {None}, proposal : Evidence \union {None}]

Batch == [state : {"preview", "committed"},
          rows : [Key -> Row \union {None}],
          selected : SUBSET Key]   \* selected_for_commit

ASSUME BatchAssumption == None \notin Row /\ None \notin Batch

Rows(b) == {k \in Key : batches[b].rows[k] # None}

-----------------------------------------------------------------------------
(* createPreview.                                                          *)

\* Mutant: the workbook's row replaces the record's scans.
Merged_Replacing(k, source) == [in |-> source.in, out |-> source.out]

\* proposedPayload: a scan the workbook does not have stays as it was.
Merged(k, source) ==
  IF records[k] = None THEN [in |-> source.in, out |-> source.out]
  ELSE [in |-> OrElse(source.in, records[k].in), out |-> OrElse(source.out, records[k].out)]

\* The proposals for a row, one for each judgement of its arrival.
ProposedPayload(k, source) ==
  LET m == Merged(k, source)
  IN {[in |-> m.in, out |-> m.out, status |-> s] : s \in DeriveAttendanceStatus(m.in, m.out)}

Blocked(source, class) ==
  [source |-> source, class |-> class, before |-> None, proposal |-> None]

\* The stagings of one row; "divergent" is what the caller says of its key.
Staged(k, source, divergent) ==
  IF k[1] \notin linked THEN {Blocked(source, "UNMATCHED")}
  ELSE IF divergent THEN {Blocked(source, "DIVERGENT")}
  ELSE {IF overrides[k] # None /\ records[k] # p THEN Blocked(source, "OVERRIDDEN")
        ELSE [source |-> source, before |-> records[k], proposal |-> p,
              class |-> IF records[k] = None THEN "NEW"
                        ELSE IF records[k] = p THEN "UNCHANGED" ELSE "DIFFERENCE"]
        : p \in ProposedPayload(k, source)}

Stage(b, rows) ==
  /\ batches[b] = None
  /\ batches' = [batches EXCEPT ![b] =
                   [state |-> "preview", rows |-> rows, selected |-> {}]]
  /\ UNCHANGED <<records, overrides, history, finalized, linked>>

\* POST /attendance-import/preview
CreatePreview(b, w) ==
  \E rows \in [Key -> UNION {Staged(k, w[k], w[k].contested) : k \in DOMAIN w} \union {None}] :
    /\ \A k \in Key : IF k \in DOMAIN w
                      THEN rows[k] \in Staged(k, w[k], w[k].contested)
                      ELSE rows[k] = None
    /\ Stage(b, rows)

\* POST /upload-conflicts/retry-preview: the conflict rows of one batch again,
\* as a workbook without duplicates.  Rows in conflict with an override carry
\* no source to retry.
Retriable(b) == {k \in Rows(b) : batches[b].rows[k].class \in {"UNMATCHED", "DIVERGENT"}}

RetryPreview(b, from, ks) ==
  /\ batches[from] # None
  /\ ks # {} /\ ks \subseteq Retriable(from)
  /\ LET source(k) == batches[from].rows[k].source
     IN \E rows \in [Key -> UNION {Staged(k, source(k), FALSE) : k \in ks} \union {None}] :
          /\ \A k \in Key : IF k \in ks THEN rows[k] \in Staged(k, source(k), FALSE)
                            ELSE rows[k] = None
          /\ Stage(b, rows)

-----------------------------------------------------------------------------
(* commitPreview: one transaction, so one refused row refuses the commit.  *)
(* retryCommit calls it and adds audit rows in a second transaction.       *)

\* Mutant: only an override found by the preview blocks a changed row.
Fresh_Overriding(k, row) ==
  /\ k[1] \in linked
  /\ PeriodOpen(DateOf(k))
  /\ records[k] = row.before

\* Mutant: the period is not read again at the commit.
Fresh_AnyPeriod(k, row) ==
  /\ k[1] \in linked
  /\ records[k] = row.before
  /\ ~(row.class = "DIFFERENCE" /\ overrides[k] # None)

Fresh(k, row) ==
  /\ k[1] \in linked
  /\ PeriodOpen(DateOf(k))
  /\ records[k] = row.before
  /\ ~(row.class = "DIFFERENCE" /\ overrides[k] # None)

Commit(b, ks) ==
  /\ batches[b] # None /\ batches[b].state = "preview"
  /\ ks # {} /\ ks \subseteq Rows(b)
  /\ \A k \in ks : /\ batches[b].rows[k].class \in Committable
                   /\ Fresh(k, batches[b].rows[k])
  /\ records' = [k \in Key |-> IF k \in ks THEN batches[b].rows[k].proposal
                                           ELSE records[k]]
  /\ batches' = [batches EXCEPT ![b].state = "committed", ![b].selected = ks]
  /\ UNCHANGED <<overrides, history, finalized, linked>>

\* POST /attendance/machine-import/apply re-projects the workbook inside its
\* transaction and refuses unless that is what was previewed, so it depends on
\* the state at the commit only.  It creates records and never changes one;
\* rows without an arrival are not taken, and one without a departure is not
\* incomplete here.
Eligible(k, source) ==
  /\ k[1] \in linked /\ source.in = "scan"
  /\ records[k] = None /\ PeriodOpen(DateOf(k))

MachineApply(w) ==
  LET new == {k \in DOMAIN w : Eligible(k, w[k])}
  IN /\ new # {}
     /\ \E status \in [new -> Arrivals] :
          records' = [k \in Key |-> IF k \in new
                        THEN [in |-> "scan", out |-> w[k].out, status |-> status[k]]
                        ELSE records[k]]
     /\ UNCHANGED <<overrides, history, finalized, batches, linked>>

-----------------------------------------------------------------------------
(* Device identities: linked from a conflict or by hand, retired by hand.  *)

LinkDevice(s) ==
  /\ s \notin linked /\ linked' = linked \union {s}
  /\ UNCHANGED <<records, overrides, history, finalized, batches>>

RetireDevice(s) ==
  /\ s \in linked /\ linked' = linked \ {s}
  /\ UNCHANGED <<records, overrides, history, finalized, batches>>

ImportNext ==
  \/ \E b \in Batches :
       \/ \E w \in Workbooks : CreatePreview(b, w)
       \/ \E from \in Batches, ks \in SUBSET Key : RetryPreview(b, from, ks)
       \/ \E ks \in SUBSET Key : Commit(b, ks)
  \/ \E w \in Workbooks : MachineApply(w)
  \/ \E s \in Students : LinkDevice(s) \/ RetireDevice(s)

ImportInit == batches = [b \in Batches |-> None] /\ linked \in SUBSET Students
ImportTypeOK ==
  /\ batches \in [Batches -> Batch \union {None}]
  /\ linked \subseteq Students
=============================================================================
