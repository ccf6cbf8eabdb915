----------------------------- MODULE Attendance -----------------------------
(***************************************************************************)
(* The attendance workflows over one store: reviewers, importers and the   *)
(* monthly ledger act on the same records, and each reads what the others  *)
(* changed since it last looked.                                           *)
(***************************************************************************)
EXTENDS AttendanceReview, AttendanceImport, AbsenceLedger

store == <<records, overrides, history, finalized>>
vars  == <<store, requests, batches, linked, ledger>>

Init == StoreInit /\ ReviewInit /\ ImportInit /\ LedgerInit

Next ==
  \/ ReviewNext /\ UNCHANGED <<batches, linked, ledger>>
  \/ ImportNext /\ UNCHANGED <<requests, ledger>>
  \/ LedgerNext /\ UNCHANGED <<requests, batches, linked>>

Spec == Init /\ [][Next]_vars

TypeOK == StoreTypeOK /\ ReviewTypeOK /\ ImportTypeOK /\ LedgerTypeOK

-----------------------------------------------------------------------------
(* Properties.                                                             *)

\* An override names the status of the evidence beneath it: after a review
\* neither a preview made before it nor a retried conflict may move the record.
OriginalIsEvidence ==
  \A k \in Key : overrides[k] # None =>
    records[k] # None /\ overrides[k].original = records[k].status

\* Finalization freezes a date for every workflow, previews and requests made
\* before it included, and its month's ledger with it, until the date is
\* reopened.
FinalizedFrozen ==
  [][ /\ \A k \in Key : DateOf(k) \in finalized =>
           records'[k] = records[k] /\ overrides'[k] = overrides[k]
      /\ \A d \in finalized : ledger'[MonthOf[d]] = ledger[MonthOf[d]] ]_vars

\* The override history is a true account of every change of an override:
\* an entry starts from the status that was in force, whoever set it, and ends
\* in the one that now is.
HistoryAccounts ==
  [][ \A k \in Key : overrides'[k] # overrides[k] =>
        history'[k] = [prev |-> CurrentStatus(k), new |-> overrides'[k].status] ]_vars

\* No import loses a scan that a record has, whatever its workbook lacks and
\* however many previews were made of the same evidence.
ScansKept ==
  [][ \A k \in Key : records[k] # None =>
        /\ records'[k] # None
        /\ records[k].in = "scan" => records'[k].in = "scan"
        /\ records[k].out = "scan" => records'[k].out = "scan" ]_vars

\* upload-conflicts.ts tells the operator to correct a contested source and
\* preview it again: a row the workbook contradicts is never applied as it is.
ContestedStaysOut ==
  \A b \in Batches : batches[b] # None =>
    \A k \in batches[b].selected : ~batches[b].rows[k].source.contested
=============================================================================
