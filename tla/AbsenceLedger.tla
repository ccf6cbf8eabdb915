--------------------------- MODULE AbsenceLedger ----------------------------
(***************************************************************************)
(* manual-absence.ts: the monthly class ledger, an append-only sequence of *)
(* revisions of which the latest is OPEN or SUBMITTED.  It has no lock of  *)
(* its own: a month is locked while one of its dates is finalized.         *)
(***************************************************************************)
EXTENDS AttendanceRecords

CONSTANT MaxRevisions  \* bound: revisions of one class-month

ASSUME LedgerAssumption == MaxRevisions \in Nat

VARIABLES ledger  \* the latest revision of each class-month

\* The totals are left out: a save brings new ones, the others carry them on.
Revision == [no : 0 .. MaxRevisions, state : {"MISSING", "OPEN", "SUBMITTED"}]

\* ensureMonthOpen
MonthOpen(m) == \A d \in finalized : MonthOf[d] # m

AppendRevision(m, state) ==
  /\ MonthOpen(m)
  /\ ledger[m].no < MaxRevisions
  /\ ledger' = [ledger EXCEPT ![m] = [no |-> @.no + 1, state |-> state]]
  /\ UNCHANGED <<records, overrides, history, finalized>>

SaveTotals(m)   == ledger[m].state # "SUBMITTED" /\ AppendRevision(m, "OPEN")
SubmitLedger(m) == ledger[m].state = "OPEN" /\ AppendRevision(m, "SUBMITTED")
ReopenLedger(m) == ledger[m].state = "SUBMITTED" /\ AppendRevision(m, "OPEN")

LedgerNext == \E m \in Months : SaveTotals(m) \/ SubmitLedger(m) \/ ReopenLedger(m)

LedgerInit == ledger = [m \in Months |-> [no |-> 0, state |-> "MISSING"]]
LedgerTypeOK == ledger \in [Months -> Revision]
=============================================================================
