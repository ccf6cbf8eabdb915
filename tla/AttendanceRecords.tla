------------------------- MODULE AttendanceRecords --------------------------
(***************************************************************************)
(* The attendance store of apps/api/src/domains that the review, import    *)
(* and ledger workflows share: one canonical record per student and date,  *)
(* at most one override on it, the override's history, and the dates that  *)
(* are finalized.                                                          *)
(*                                                                         *)
(* A scan time is present or absent; the clock times, and with them the    *)
(* minutes of lateness, are abstracted to the choice between on-time and   *)
(* late (Arrivals).  sakit, izin and alfa, the statuses taken from the     *)
(* paper book, are treated alike everywhere and modelled by "sakit".       *)
(***************************************************************************)
EXTENDS Naturals

CONSTANTS
  Students, Dates,
  Months, MonthOf,   \* the calendar month of each date
  Arrivals,          \* how a cutoff may judge an arrival
  MaxReviews,        \* bound: distinct reviewed_at stamps of one override
  None

ASSUME StoreAssumption ==
  /\ MonthOf \in [Dates -> Months]
  /\ Arrivals \subseteq {"on-time", "late"}
  /\ MaxReviews \in Nat \ {0}

VARIABLES
  records,    \* attendance: the evidence of each student and date
  overrides,  \* attendance_overrides: the reviewed status and times on it
  history,    \* attendance_override_history: the last entry of each record
  finalized   \* dates whose attendance_periods row is FINALIZED

Key    == Students \X Dates
Scan   == {"none", "scan"}
Paper  == {"sakit"}
Status == {"on-time", "late", "incomplete", "absent"} \union Paper

Evidence == [in : Scan, out : Scan, status : Status]
Review   == [original : Status, status : Status, in : Scan, out : Scan,
             stamp : 1 .. MaxReviews]
Entry    == [prev : Status, new : Status]

ASSUME NoneAssumption == None \notin Evidence /\ None \notin Review /\ None \notin Entry

DateOf(k) == k[2]
PeriodOpen(d) == d \notin finalized

OrElse(s, t) == IF s # "none" THEN s ELSE t

\* Mutant: a status that the contract does not list.
DeriveAttendanceStatus_Unlisted(in, out) ==
  IF in = "scan" /\ out = "scan" THEN {"present"}
  ELSE IF in # out THEN {"incomplete"} ELSE {"absent"}

\* The statuses the scans may be given, one for each judgement of the arrival.
DeriveAttendanceStatus(in, out) ==
  IF in = "scan" /\ out = "scan" THEN Arrivals
  ELSE IF in # out THEN {"incomplete"} ELSE {"absent"}

\* currentStatus: what reports and reviewers see of a record that exists.
CurrentStatus(k) ==
  IF overrides[k] = None THEN records[k].status ELSE overrides[k].status
CurrentIn(k) ==
  IF overrides[k] = None THEN records[k].in ELSE OrElse(overrides[k].in, records[k].in)
CurrentOut(k) ==
  IF overrides[k] = None THEN records[k].out ELSE OrElse(overrides[k].out, records[k].out)

\* reviewed_at of the next write: the clock's reading, which may be the same
\* as at the last write of this override.
NextStamps(k) ==
  IF overrides[k] = None THEN {1}
  ELSE {overrides[k].stamp, overrides[k].stamp + 1} \intersect 1 .. MaxReviews

OriginalOf(k) ==
  IF overrides[k] = None THEN records[k].status ELSE overrides[k].original

\* Create the override of k or rewrite it.
Reviewed(k, status, in, out, stamp) ==
  [original |-> OriginalOf(k), status |-> status, in |-> in, out |-> out,
   stamp |-> stamp]

WriteOverride(k, status, in, out, prev) ==
  /\ \E stamp \in NextStamps(k) :
       overrides' = [overrides EXCEPT ![k] = Reviewed(k, status, in, out, stamp)]
  /\ history' = [history EXCEPT ![k] = [prev |-> prev, new |-> status]]

Create(k, evidence) == records' = [records EXCEPT ![k] = evidence]

StoreTypeOK ==
  /\ records \in [Key -> Evidence \union {None}]
  /\ overrides \in [Key -> Review \union {None}]
  /\ history \in [Key -> Entry \union {None}]
  /\ finalized \subseteq Dates

StoreInit ==
  /\ records = [k \in Key |-> None]
  /\ overrides = [k \in Key |-> None]
  /\ history = [k \in Key |-> None]
  /\ finalized = {}
=============================================================================
