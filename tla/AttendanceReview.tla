-------------------------- MODULE AttendanceReview --------------------------
(***************************************************************************)
(* attendance.ts: overrides, class entries, correction requests and the    *)
(* finalization of dates.  Every handler is synchronous, so an action is a *)
(* whole request; what interleaves are the requests of several users, and  *)
(* a correction spans several of them.                                     *)
(*                                                                         *)
(* Users are abstracted: an operation happens when someone has the         *)
(* capability, and Approve by someone other than the requester.            *)
(***************************************************************************)
EXTENDS AttendanceRecords

CONSTANTS
  Judgements,  \* statuses that overrides, entries and corrections propose
  Manual       \* [status, in, out] that class entries and corrections carry

ASSUME ReviewAssumption ==
  /\ Judgements \subseteq Status
  /\ Manual \subseteq Evidence
  /\ \A m \in Manual : m.status \in Paper => m.in = "none" /\ m.out = "none"

VARIABLES requests  \* attendance_correction_requests: the latest of a record

Active  == {"DRAFT", "SUBMITTED"}
Decided == {"APPROVED", "REJECTED", "CANCELLED", "STALE"}

\* What a request remembers of the record: its current values and which
\* writing of the override, if any, they come from.
Seen == [status : Status, in : Scan, out : Scan, stamp : 0 .. MaxReviews]

Snapshot(k) ==
  [status |-> CurrentStatus(k), in |-> CurrentIn(k), out |-> CurrentOut(k),
   stamp |-> IF overrides[k] = None THEN 0 ELSE overrides[k].stamp]

\* A decided request is never read by a handler again, so only its outcome
\* is kept.
Pending == [state : Active, want : Manual, seen : Seen]
Closed  == [state : Decided]

ASSUME RequestAssumption == None \notin Pending /\ None \notin Closed

IsActive(k) == requests[k] # None /\ requests[k].state \in Active
Close(k, outcome) == requests' = [requests EXCEPT ![k] = [state |-> outcome]]

\* Mutant: reviews do not ask for the period.
Write_AnyPeriod(k) == records[k] # None

Write(k) == records[k] # None /\ PeriodOpen(DateOf(k))

-----------------------------------------------------------------------------
(* Overrides and class entries.                                            *)

\* POST /review/attendance/:id/override keeps the times of the override.
Override(k, status) ==
  /\ Write(k)
  /\ WriteOverride(k, status,
                   IF overrides[k] = None THEN "none" ELSE overrides[k].in,
                   IF overrides[k] = None THEN "none" ELSE overrides[k].out,
                   CurrentStatus(k))
  /\ UNCHANGED <<records, finalized, requests>>

\* POST /review/attendance/mass-override-incomplete: every incomplete record
\* with an arrival, except on finalized dates.
Incomplete == {k \in Key : Write(k) /\ CurrentStatus(k) = "incomplete"
                                    /\ records[k].in = "scan"}

MassOverrideIncomplete(status) ==
  /\ status \in {"on-time", "late"}
  /\ Incomplete # {}
  /\ \E stamp \in [Key -> 1 .. MaxReviews] :
       /\ \A k \in Incomplete : stamp[k] \in NextStamps(k)
       /\ overrides' = [k \in Key |->
            IF k \notin Incomplete THEN overrides[k]
            ELSE Reviewed(k, status,
                          IF overrides[k] = None THEN "none" ELSE overrides[k].in,
                          IF overrides[k] = None THEN "none" ELSE overrides[k].out,
                          stamp[k])]
  /\ history' = [k \in Key |-> IF k \in Incomplete
                               THEN [prev |-> CurrentStatus(k), new |-> status]
                               ELSE history[k]]
  /\ UNCHANGED <<records, finalized, requests>>

\* canonicalEntry: a usable arrival is judged by the cutoff, and by the
\* operator where no cutoff is configured.
CanonicalEntry(m) ==
  IF m.status \in {"on-time", "late"} /\ m.in = "scan"
  THEN Arrivals \union {m.status} ELSE {m.status}

\* POST .../entries for one student: the first entry is the record itself, a
\* later one that changes what is seen goes to the override.
ClassEntry(k, m) ==
  /\ PeriodOpen(DateOf(k))
  /\ \E status \in CanonicalEntry(m) :
       \/ /\ records[k] = None
          /\ Create(k, [m EXCEPT !.status = status])
          /\ UNCHANGED <<overrides, history>>
       \/ LET in  == IF overrides[k] = None THEN m.in ELSE OrElse(m.in, overrides[k].in)
              out == IF overrides[k] = None THEN m.out ELSE OrElse(m.out, overrides[k].out)
          IN /\ records[k] # None
             /\ \/ status # CurrentStatus(k)
                \/ OrElse(in, records[k].in) # CurrentIn(k)
                \/ OrElse(out, records[k].out) # CurrentOut(k)
             /\ WriteOverride(k, status, in, out, CurrentStatus(k))
             /\ UNCHANGED records
  /\ UNCHANGED <<finalized, requests>>

-----------------------------------------------------------------------------
(* Correction requests.                                                    *)

CreateCorrection(k, m) ==
  /\ records[k] # None /\ ~IsActive(k)
  /\ requests' = [requests EXCEPT ![k] =
                    [state |-> "DRAFT", want |-> m, seen |-> Snapshot(k)]]
  /\ UNCHANGED <<records, overrides, history, finalized>>

Submit(k) ==
  /\ IsActive(k) /\ requests[k].state = "DRAFT"
  /\ requests' = [requests EXCEPT ![k].state = "SUBMITTED"]
  /\ UNCHANGED <<records, overrides, history, finalized>>

Reject(k) ==
  /\ IsActive(k) /\ requests[k].state = "SUBMITTED"
  /\ Close(k, "REJECTED")
  /\ UNCHANGED <<records, overrides, history, finalized>>

Cancel(k) ==
  /\ IsActive(k) /\ Close(k, "CANCELLED")
  /\ UNCHANGED <<records, overrides, history, finalized>>

\* Mutant: the request is written without comparing the snapshot.
Decide_Unchecked(k) ==
  /\ IsActive(k) /\ Write(k)
  /\ LET want == requests[k].want
     IN WriteOverride(k, want.status, want.in, want.out, requests[k].seen.status)
  /\ Close(k, "APPROVED")
  /\ UNCHANGED <<records, finalized>>

\* The common end of approve and self-confirm: a request whose record moved
\* since becomes STALE, any other is written over it.
Decide(k) ==
  /\ IsActive(k) /\ Write(k)
  /\ LET want == requests[k].want
     IN IF Snapshot(k) = requests[k].seen
        THEN /\ WriteOverride(k, want.status, want.in, want.out, requests[k].seen.status)
             /\ Close(k, "APPROVED")
        ELSE Close(k, "STALE") /\ UNCHANGED <<overrides, history>>
  /\ UNCHANGED <<records, finalized>>

Approve(k) == requests[k] # None /\ requests[k].state = "SUBMITTED" /\ Decide(k)

\* expected_version names the state of the request that the user confirmed.
SelfConfirm(k) == Decide(k)

-----------------------------------------------------------------------------
(* Periods.  The ledger warning of finalize asks for an acknowledgement and *)
(* never refuses; a finalized date may be finalized again.                  *)

Finalize(d) ==
  /\ finalized' = finalized \union {d}
  /\ UNCHANGED <<records, overrides, history, requests>>

Reopen(d) ==
  /\ d \in finalized /\ finalized' = finalized \ {d}
  /\ UNCHANGED <<records, overrides, history, requests>>

ReviewNext ==
  \/ \E k \in Key :
       \/ \E status \in Judgements : Override(k, status)
       \/ \E m \in Manual : ClassEntry(k, m) \/ CreateCorrection(k, m)
       \/ Submit(k) \/ Reject(k) \/ Cancel(k) \/ Approve(k) \/ SelfConfirm(k)
  \/ \E status \in Judgements : MassOverrideIncomplete(status)
  \/ \E d \in Dates : Finalize(d) \/ Reopen(d)

ReviewInit == requests = [k \in Key |-> None]
ReviewTypeOK == requests \in [Key -> Pending \union Closed \union {None}]
=============================================================================
