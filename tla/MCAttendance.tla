---------------------------- MODULE MCAttendance ----------------------------
(***************************************************************************)
(* Instances of Attendance for TLC.  One student: records of different     *)
(* students meet only in a batch and in MassOverrideIncomplete, where two  *)
(* dates do as well.                                                       *)
(***************************************************************************)
EXTENDS Attendance, TLC

CONSTANTS s1, d1, d2, m1, b1, b2

k1 == <<s1, d1>>
k2 == <<s1, d2>>

OneDate  == {d1}
TwoDates == {d1, d2}
Calendar == [d \in Dates |-> m1]

Source(in, out)  == [in |-> in, out |-> out, contested |-> FALSE]
Contested        == [in |-> "scan", out |-> "none", contested |-> TRUE]
ByHand(status, in) == [status |-> status, in |-> in, out |-> "none"]

\* Reviews in depth: one date, one batch, every judgement.
ReviewWorkbooks  == {k1 :> Source("scan", "none"), k1 :> Source("none", "scan")}
ReviewJudgements == {"late", "incomplete", "sakit"}
ReviewManual     == {ByHand("sakit", "none"), ByHand("late", "scan")}

\* Imports in depth: two dates, two batches.
ImportWorkbooks  == {k1 :> Source("scan", "none") @@ k2 :> Source("scan", "none"),
                     k1 :> Source("none", "scan"), k2 :> Contested}

ContestedWorkbooks == {k1 :> Contested}
=============================================================================
