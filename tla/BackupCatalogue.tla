-------------------------- MODULE BackupCatalogue --------------------------
(***************************************************************************)
(* What the backups promise: a listed backup holds one snapshot for as     *)
(* long as it is listed, a new one holds the data as it is, and a restore  *)
(* brings back the data of a listed backup, while a listed one holds what  *)
(* it replaces.                                                            *)
(***************************************************************************)
EXTENDS Naturals

CONSTANTS
  Names,
  Snapshots,
  None        \* not listed

VARIABLES
  listed,  \* name -> the snapshot it is listed with, or None
  data,    \* the snapshot that holds the data as it is; 0 when none does
  taken    \* the last snapshot taken

vars == <<listed, data, taken>>

Init ==
  /\ listed = [n \in Names |-> None]
  /\ data = 0 /\ taken = 0

Held == {listed[n] : n \in Names} \ {None}

Take ==
  /\ taken + 1 \in Snapshots
  /\ taken' = taken + 1 /\ data' = taken'
  /\ UNCHANGED listed

Publish ==
  /\ data \in Snapshots
  /\ \E n \in Names : listed[n] = None /\ listed' = [listed EXCEPT ![n] = data]
  /\ UNCHANGED <<data, taken>>

Withdraw ==
  /\ \E n \in Names : listed[n] # None /\ listed' = [listed EXCEPT ![n] = None]
  /\ UNCHANGED <<data, taken>>

Change == data' = 0 /\ UNCHANGED <<listed, taken>>

Restore == data \in Held /\ data' \in Held /\ UNCHANGED <<listed, taken>>

Next == Take \/ Publish \/ Withdraw \/ Change \/ Restore

Spec == Init /\ [][Next]_vars
=============================================================================
