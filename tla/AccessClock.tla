---------------------------- MODULE AccessClock ----------------------------
(***************************************************************************)
(* The clock of the access modules.  The limiter reads the monotonic clock *)
(* and the accounts and sessions the wall clock; they advance together     *)
(* here, in units of one tick, so a step of the wall clock alone (NTP) is  *)
(* not modelled.                                                           *)
(***************************************************************************)
EXTENDS Naturals

CONSTANTS
  Accounts,  \* the usernames that are typed
  MaxTime,   \* bound: the last instant
  None

ASSUME TimeAssumption == MaxTime \in Nat

VARIABLE now

Time == 0 .. MaxTime

Tick == now < MaxTime /\ now' = now + 1
=============================================================================
