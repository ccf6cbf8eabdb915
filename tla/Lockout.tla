------------------------------ MODULE Lockout -------------------------------
(***************************************************************************)
(* What the account lockout promises, without the logins that wait for a   *)
(* password to be verified: each guess is judged at one instant, against   *)
(* an account that is not locked at that instant, and MaxFailed misses in  *)
(* a row lock the account for LockPeriod, each later miss again.           *)
(***************************************************************************)
EXTENDS AccessClock

CONSTANTS Sessions, MaxFailed, LockPeriod

VARIABLES
  known,    \* the accounts that exist
  misses,   \* consecutive misses of each account
  until,    \* when its lock ends; 0 when it has none
  opened    \* the account of each session ever opened, as a set of pairs

lockoutVars == <<now, known, misses, until, opened>>

Init ==
  /\ now = 0
  /\ known \subseteq Accounts
  /\ misses = [a \in Accounts |-> 0]
  /\ until = [a \in Accounts |-> 0]
  /\ opened = {}

Locked(a) == until[a] > now

Miss(a) ==
  /\ a \in known /\ ~Locked(a)
  /\ misses' = [misses EXCEPT ![a] = @ + 1]
  /\ until' = [until EXCEPT ![a] = IF misses[a] + 1 >= MaxFailed THEN now + LockPeriod ELSE 0]
  /\ UNCHANGED <<now, known, opened>>

Open(a) ==
  /\ a \in known /\ ~Locked(a)
  /\ misses' = [misses EXCEPT ![a] = 0]
  /\ until' = [until EXCEPT ![a] = 0]
  /\ \E s \in Sessions : opened' = opened \union {<<s, a>>} /\ \A o \in opened : o[1] # s
  /\ UNCHANGED <<now, known>>

Forgive(a) ==
  /\ a \in known
  /\ misses' = [misses EXCEPT ![a] = 0]
  /\ until' = [until EXCEPT ![a] = 0]
  /\ UNCHANGED <<now, known, opened>>

\* The first account is the only one ever made.
Create(a) ==
  /\ known = {}
  /\ known' = {a}
  /\ UNCHANGED <<now, misses, until, opened>>

Next ==
  \/ Tick /\ UNCHANGED <<known, misses, until, opened>>
  \/ \E a \in Accounts : Miss(a) \/ Open(a) \/ Forgive(a) \/ Create(a)

Spec == Init /\ [][Next]_lockoutVars
=============================================================================
