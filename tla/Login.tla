------------------------------- MODULE Login --------------------------------
(***************************************************************************)
(* Accounts, sessions and first-run setup of apps/api/src/auth/service.ts, *)
(* with the administrator recovery CLI (cli/admin-recovery.ts), a process  *)
(* of its own on the same database.                                        *)
(*                                                                         *)
(* A login reads the account, waits while the password is verified against *)
(* the hash it read, and is answered by one transaction; other logins,     *)
(* requests and the CLI run while it waits.  Setup waits in the same way   *)
(* for the new password's hash.  Every other handler is synchronous, and   *)
(* the CLI's one transaction between two of its statements has the effect  *)
(* it would have before or after it.                                       *)
(*                                                                         *)
(* A password stands for its hash.  No operation of the code deactivates   *)
(* an account or makes one that is not an administrator, so the checks of  *)
(* is_active and of the role always succeed here and are left out.         *)
(***************************************************************************)
EXTENDS AccessClock

CONSTANTS
  Passwords,
  Attempts,              \* bound: logins that wait at the same time
  Setups,                \* bound: setup requests that wait at the same time
  Sessions,              \* bound: sessions ever opened
  MaxFailed, LockPeriod, \* maxFailedLoginAttempts, accountLockMinutes
  Idle, Absolute         \* sessionIdleTimeoutHours, sessionAbsoluteTimeoutHours

ASSUME LoginAssumption == {MaxFailed, LockPeriod, Idle, Absolute} \subseteq Nat \ {0}

VARIABLES
  users,      \* the row of each account, or None
  completed,  \* first_admin_setup_state.completed
  sessions,   \* the row of each session, or None
  logins,     \* the logins that wait in verifyPassword
  setups      \* the setup requests that wait in Bun.password.hash

User     == [password : Passwords, failed : Nat, lockedUntil : Nat]
Session  == [account : Accounts, password : Passwords, late : BOOLEAN,
             opened : Nat, used : Nat, expires : Nat, revoked : BOOLEAN]
Waiting  == [account : Accounts, guess : Passwords, hash : Passwords, late : BOOLEAN]
Setup    == [account : Accounts, password : Passwords]

ASSUME NoRowAssumption ==
  None \notin User /\ None \notin Session /\ None \notin Waiting /\ None \notin Setup

loginVars == <<users, completed, sessions, logins, setups>>

Earlier(s, t) == IF s < t THEN s ELSE t
Unlocked(u) == u.lockedUntil <= now

\* Mutant: the counter of a new row is left NULL.
Fresh_Uncounted(p) == [password |-> p, failed |-> None, lockedUntil |-> 0]

\* An account with no misses and no lock.
Fresh(p) == [password |-> p, failed |-> 0, lockedUntil |-> 0]

-----------------------------------------------------------------------------
\* Logins.

\* authenticate up to verifyPassword.  late (history) becomes TRUE when the
\* CLI replaces the account's password while the login waits.
BeginLogin(r, a, g) ==
  /\ logins[r] = None
  /\ users[a] # None /\ Unlocked(users[a])
  /\ logins' = [logins EXCEPT ![r] = [account |-> a, guess |-> g,
                                      hash |-> users[a].password, late |-> FALSE]]
  /\ UNCHANGED <<users, completed, sessions, setups>>

\* authenticate for an unknown or a locked account: the answer changes nothing.
RefuseLogin(a) ==
  /\ users[a] # None => ~Unlocked(users[a])
  /\ UNCHANGED loginVars

\* Mutant: the transactions do not look at the lock again.
StillUnlocked_Unchecked(a) == TRUE

\* The condition of both UPDATEs on the account.
StillUnlocked(a) == Unlocked(users[a])

\* Mutant: locks one miss too late.
Missed_Late(u) ==
  [u EXCEPT !.failed = @ + 1,
            !.lockedUntil = IF u.failed >= MaxFailed THEN now + LockPeriod ELSE 0]

Missed(u) ==
  [u EXCEPT !.failed = @ + 1,
            !.lockedUntil = IF u.failed + 1 >= MaxFailed THEN now + LockPeriod ELSE 0]

\* authenticate after verifyPassword said no.
FailLogin(r) ==
  /\ logins[r] # None
  /\ logins[r].guess # logins[r].hash
  /\ LET a == logins[r].account IN
       users' = IF StillUnlocked(a) THEN [users EXCEPT ![a] = Missed(@)] ELSE users
  /\ logins' = [logins EXCEPT ![r] = None]
  /\ UNCHANGED <<completed, sessions, setups>>

NewSession(w) ==
  [account |-> w.account, password |-> w.guess, late |-> w.late, opened |-> now,
   used |-> now, expires |-> now + Earlier(Idle, Absolute), revoked |-> FALSE]

\* authenticate after verifyPassword said yes: the session is opened unless
\* the account was locked meanwhile.  The password is not looked at again.
PassLogin(r) ==
  /\ logins[r] # None
  /\ logins[r].guess = logins[r].hash
  /\ LET w == logins[r] IN
       IF StillUnlocked(w.account)
         THEN /\ users' = [users EXCEPT ![w.account].failed = 0,
                                        ![w.account].lockedUntil = 0]
              /\ \E s \in Sessions :
                   /\ sessions[s] = None
                   /\ sessions' = [sessions EXCEPT ![s] = NewSession(w)]
         ELSE UNCHANGED <<users, sessions>>
  /\ logins' = [logins EXCEPT ![r] = None]
  /\ UNCHANGED <<completed, setups>>

-----------------------------------------------------------------------------
\* Sessions.

\* Mutant: activity renews a session up to its absolute limit.
Renewed_ToTheLimit(s) == [s EXCEPT !.used = now, !.expires = s.opened + Absolute]

\* Activity moves the idle limit, never beyond the absolute one.
Renewed(s) ==
  [s EXCEPT !.used = now, !.expires = Earlier(now + Idle, s.opened + Absolute)]

\* validateSession for a request that counts as activity.
Validate(s) ==
  /\ sessions[s] # None /\ ~sessions[s].revoked
  /\ sessions' = [sessions EXCEPT ![s] =
       IF now >= @.expires \/ now >= @.opened + Absolute
         THEN [@ EXCEPT !.revoked = TRUE] ELSE Renewed(@)]
  /\ UNCHANGED <<users, completed, logins, setups>>

Logout(s) ==
  /\ sessions[s] # None
  /\ sessions' = [sessions EXCEPT ![s].revoked = TRUE]
  /\ UNCHANGED <<users, completed, logins, setups>>

\* Mutant: leaves the sessions of the old password open.
WithoutSessions_Kept(a) == sessions

WithoutSessions(a) ==
  [s \in Sessions |->
     IF sessions[s] # None /\ sessions[s].account = a
       THEN [sessions[s] EXCEPT !.revoked = TRUE] ELSE sessions[s]]

\* admin-recovery.ts: a new password, no lock and no session, in one transaction.
Recover(a, p) ==
  /\ users[a] # None
  /\ users' = [users EXCEPT ![a] = Fresh(p)]
  /\ sessions' = WithoutSessions(a)
  /\ logins' = [r \in Attempts |->
       IF logins[r] # None /\ logins[r].account = a
         THEN [logins[r] EXCEPT !.late = TRUE] ELSE logins[r]]
  /\ UNCHANGED <<completed, setups>>

-----------------------------------------------------------------------------
\* First-run setup.

\* provisionFirstAdmin up to the hash: nothing is looked at yet.
BeginSetup(q, a, p) ==
  /\ setups[q] = None
  /\ setups' = [setups EXCEPT ![q] = [account |-> a, password |-> p]]
  /\ UNCHANGED <<users, completed, sessions, logins>>

\* Mutant: only the account's own name must be free.
SetupOpen_NameFree(a) == users[a] = None

\* The transaction's conditions: setup never completed and no account exists.
SetupOpen(a) == ~completed /\ \A o \in Accounts : users[o] = None

FinishSetup(q) ==
  /\ setups[q] # None
  /\ LET w == setups[q] IN
       IF SetupOpen(w.account)
         THEN users' = [users EXCEPT ![w.account] = Fresh(w.password)] /\ completed' = TRUE
         ELSE UNCHANGED <<users, completed>>
  /\ setups' = [setups EXCEPT ![q] = None]
  /\ UNCHANGED <<sessions, logins>>

-----------------------------------------------------------------------------
\* The database is new, or was left by earlier runs of the program with an
\* account, whose lock is over and whose sessions have expired.
Init ==
  /\ now = 0
  /\ users \in {[o \in Accounts |-> None]} \union
               {[o \in Accounts |-> IF o = a THEN Fresh(p) ELSE None] :
                  a \in Accounts, p \in Passwords}
  /\ completed = \E a \in Accounts : users[a] # None
  /\ sessions = [s \in Sessions |-> None]
  /\ logins = [r \in Attempts |-> None]
  /\ setups = [q \in Setups |-> None]

vars == <<now, loginVars>>

Serve ==
  \/ \E r \in Attempts :
       \/ \E a \in Accounts, g \in Passwords : BeginLogin(r, a, g)
       \/ FailLogin(r) \/ PassLogin(r)
  \/ \E a \in Accounts : RefuseLogin(a)
  \/ \E s \in Sessions : Validate(s) \/ Logout(s)
  \/ \E a \in Accounts, p \in Passwords :
       Recover(a, p) \/ \E q \in Setups : BeginSetup(q, a, p)
  \/ \E q \in Setups : FinishSetup(q)

Next == (Serve /\ UNCHANGED now) \/ (Tick /\ UNCHANGED loginVars)

Spec == Init /\ [][Next]_vars

TypeOK ==
  /\ now \in Time
  /\ users \in [Accounts -> User \union {None}]
  /\ completed \in BOOLEAN
  /\ sessions \in [Sessions -> Session \union {None}]
  /\ logins \in [Attempts -> Waiting \union {None}]
  /\ setups \in [Setups -> Setup \union {None}]

-----------------------------------------------------------------------------
(* Properties.                                                             *)

\* What the lockout sees of the rows.
Known    == {a \in Accounts : users[a] # None}
Misses   == [a \in Accounts |-> IF users[a] = None THEN 0 ELSE users[a].failed]
Until    == [a \in Accounts |-> IF users[a] = None THEN 0 ELSE users[a].lockedUntil]
Opened   == {<<s, sessions[s].account>> : s \in {o \in Sessions : sessions[o] # None}}

Judged == INSTANCE Lockout WITH
  known <- Known, misses <- Misses, until <- Until, opened <- Opened

\* A login waits while its password is verified, and others with it: still each
\* is judged as if all of it happened at its answer, so that MaxFailed misses
\* lock the account for the logins already waiting too; and two setups that
\* wait together make one account.
ImplementsLockout == Judged!Spec

\* However active it is, a session is never accepted Absolute after it was
\* opened or Idle after it was last used, and none comes back once revoked.
SessionsEnd ==
  [][ \A s \in Sessions : sessions[s] # None =>
        LET old == sessions[s]
            new == sessions'[s]
        IN /\ old.revoked => new = old
           /\ new.used # old.used => /\ now < old.opened + Absolute
                                     /\ now < old.used + Idle ]_vars

\* Once the CLI has replaced a password, the old one has no open session but
\* those of the logins that were waiting at that moment.
OldPasswordOnlyWaiting ==
  \A s \in Sessions : sessions[s] # None /\ ~sessions[s].revoked =>
    sessions[s].late \/ sessions[s].password = users[sessions[s].account].password
=============================================================================
