----------------------------- MODULE LoginProofs -----------------------------
(***************************************************************************)
(* Proofs about Login, for any accounts, passwords, waiting logins and     *)
(* setups, thresholds and periods.                                         *)
(*                                                                         *)
(* The session properties need to know of every row that its account       *)
(* exists and that its idle limit lies within both of its limits, and of   *)
(* every waiting login that the hash it holds is still the account's       *)
(* unless the CLI replaced it meanwhile: Inv.                              *)
(***************************************************************************)
EXTENDS Login, TLAPS

\* A session's account exists and its expiry respects both limits.
SessionsBounded ==
  \A s \in Sessions : sessions[s] # None =>
    /\ users[sessions[s].account] # None
    /\ sessions[s].expires <= sessions[s].used + Idle
    /\ sessions[s].expires <= sessions[s].opened + Absolute

\* A login that waits holds its account's hash, or the CLI came in between.
WaitingCurrent ==
  \A r \in Attempts : logins[r] # None =>
    /\ users[logins[r].account] # None
    /\ logins[r].late \/ logins[r].hash = users[logins[r].account].password

Inv == TypeOK /\ SessionsBounded /\ WaitingCurrent /\ OldPasswordOnlyWaiting

-----------------------------------------------------------------------------
\* The rows the operators make have the types of their tables.
LEMMA RowTypes ==
  ASSUME TypeOK
  PROVE  /\ \A p \in Passwords : Fresh(p) \in User
         /\ \A u \in User : Missed(u) \in User /\ Missed(u).password = u.password
         /\ \A w \in Waiting : NewSession(w) \in Session
         /\ \A s \in Session : Renewed(s) \in Session
<1>1. now \in Nat /\ Idle \in Nat /\ Absolute \in Nat /\ LockPeriod \in Nat /\ MaxFailed \in Nat
  BY LoginAssumption, TimeAssumption DEF TypeOK, Time
<1>2. \A p \in Passwords : Fresh(p) \in User
  BY DEF Fresh, User
<1>3. ASSUME NEW u \in User
      PROVE  Missed(u) \in User /\ Missed(u).password = u.password
  <2>1. u.failed + 1 \in Nat /\ now + LockPeriod \in Nat
    BY <1>1 DEF User
  <2> QED
    BY <2>1 DEF Missed, User
<1>4. \A m, n \in Nat : Earlier(m, n) \in Nat
  BY DEF Earlier
<1>5. ASSUME NEW w \in Waiting PROVE NewSession(w) \in Session
  <2>1. now + Earlier(Idle, Absolute) \in Nat
    BY <1>1, <1>4
  <2> QED
    BY <1>1, <2>1 DEF NewSession, Session, Waiting
<1>6. ASSUME NEW s \in Session PROVE Renewed(s) \in Session
  <2>1. now + Idle \in Nat /\ s.opened + Absolute \in Nat
    BY <1>1 DEF Session
  <2> QED
    BY <1>1, <1>4, <2>1 DEF Renewed, Session
<1> QED
  BY <1>2, <1>3, <1>5, <1>6

\* The initial states satisfy the invariant.
LEMMA InitInv == Init => Inv
<1> SUFFICES ASSUME Init PROVE Inv
  OBVIOUS
<1>1. now \in Time
  BY TimeAssumption DEF Init, Time
<1>2. \A p \in Passwords : Fresh(p) \in User
  BY DEF Fresh, User
<1>3. users \in [Accounts -> User \union {None}]
  BY <1>2 DEF Init
<1>4. TypeOK
  BY <1>1, <1>3 DEF Init, TypeOK
<1> QED
  BY <1>4 DEF Init, Inv, SessionsBounded, WaitingCurrent, OldPasswordOnlyWaiting

\* A login read the account at the moment it began.
LEMMA BeginInv ==
  ASSUME Inv, NEW r \in Attempts, NEW a \in Accounts, NEW g \in Passwords,
         BeginLogin(r, a, g), now' = now
  PROVE  Inv'
<1> DEFINE w == [account |-> a, guess |-> g, hash |-> users[a].password, late |-> FALSE]
<1>1. users[a] \in User
  BY DEF Inv, TypeOK, BeginLogin
<1>2. w \in Waiting
  BY <1>1 DEF Waiting, User
<1>3. logins' = [logins EXCEPT ![r] = w] /\ UNCHANGED <<users, completed, sessions, setups>>
  BY DEF BeginLogin
<1>4. TypeOK'
  BY <1>2, <1>3 DEF Inv, TypeOK
<1>5. WaitingCurrent'
  BY <1>1, <1>2, <1>3, NoRowAssumption DEF Inv, TypeOK, WaitingCurrent, BeginLogin, User
<1> HIDE DEF w
<1>6. SessionsBounded' /\ OldPasswordOnlyWaiting'
  BY <1>3 DEF Inv, SessionsBounded, OldPasswordOnlyWaiting
<1> QED
  BY <1>4, <1>5, <1>6 DEF Inv

\* A miss changes neither the password nor a session.
LEMMA FailInv ==
  ASSUME Inv, NEW r \in Attempts, FailLogin(r), now' = now
  PROVE  Inv'
<1> DEFINE a == logins[r].account
<1>1. logins[r] \in Waiting /\ a \in Accounts /\ users[a] \in User
  BY DEF Inv, TypeOK, FailLogin, Waiting, WaitingCurrent
<1>2. Missed(users[a]) \in User /\ Missed(users[a]).password = users[a].password
  BY <1>1, RowTypes DEF Inv
<1>3. /\ users' \in [Accounts -> User \union {None}]
      /\ \A o \in Accounts : users[o] # None =>
           users'[o] # None /\ users'[o].password = users[o].password
  BY <1>1, <1>2, NoRowAssumption DEF FailLogin, Inv, TypeOK
<1>4. logins' \in [Attempts -> Waiting \union {None}]
  BY DEF FailLogin, Inv, TypeOK
<1>5. TypeOK'
  BY <1>3, <1>4 DEF FailLogin, Inv, TypeOK
<1>6. \A s \in Sessions : sessions[s] # None => sessions[s].account \in Accounts
  BY DEF Inv, TypeOK, Session
<1>7. SessionsBounded' /\ OldPasswordOnlyWaiting'
  BY <1>3, <1>6 DEF FailLogin, Inv, SessionsBounded, OldPasswordOnlyWaiting
<1>8. \A q \in Attempts : logins[q] # None => logins[q].account \in Accounts
  BY DEF Inv, TypeOK, Waiting
<1>9. WaitingCurrent'
  BY <1>3, <1>8 DEF FailLogin, Inv, TypeOK, WaitingCurrent
<1> QED
  BY <1>5, <1>7, <1>9 DEF Inv

\* A session is opened with the hash its login held.
LEMMA PassInv ==
  ASSUME Inv, NEW r \in Attempts, PassLogin(r), now' = now
  PROVE  Inv'
<1> DEFINE w == logins[r]
           a == w.account
           u == [users EXCEPT ![a].failed = 0, ![a].lockedUntil = 0]
<1>1. w \in Waiting /\ a \in Accounts /\ users[a] \in User /\ w.guess = w.hash
  BY DEF Inv, TypeOK, PassLogin, Waiting, WaitingCurrent
<1>2. /\ u \in [Accounts -> User \union {None}]
      /\ \A o \in Accounts : users[o] # None =>
           u[o] # None /\ u[o].password = users[o].password
  BY <1>1, NoRowAssumption DEF Inv, TypeOK, User
<1>3. /\ \/ /\ users' = u
            /\ \E n \in Sessions : sessions' = [sessions EXCEPT ![n] = NewSession(w)]
         \/ UNCHANGED <<users, sessions>>
      /\ logins' = [logins EXCEPT ![r] = None]
      /\ UNCHANGED <<completed, setups>>
  BY DEF PassLogin
<1>4. /\ NewSession(w) \in Session
      /\ NewSession(w).account = a
      /\ NewSession(w).late = w.late
      /\ NewSession(w).password = w.hash
      /\ NewSession(w).expires <= NewSession(w).used + Idle
      /\ NewSession(w).expires <= NewSession(w).opened + Absolute
  BY <1>1, RowTypes, LoginAssumption DEF NewSession, Earlier, Inv, TypeOK, Time
<1>5. \A s \in Sessions : sessions[s] # None => sessions[s].account \in Accounts
  BY DEF Inv, TypeOK, Session
<1>6. \A q \in Attempts : logins[q] # None => logins[q].account \in Accounts
  BY DEF Inv, TypeOK, Waiting
<1>7. w.late \/ w.hash = users[a].password
  BY <1>1, NoRowAssumption DEF Inv, WaitingCurrent
<1> HIDE DEF w, a, u
<1>8. TypeOK'
  BY <1>2, <1>3, <1>4 DEF Inv, TypeOK
<1>9. WaitingCurrent'
  BY <1>2, <1>3, <1>6 DEF Inv, TypeOK, WaitingCurrent
<1>10. CASE UNCHANGED <<users, sessions>>
  BY <1>8, <1>9, <1>10 DEF Inv, SessionsBounded, OldPasswordOnlyWaiting
<1>11. ASSUME users' = u, NEW n \in Sessions,
              sessions' = [sessions EXCEPT ![n] = NewSession(w)]
       PROVE  Inv'
  <2>1. users'[a] # None /\ users'[a].password = users[a].password
    BY <1>1, <1>2, <1>11, NoRowAssumption
  <2>2. \A s \in Sessions : sessions'[s] = IF s = n THEN NewSession(w) ELSE sessions[s]
    BY <1>11 DEF Inv, TypeOK
  <2>3. SessionsBounded'
    BY <1>2, <1>4, <1>5, <1>11, <2>1, <2>2 DEF Inv, SessionsBounded
  <2>4. OldPasswordOnlyWaiting'
    BY <1>2, <1>4, <1>5, <1>7, <1>11, <2>1, <2>2
    DEF Inv, SessionsBounded, OldPasswordOnlyWaiting
  <2> QED
    BY <1>8, <1>9, <2>3, <2>4 DEF Inv
<1> QED
  BY <1>3, <1>10, <1>11

\* Activity renews a session within both limits, and expiry revokes it.
LEMMA ValidateInv ==
  ASSUME Inv, NEW s \in Sessions, Validate(s), now' = now
  PROVE  Inv'
<1> DEFINE v == IF now >= sessions[s].expires \/ now >= sessions[s].opened + Absolute
                  THEN [sessions[s] EXCEPT !.revoked = TRUE] ELSE Renewed(sessions[s])
<1>1. sessions[s] \in Session
  BY DEF Validate, Inv, TypeOK
<1>2. sessions' = [sessions EXCEPT ![s] = v] /\ UNCHANGED <<users, completed, logins, setups>>
  BY DEF Validate
<1>3. /\ v \in Session
      /\ v.account = sessions[s].account /\ v.password = sessions[s].password
      /\ v.late = sessions[s].late
  BY <1>1, RowTypes DEF Renewed, Session, Inv
<1>4. v.expires <= v.used + Idle /\ v.expires <= v.opened + Absolute
  <2>1. /\ sessions[s].expires <= sessions[s].used + Idle
        /\ sessions[s].expires <= sessions[s].opened + Absolute
    BY DEF Validate, Inv, SessionsBounded
  <2>2. now \in Nat /\ Idle \in Nat /\ Absolute \in Nat
    BY LoginAssumption, TimeAssumption DEF Inv, TypeOK, Time
  <2> QED
    BY <1>1, <2>1, <2>2 DEF Renewed, Earlier, Session
<1>5. ~sessions[s].revoked
  BY DEF Validate
<1> HIDE DEF v
<1>6. TypeOK'
  BY <1>2, <1>3 DEF Inv, TypeOK
<1>7. \A t \in Sessions : sessions'[t] = IF t = s THEN v ELSE sessions[t]
  BY <1>2 DEF Inv, TypeOK
<1>8. sessions[s] # None
  BY DEF Validate
<1>9. SessionsBounded' /\ OldPasswordOnlyWaiting'
  BY <1>2, <1>3, <1>4, <1>5, <1>7, <1>8 DEF Inv, SessionsBounded, OldPasswordOnlyWaiting
<1>10. WaitingCurrent'
  BY <1>2 DEF Inv, WaitingCurrent
<1> QED
  BY <1>6, <1>9, <1>10 DEF Inv

\* Logging out only revokes.
LEMMA LogoutInv ==
  ASSUME Inv, NEW s \in Sessions, Logout(s), now' = now
  PROVE  Inv'
<1> DEFINE v == [sessions[s] EXCEPT !.revoked = TRUE]
<1>1. sessions[s] \in Session
  BY DEF Logout, Inv, TypeOK
<1>2. sessions' = [sessions EXCEPT ![s] = v] /\ UNCHANGED <<users, completed, logins, setups>>
  BY DEF Logout
<1>3. v \in Session /\ v.revoked
      /\ v.account = sessions[s].account /\ v.expires = sessions[s].expires
      /\ v.used = sessions[s].used /\ v.opened = sessions[s].opened
  BY <1>1 DEF Session
<1> HIDE DEF v
<1>4. TypeOK'
  BY <1>2, <1>3 DEF Inv, TypeOK
<1>5. \A t \in Sessions : sessions'[t] = IF t = s THEN v ELSE sessions[t]
  BY <1>2 DEF Inv, TypeOK
<1>6. sessions[s] # None
  BY DEF Logout
<1>7. SessionsBounded' /\ OldPasswordOnlyWaiting' /\ WaitingCurrent'
  BY <1>2, <1>3, <1>5, <1>6
  DEF Inv, SessionsBounded, OldPasswordOnlyWaiting, WaitingCurrent
<1> QED
  BY <1>4, <1>7 DEF Inv

\* The CLI revokes every session of the account and marks the logins that wait.
LEMMA RecoverInv ==
  ASSUME Inv, NEW a \in Accounts, NEW p \in Passwords, Recover(a, p), now' = now
  PROVE  Inv'
<1>1. Fresh(p) \in User /\ Fresh(p).password = p
  BY RowTypes DEF Inv, Fresh
<1>2. /\ users' = [users EXCEPT ![a] = Fresh(p)]
      /\ sessions' = WithoutSessions(a)
      /\ UNCHANGED <<completed, setups>>
  BY DEF Recover
<1>3. \A r \in Attempts :
        /\ logins'[r] = None <=> logins[r] = None
        /\ logins[r] # None =>
             /\ logins'[r] \in Waiting
             /\ logins'[r].account = logins[r].account
             /\ logins'[r].hash = logins[r].hash
             /\ logins[r].late \/ logins[r].account = a => logins'[r].late
  BY NoRowAssumption DEF Recover, Inv, TypeOK, Waiting
<1>4. \A s \in Sessions :
        /\ sessions'[s] = None <=> sessions[s] = None
        /\ sessions[s] # None =>
             /\ sessions'[s] \in Session
             /\ sessions'[s] = sessions[s] \/ sessions'[s].revoked
             /\ sessions[s].account = a => sessions'[s].revoked
             /\ sessions'[s].account = sessions[s].account
             /\ sessions'[s].expires = sessions[s].expires
             /\ sessions'[s].used = sessions[s].used
             /\ sessions'[s].opened = sessions[s].opened
  BY <1>2, NoRowAssumption DEF WithoutSessions, Inv, TypeOK, Session
<1>5. /\ users' \in [Accounts -> User \union {None}]
      /\ \A o \in Accounts : users[o] # None => users'[o] # None
      /\ \A o \in Accounts : o # a => users'[o] = users[o]
  BY <1>1, <1>2, NoRowAssumption DEF Inv, TypeOK
<1>6. TypeOK'
  <2>1. sessions' \in [Sessions -> Session \union {None}]
    BY <1>2, <1>4 DEF WithoutSessions
  <2>2. logins' \in [Attempts -> Waiting \union {None}]
    BY <1>3 DEF Recover
  <2> QED
    BY <1>2, <1>5, <2>1, <2>2 DEF Inv, TypeOK
<1>7. \A s \in Sessions : sessions[s] # None => sessions[s].account \in Accounts
  BY DEF Inv, TypeOK, Session
<1>8. \A r \in Attempts : logins[r] # None => logins[r].account \in Accounts
  BY DEF Inv, TypeOK, Waiting
<1>9. SessionsBounded'
  BY <1>4, <1>5, <1>7 DEF Inv, SessionsBounded
<1>10. OldPasswordOnlyWaiting'
  <2> SUFFICES ASSUME NEW s \in Sessions, sessions'[s] # None, ~sessions'[s].revoked
               PROVE  \/ sessions'[s].late
                      \/ sessions'[s].password = users'[sessions'[s].account].password
    BY DEF OldPasswordOnlyWaiting
  <2>1. sessions[s] # None /\ sessions'[s] = sessions[s] /\ sessions[s].account # a
    BY <1>4
  <2>2. users'[sessions[s].account] = users[sessions[s].account]
    BY <1>5, <1>7, <2>1
  <2> QED
    BY <2>1, <2>2 DEF Inv, OldPasswordOnlyWaiting
<1>11. WaitingCurrent'
  BY <1>3, <1>5, <1>8 DEF Inv, WaitingCurrent
<1> QED
  BY <1>6, <1>9, <1>10, <1>11 DEF Inv

\* Setup makes an account only where there is none.
LEMMA SetupInv ==
  ASSUME Inv, NEW q \in Setups, now' = now,
         \/ \E a \in Accounts, p \in Passwords : BeginSetup(q, a, p)
         \/ FinishSetup(q)
  PROVE  Inv'
<1>1. CASE \E a \in Accounts, p \in Passwords : BeginSetup(q, a, p)
  <2>1. setups' \in [Setups -> Setup \union {None}]
    BY <1>1 DEF BeginSetup, Inv, TypeOK, Setup
  <2>2. UNCHANGED <<users, completed, sessions, logins>>
    BY <1>1 DEF BeginSetup
  <2> QED
    BY <2>1, <2>2
    DEF Inv, TypeOK, SessionsBounded, WaitingCurrent, OldPasswordOnlyWaiting
<1>2. CASE FinishSetup(q)
  <2> DEFINE b == setups[q].account
  <2>1. b \in Accounts /\ Fresh(setups[q].password) \in User
    BY <1>2, RowTypes DEF FinishSetup, Inv, TypeOK, Setup
  <2>2. /\ setups' \in [Setups -> Setup \union {None}]
        /\ completed' \in BOOLEAN
        /\ UNCHANGED <<sessions, logins>>
    BY <1>2 DEF FinishSetup, Inv, TypeOK
  <2>3. \/ UNCHANGED users
        \/ /\ \A o \in Accounts : users[o] = None
           /\ users' = [users EXCEPT ![b] = Fresh(setups[q].password)]
    BY <1>2 DEF FinishSetup, SetupOpen
  <2>4. TypeOK'
    BY <2>1, <2>2, <2>3 DEF Inv, TypeOK
  <2>5. \A o \in Accounts : users[o] # None => users'[o] = users[o]
    BY <2>3
  <2>6. /\ \A s \in Sessions : sessions[s] # None => sessions[s].account \in Accounts
        /\ \A r \in Attempts : logins[r] # None => logins[r].account \in Accounts
    BY DEF Inv, TypeOK, Session, Waiting
  <2>7. SessionsBounded' /\ WaitingCurrent' /\ OldPasswordOnlyWaiting'
    BY <2>2, <2>5, <2>6
    DEF Inv, SessionsBounded, WaitingCurrent, OldPasswordOnlyWaiting
  <2> QED
    BY <2>4, <2>7 DEF Inv
<1> QED
  BY <1>1, <1>2

\* A step that leaves the tables alone keeps the invariant.
LEMMA IdleInv ==
  ASSUME Inv, UNCHANGED loginVars, now' \in Time
  PROVE  Inv'
BY DEF loginVars, Inv, TypeOK, SessionsBounded, WaitingCurrent, OldPasswordOnlyWaiting

\* Every step preserves the invariant.
LEMMA NextInv == Inv /\ [Next]_vars => Inv'
<1> SUFFICES ASSUME Inv, [Next]_vars PROVE Inv'
  OBVIOUS
<1>1. now \in Time
  BY DEF Inv, TypeOK
<1>2. CASE UNCHANGED vars
  BY <1>1, <1>2, IdleInv DEF vars
<1>3. CASE Tick /\ UNCHANGED loginVars
  <2>1. now' \in Time
    BY <1>1, <1>3, TimeAssumption DEF Tick, Time
  <2> QED
    BY <1>3, <2>1, IdleInv
<1>4. CASE Serve /\ UNCHANGED now
  <2>1. now' = now
    BY <1>4
  <2>2. CASE \E r \in Attempts, a \in Accounts, g \in Passwords : BeginLogin(r, a, g)
    BY <2>1, <2>2, BeginInv
  <2>3. CASE \E r \in Attempts : FailLogin(r)
    BY <2>1, <2>3, FailInv
  <2>4. CASE \E r \in Attempts : PassLogin(r)
    BY <2>1, <2>4, PassInv
  <2>5. CASE \E a \in Accounts : RefuseLogin(a)
    BY <1>1, <2>1, <2>5, IdleInv DEF RefuseLogin
  <2>6. CASE \E s \in Sessions : Validate(s)
    BY <2>1, <2>6, ValidateInv
  <2>7. CASE \E s \in Sessions : Logout(s)
    BY <2>1, <2>7, LogoutInv
  <2>8. CASE \E a \in Accounts, p \in Passwords : Recover(a, p)
    BY <2>1, <2>8, RecoverInv
  <2>9. CASE \E q \in Setups, a \in Accounts, p \in Passwords : BeginSetup(q, a, p)
    BY <2>1, <2>9, SetupInv
  <2>10. CASE \E q \in Setups : FinishSetup(q)
    BY <2>1, <2>10, SetupInv
  <2> QED
    BY <1>4, <2>2, <2>3, <2>4, <2>5, <2>6, <2>7, <2>8, <2>9, <2>10 DEF Serve
<1> QED
  BY <1>2, <1>3, <1>4 DEF Next

\* The invariant holds in every behaviour.
LEMMA Invariance == Spec => []Inv
BY InitInv, NextInv, PTL DEF Spec

\* The rows of accounts, sessions, waiting logins and setups keep their types.
THEOREM LoginTypeCorrect == Spec => []TypeOK
<1>1. Inv => TypeOK
  BY DEF Inv
<1> QED
  BY Invariance, <1>1, PTL

\* An open session of a replaced password belongs to a login that was waiting
\* when the CLI replaced it (admin-recovery.ts revokes all the others).
THEOREM OldPasswordGone == Spec => []OldPasswordOnlyWaiting
<1>1. Inv => OldPasswordOnlyWaiting
  BY DEF Inv
<1> QED
  BY Invariance, <1>1, PTL

\* Activity counts only before both limits, and a revoked session stays as it
\* is: no handler and no CLI command brings one back.
LEMMA SessionStep ==
  ASSUME Inv, Next, NEW s \in Sessions, sessions[s] # None
  PROVE  LET old == sessions[s]
             new == sessions'[s]
         IN /\ old.revoked => new = old
            /\ new.used # old.used => /\ now < old.opened + Absolute
                                      /\ now < old.used + Idle
<1>1. sessions[s] \in Session
  BY DEF Inv, TypeOK
<1>2. CASE UNCHANGED sessions
  BY <1>2
<1>3. CASE Validate(s)
  <2>1. ~sessions[s].revoked
    BY <1>3 DEF Validate
  <2>2. CASE now >= sessions[s].expires \/ now >= sessions[s].opened + Absolute
    <3>1. sessions'[s] = [sessions[s] EXCEPT !.revoked = TRUE]
      BY <1>3, <2>2 DEF Validate, Inv, TypeOK
    <3> QED
      BY <1>1, <2>1, <3>1 DEF Session
  <2>3. CASE ~(now >= sessions[s].expires \/ now >= sessions[s].opened + Absolute)
    <3>1. /\ sessions[s].expires <= sessions[s].used + Idle
          /\ sessions[s].expires <= sessions[s].opened + Absolute
      BY DEF Inv, SessionsBounded
    <3>2. now \in Nat /\ Idle \in Nat /\ Absolute \in Nat
      BY LoginAssumption, TimeAssumption DEF Inv, TypeOK, Time
    <3>3. now < sessions[s].opened + Absolute /\ now < sessions[s].used + Idle
      BY <1>1, <2>3, <3>1, <3>2 DEF Session
    <3> QED
      BY <2>1, <3>3
  <2> QED
    BY <2>2, <2>3
<1>4. ASSUME NEW t \in Sessions, t # s, Validate(t) PROVE sessions'[s] = sessions[s]
  BY <1>4 DEF Validate, Inv, TypeOK
<1>5. ASSUME NEW t \in Sessions, Logout(t)
      PROVE  /\ sessions[s].revoked => sessions'[s] = sessions[s]
             /\ sessions'[s].used = sessions[s].used
  <2>1. CASE t = s
    <3>1. sessions'[s] = [sessions[s] EXCEPT !.revoked = TRUE]
      BY <1>5, <2>1 DEF Logout, Inv, TypeOK
    <3> QED
      BY <1>1, <3>1 DEF Session
  <2>2. CASE t # s
    BY <1>5, <2>2 DEF Logout, Inv, TypeOK
  <2> QED
    BY <2>1, <2>2
<1>6. ASSUME NEW a \in Accounts, NEW p \in Passwords, Recover(a, p)
      PROVE  /\ sessions[s].revoked => sessions'[s] = sessions[s]
             /\ sessions'[s].used = sessions[s].used
  <2>1. sessions'[s] \in {sessions[s], [sessions[s] EXCEPT !.revoked = TRUE]}
    BY <1>6 DEF Recover, WithoutSessions
  <2> QED
    BY <1>1, <2>1 DEF Session
<1>7. ASSUME NEW r \in Attempts, PassLogin(r) PROVE sessions'[s] = sessions[s]
  <2>1. \/ UNCHANGED sessions
        \/ \E n \in Sessions :
             sessions' = [sessions EXCEPT ![n] = NewSession(logins[r])] /\ sessions[n] = None
    BY <1>7 DEF PassLogin
  <2> QED
    BY <2>1 DEF Inv, TypeOK
<1> QED
  BY <1>2, <1>3, <1>4, <1>5, <1>6, <1>7
  DEF Next, Serve, BeginLogin, FailLogin, RefuseLogin, BeginSetup, FinishSetup, loginVars

\* No session outlives its limits, however active, or its revocation
\* (validateSession, logout and the CLI).
THEOREM SessionsDoEnd == Spec => SessionsEnd
<1>1. Inv /\ [Next]_vars =>
        [\A s \in Sessions : sessions[s] # None =>
           LET old == sessions[s]
               new == sessions'[s]
           IN /\ old.revoked => new = old
              /\ new.used # old.used => /\ now < old.opened + Absolute
                                        /\ now < old.used + Idle]_vars
  BY SessionStep
<1> QED
  BY Invariance, <1>1, PTL DEF Spec, SessionsEnd

-----------------------------------------------------------------------------
(* The logins that wait implement the lockout that judges each at once.    *)

\* The safety of Lockout, under the refinement mapping.
JudgedAtOnce == Judged!Init /\ [][Judged!Next]_(Judged!lockoutVars)

LEMMA InitMaps == Init => Judged!Init
<1> SUFFICES ASSUME Init PROVE Judged!Init
  OBVIOUS
<1>1. \A a \in Accounts : users[a] # None => users[a].failed = 0 /\ users[a].lockedUntil = 0
  BY DEF Init, Fresh
<1> QED
  BY <1>1 DEF Init, Judged!Init, Known, Misses, Until, Opened

\* What the lockout sees depends on the accounts' misses and locks and on the
\* sessions' accounts alone.
LEMMA Unseen ==
  ASSUME UNCHANGED <<now, users>>,
         \A s \in Sessions :
           /\ sessions'[s] = None <=> sessions[s] = None
           /\ sessions[s] # None => sessions'[s].account = sessions[s].account
  PROVE  UNCHANGED Judged!lockoutVars
BY DEF Judged!lockoutVars, Known, Misses, Until, Opened

\* The misses and locks when one account's row is replaced.
LEMMA OneRow ==
  ASSUME Inv, NEW a \in Accounts, NEW u \in User, users' = [users EXCEPT ![a] = u]
  PROVE  /\ Known' = Known \union {a}
         /\ Misses' = [Misses EXCEPT ![a] = u.failed]
         /\ Until' = [Until EXCEPT ![a] = u.lockedUntil]
<1>1. u # None
  BY NoRowAssumption
<1>2. \A o \in Accounts : users'[o] = IF o = a THEN u ELSE users[o]
  BY DEF Inv, TypeOK
<1>3. Known' = Known \union {a}
  BY <1>1, <1>2 DEF Known
<1>4. Misses' = [Misses EXCEPT ![a] = u.failed]
  <2>1. \A o \in Accounts : Misses'[o] = IF o = a THEN u.failed ELSE Misses[o]
    BY <1>1, <1>2 DEF Misses
  <2>2. Misses = [o \in Accounts |-> Misses[o]] /\ Misses' = [o \in Accounts |-> Misses'[o]]
    BY DEF Misses
  <2> QED
    BY <2>1, <2>2
<1>5. Until' = [Until EXCEPT ![a] = u.lockedUntil]
  <2>1. \A o \in Accounts : Until'[o] = IF o = a THEN u.lockedUntil ELSE Until[o]
    BY <1>1, <1>2 DEF Until
  <2>2. Until = [o \in Accounts |-> Until[o]] /\ Until' = [o \in Accounts |-> Until'[o]]
    BY DEF Until
  <2> QED
    BY <2>1, <2>2
<1> QED
  BY <1>3, <1>4, <1>5

\* A miss is judged when it is answered.
LEMMA FailMaps ==
  ASSUME Inv, NEW r \in Attempts, FailLogin(r), now' = now
  PROVE  [Judged!Next]_(Judged!lockoutVars)
<1> DEFINE a == logins[r].account
<1>1. a \in Accounts /\ users[a] \in User /\ users[a] # None
  BY DEF Inv, TypeOK, FailLogin, Waiting, WaitingCurrent
<1>2. UNCHANGED sessions
  BY DEF FailLogin
<1>3. CASE StillUnlocked(a)
  <2>1. users' = [users EXCEPT ![a] = Missed(users[a])]
    BY <1>3 DEF FailLogin
  <2>2. Missed(users[a]) \in User
    BY <1>1, RowTypes DEF Inv
  <2>3. /\ Known' = Known \union {a}
        /\ Misses' = [Misses EXCEPT ![a] = Missed(users[a]).failed]
        /\ Until' = [Until EXCEPT ![a] = Missed(users[a]).lockedUntil]
    BY <1>1, <2>1, <2>2, OneRow
  <2>4. /\ Missed(users[a]).failed = Misses[a] + 1
        /\ Missed(users[a]).lockedUntil =
             IF Misses[a] + 1 >= MaxFailed THEN now + LockPeriod ELSE 0
    BY <1>1 DEF Missed, Misses, User
  <2>5. a \in Known /\ ~(Until[a] > now)
    <3>1. Until[a] = users[a].lockedUntil /\ users[a].lockedUntil <= now
      BY <1>1, <1>3 DEF Until, StillUnlocked, Unlocked
    <3>2. users[a].lockedUntil \in Nat /\ now \in Nat
      BY <1>1, TimeAssumption DEF User, Inv, TypeOK, Time
    <3> QED
      BY <1>1, <3>1, <3>2 DEF Known
  <2>6. Opened' = Opened
    BY <1>2 DEF Opened
  <2>7. Judged!Miss(a)
    BY <2>3, <2>4, <2>5, <2>6 DEF Judged!Miss, Judged!Locked
  <2> QED
    BY <1>1, <2>7 DEF Judged!Next
<1>4. CASE ~StillUnlocked(a)
  <2>1. UNCHANGED users
    BY <1>4 DEF FailLogin
  <2> QED
    BY <1>2, <2>1, Unseen
<1> QED
  BY <1>3, <1>4

\* A session is opened when the answer finds the account still unlocked.
LEMMA PassMaps ==
  ASSUME Inv, NEW r \in Attempts, PassLogin(r), now' = now
  PROVE  [Judged!Next]_(Judged!lockoutVars)
<1> DEFINE a == logins[r].account
           u == [users[a] EXCEPT !.failed = 0, !.lockedUntil = 0]
<1>1. a \in Accounts /\ users[a] \in User /\ users[a] # None
  BY DEF Inv, TypeOK, PassLogin, Waiting, WaitingCurrent
<1>2. u \in User /\ u.failed = 0 /\ u.lockedUntil = 0
  BY <1>1 DEF User
<1>3. CASE StillUnlocked(a)
  <2>1. users' = [users EXCEPT ![a] = u]
    BY <1>1, <1>3 DEF PassLogin, Inv, TypeOK, User
  <2>2. PICK s \in Sessions :
          sessions[s] = None /\ sessions' = [sessions EXCEPT ![s] = NewSession(logins[r])]
    BY <1>3 DEF PassLogin
  <2>3. /\ Known' = Known \union {a}
        /\ Misses' = [Misses EXCEPT ![a] = 0]
        /\ Until' = [Until EXCEPT ![a] = 0]
    <3>1. PICK v \in User : /\ v.failed = 0 /\ v.lockedUntil = 0
                            /\ users' = [users EXCEPT ![a] = v]
      BY <1>2, <2>1
    <3>2. /\ Known' = Known \union {a}
          /\ Misses' = [Misses EXCEPT ![a] = v.failed]
          /\ Until' = [Until EXCEPT ![a] = v.lockedUntil]
      <4> HIDE DEF a, u
      <4> QED
        BY <1>1, <3>1, OneRow
    <3> QED
      BY <3>1, <3>2
  <2>4. a \in Known /\ ~(Until[a] > now)
    <3>1. Until[a] = users[a].lockedUntil /\ users[a].lockedUntil <= now
      BY <1>1, <1>3 DEF Until, StillUnlocked, Unlocked
    <3>2. users[a].lockedUntil \in Nat /\ now \in Nat
      BY <1>1, TimeAssumption DEF User, Inv, TypeOK, Time
    <3> QED
      BY <1>1, <3>1, <3>2 DEF Known
  <2>5. logins[r] \in Waiting
    BY DEF PassLogin, Inv, TypeOK
  <2>6. /\ NewSession(logins[r]) # None
        /\ NewSession(logins[r]).account = a
    BY <2>5, RowTypes, NoRowAssumption DEF NewSession, Inv
  <2>7. \A o \in Sessions : sessions'[o] = IF o = s THEN NewSession(logins[r]) ELSE sessions[o]
    BY <2>2 DEF Inv, TypeOK
  <2>8. Opened' = Opened \union {<<s, a>>}
    BY <2>2, <2>6, <2>7 DEF Opened
  <2>9. \A o \in Opened : o[1] # s
    BY <2>2 DEF Opened
  <2>10. Judged!Open(a)
    BY <2>3, <2>4, <2>8, <2>9 DEF Judged!Open, Judged!Locked
  <2> QED
    BY <1>1, <2>10 DEF Judged!Next
<1>4. CASE ~StillUnlocked(a)
  <2>1. UNCHANGED <<users, sessions>>
    BY <1>4 DEF PassLogin
  <2> QED
    BY <2>1, Unseen
<1> QED
  BY <1>3, <1>4

\* The CLI forgives, and setup creates the first account.
LEMMA RecoverMaps ==
  ASSUME Inv, NEW a \in Accounts, NEW p \in Passwords, Recover(a, p), now' = now
  PROVE  [Judged!Next]_(Judged!lockoutVars)
<1>1. Fresh(p) \in User /\ Fresh(p).failed = 0 /\ Fresh(p).lockedUntil = 0
  BY RowTypes DEF Inv, Fresh
<1>2. /\ Known' = Known \union {a}
      /\ Misses' = [Misses EXCEPT ![a] = 0]
      /\ Until' = [Until EXCEPT ![a] = 0]
  BY <1>1, OneRow DEF Recover
<1>3. a \in Known
  BY DEF Recover, Known
<1>4. \A s \in Sessions :
        /\ sessions'[s] = None <=> sessions[s] = None
        /\ sessions[s] # None => sessions'[s].account = sessions[s].account
  BY NoRowAssumption DEF Recover, WithoutSessions, Inv, TypeOK, Session
<1>5. Opened' = Opened
  BY <1>4 DEF Opened
<1>6. Judged!Forgive(a)
  BY <1>2, <1>3, <1>5 DEF Judged!Forgive
<1> QED
  BY <1>6 DEF Judged!Next

LEMMA SetupMaps ==
  ASSUME Inv, NEW q \in Setups, FinishSetup(q), now' = now
  PROVE  [Judged!Next]_(Judged!lockoutVars)
<1> DEFINE a == setups[q].account
           u == Fresh(setups[q].password)
<1>1. a \in Accounts /\ u \in User /\ u.failed = 0 /\ u.lockedUntil = 0
  BY RowTypes DEF FinishSetup, Inv, TypeOK, Setup, Fresh
<1>2. UNCHANGED sessions
  BY DEF FinishSetup
<1>3. CASE SetupOpen(a)
  <2>1. users' = [users EXCEPT ![a] = u]
    BY <1>3 DEF FinishSetup
  <2>2. /\ Known' = Known \union {a}
        /\ Misses' = [Misses EXCEPT ![a] = 0]
        /\ Until' = [Until EXCEPT ![a] = 0]
    <3>1. PICK v \in User : /\ v.failed = 0 /\ v.lockedUntil = 0
                            /\ users' = [users EXCEPT ![a] = v]
      BY <1>1, <2>1
    <3>2. /\ Known' = Known \union {a}
          /\ Misses' = [Misses EXCEPT ![a] = v.failed]
          /\ Until' = [Until EXCEPT ![a] = v.lockedUntil]
      <4> HIDE DEF a, u
      <4> QED
        BY <1>1, <3>1, OneRow
    <3> QED
      BY <3>1, <3>2
  <2>3. Known = {} /\ Misses[a] = 0 /\ Until[a] = 0
    BY <1>1, <1>3 DEF SetupOpen, Known, Misses, Until
  <2>4. Misses' = Misses /\ Until' = Until
    BY <1>1, <2>2, <2>3 DEF Misses, Until
  <2>5. Judged!Create(a)
    BY <1>2, <2>2, <2>3, <2>4 DEF Judged!Create, Opened
  <2> QED
    BY <1>1, <2>5 DEF Judged!Next
<1>4. CASE ~SetupOpen(a)
  <2>1. UNCHANGED users
    BY <1>4 DEF FinishSetup
  <2> QED
    BY <1>2, <2>1, Unseen
<1> QED
  BY <1>3, <1>4

\* Every step is a step of the lockout or leaves what it sees alone.
LEMMA StepMaps == Inv /\ [Next]_vars => [Judged!Next]_(Judged!lockoutVars)
<1> SUFFICES ASSUME Inv, [Next]_vars PROVE [Judged!Next]_(Judged!lockoutVars)
  OBVIOUS
<1>1. CASE UNCHANGED vars
  BY <1>1, Unseen DEF vars, loginVars
<1>2. CASE Tick /\ UNCHANGED loginVars
  <2>1. UNCHANGED <<Known, Misses, Until, Opened>>
    BY <1>2 DEF loginVars, Known, Misses, Until, Opened
  <2> QED
    BY <1>2, <2>1 DEF Judged!Next, Judged!Tick, Tick
<1>3. CASE Serve /\ UNCHANGED now
  <2>1. now' = now
    BY <1>3
  <2>2. CASE UNCHANGED <<users, sessions>>
    BY <2>1, <2>2, Unseen
  <2>3. CASE \E r \in Attempts : FailLogin(r)
    BY <2>1, <2>3, FailMaps
  <2>4. CASE \E r \in Attempts : PassLogin(r)
    BY <2>1, <2>4, PassMaps
  <2>5. ASSUME NEW s \in Sessions, Validate(s) \/ Logout(s)
        PROVE  UNCHANGED Judged!lockoutVars
    <3>1. sessions[s] \in Session /\ UNCHANGED users
      BY <2>5 DEF Validate, Logout, Inv, TypeOK
    <3>2. /\ Renewed(sessions[s]) \in Session
          /\ Renewed(sessions[s]).account = sessions[s].account
      BY <3>1, RowTypes DEF Inv, Renewed, Session
    <3>3. PICK v \in Session : v.account = sessions[s].account
                               /\ sessions' = [sessions EXCEPT ![s] = v]
      <4>1. /\ [sessions[s] EXCEPT !.revoked = TRUE] \in Session
            /\ [sessions[s] EXCEPT !.revoked = TRUE].account = sessions[s].account
        BY <3>1 DEF Session
      <4> QED
        BY <2>5, <3>2, <4>1 DEF Validate, Logout
    <3>4. \A o \in Sessions : sessions'[o] = IF o = s THEN v ELSE sessions[o]
      BY <3>3 DEF Inv, TypeOK
    <3>5. sessions[s] # None /\ v # None
      BY <2>5, NoRowAssumption DEF Validate, Logout
    <3> QED
      BY <2>1, <3>1, <3>3, <3>4, <3>5, Unseen
  <2>6. CASE \E a \in Accounts, p \in Passwords : Recover(a, p)
    BY <2>1, <2>6, RecoverMaps
  <2>7. CASE \E q \in Setups : FinishSetup(q)
    BY <2>1, <2>7, SetupMaps
  <2> QED
    BY <1>3, <2>2, <2>3, <2>4, <2>5, <2>6, <2>7
    DEF Serve, BeginLogin, RefuseLogin, BeginSetup, loginVars
<1> QED
  BY <1>1, <1>2, <1>3 DEF Next

\* Waiting for a password to be verified changes nothing about the lockout:
\* authenticate behaves as if each guess were judged at its answer.
THEOREM LoginImplementsLockout == Spec => ImplementsLockout
<1>1. Spec => JudgedAtOnce
  BY InitMaps, StepMaps, Invariance, PTL DEF Spec, JudgedAtOnce
<1> QED
  BY <1>1 DEF JudgedAtOnce, ImplementsLockout, Judged!Spec
=============================================================================
