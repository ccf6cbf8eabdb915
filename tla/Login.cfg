SPECIFICATION Spec
CONSTANTS
  a1 = a1  a2 = a2  p1 = p1  p2 = p2  r1 = r1  r2 = r2  r3 = r3  q1 = q1  q2 = q2  s1 = s1
  None = None
  Accounts = {a1, a2}
  Passwords = {p1, p2}
  Attempts = {r1, r2, r3}
  Setups = {q1, q2}
  MaxTime = 4
  Sessions = {s1}
  MaxFailed = 2
  LockPeriod = 2
  Idle = 2
  Absolute = 3
SYMMETRY Symmetry
INVARIANTS TypeOK OldPasswordOnlyWaiting
PROPERTIES ImplementsLockout SessionsEnd
CHECK_DEADLOCK FALSE
