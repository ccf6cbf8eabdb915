SPECIFICATION Spec
CONSTANTS
  r1 = r1  r2 = r2  c1 = c1  c2 = c2
  None = None
  Release <- Releases
  Commit <- Commits
  First = r1
  CommitOf <- OwnCommit
  MaxFaults = 0
  MaxCrashes = 0
INVARIANT StatusConsistent
