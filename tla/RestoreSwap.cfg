SPECIFICATION FairSpec
CONSTANTS
  None = None
  MaxVersions = 2
  MaxFaults = 2
  MaxCrashes = 2
INVARIANTS
  TypeOK
  DurableSafe
  HandleOnActive
  VerdictHonest
  StrayServedOnlyWhilePending
  SettledSessionsRevoked
  AuditTruthful
  ScratchCleared
PROPERTIES
  RestoreSettles
  RestoresAtomically
