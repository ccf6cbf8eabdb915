SPECIFICATION Spec
CONSTANTS
  api = api  cli = cli
  None = None  Nobody = Nobody  Orphan = Orphan  Stray = Stray
  Servers = {api}
  Clis = {cli}
  Limit = 1
  MaxBackups = 2
  MaxTime = 1
  MaxPeriod = 1
INVARIANTS TypeOK LockedWhileInUse PairsMatch SafetyBackupHolds SlotOnce
PROPERTIES EvictsOldest KeepsCatalogue LostStops LockReturns
CHECK_DEADLOCK FALSE
