SPECIFICATION Spec
CONSTANTS
  i1 = i1  i2 = i2  a1 = a1  a2 = a2
  None = None
  Addresses = {i1, i2}
  Accounts = {a1, a2}
  Window = 2
  PerIp = 2
  PerAccount = 2
  PerServer = 3
  MaxEntries = 3
  MaxTime = 5
SYMMETRY Symmetry
INVARIANTS TypeOK WithinLimits
PROPERTIES WindowsKept
CHECK_DEADLOCK FALSE
