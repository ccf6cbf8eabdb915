SPECIFICATION Spec
CONSTANTS
  None = None
  MaxVersions = 2
  MaxFaults = 2
  MaxCrashes = 0
PROPERTIES
  NoRetryBeforeRecovery
