SPECIFICATION LockFairSpec
CONSTANTS
  s1 = s1
  s2 = s2
  s3 = s3
  service = service
  warm = warm
  earlier = earlier
  None = None
  Sessions <- MCSessions
  Procs <- MCProcs
  ProcOf <- MCProcOf
  Crashable = {warm, earlier}
  IOFaults = TRUE
  ReleaseAgain = TRUE
INVARIANTS
  ExclusionUntilStrayUnlink
PROPERTIES
  ImplementsMutexUntilStray
  CreateSettles
CHECK_DEADLOCK FALSE
