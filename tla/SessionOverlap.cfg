SPECIFICATION Spec
CONSTANTS
  s1 = s1
  s2 = s2
  s3 = s3
  service = service
  warm = warm
  r1 = r1
  r2 = r2
  None = None
  Sessions <- MCSessionsTwoProcs
  Procs <- MCProcsTwo
  ProcOf <- MCProcOfTwo
  Crashable = {service, warm}
  MayCrash = {warm}
  MayShutDown = {service}
  IOFaults = FALSE
  ReleaseAgain = TRUE
  OverlappingCloses = TRUE
  Requests = {r1}
  Kinds = {"persistent"}
  Modes = {"managed", "cdp"}
  Captures = {"trace"}
INVARIANTS RunningOwnsLockUntilStray ShutdownFreesLocks
CHECK_DEADLOCK FALSE
