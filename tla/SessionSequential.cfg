SPECIFICATION Spec
CONSTANTS
  s1 = s1
  s2 = s2
  s3 = s3
  service = service
  warm = warm
  r1 = r1
  r2 = r2
  None = None
  Sessions <- MCSessions
  Procs <- MCProcs
  ProcOf <- MCProcOf
  Crashable = {}
  MayCrash = {}
  MayShutDown = {}
  IOFaults = TRUE
  ReleaseAgain = FALSE
  OverlappingCloses = FALSE
  Requests = {r1, r2}
  Kinds = {"persistent"}
  Modes = {"managed", "cdp"}
  Captures = {"off", "trace"}
SYMMETRY MCSymmetry
INVARIANTS
  LocksAreKept
PROPERTIES
  UsesLockProtocol
CHECK_DEADLOCK FALSE
