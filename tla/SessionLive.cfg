SPECIFICATION FairSpec
CONSTANTS
  s1 = s1
  s2 = s2
  s3 = s3
  service = service
  warm = warm
  r1 = r1
  r2 = r2
  None = None
  Sessions <- MCOneSession
  Procs <- MCProcs
  ProcOf <- MCProcOfOne
  Crashable = {service}
  MayCrash = {}
  MayShutDown = {service}
  IOFaults = FALSE
  ReleaseAgain = TRUE
  OverlappingCloses = TRUE
  Requests = {r1}
  Kinds = {"persistent", "disposable"}
  Modes = {"managed", "cdp"}
  Captures = {"off", "files", "trace"}
PROPERTIES
  CallsSettle
  ForcedCloseCompletes
CHECK_DEADLOCK FALSE
