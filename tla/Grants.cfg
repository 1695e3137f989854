SPECIFICATION Spec
CONSTANTS
  s1 = s1
  s2 = s2
  cookieExport = cookieExport
  cdpAttach = cdpAttach
  None = None
  Sessions <- MCSessions
  Capabilities <- MCCapabilities
  Enabled <- MCEnabled
  TTLs = {1}
  MaxGrants = 2
  MaxClock = 2
  MaxTrail = 4
  AuditFaults = TRUE
  DirectCalls = TRUE
SYMMETRY MCSymmetry
INVARIANTS
  DoorOpensOnce
  UsedWithinTtl
  OpenDoorIsAudited
  ClosedSessionHasNoUsableGrant
  SecretsMatchStatus
  TrailTellsTheLife
CHECK_DEADLOCK FALSE
