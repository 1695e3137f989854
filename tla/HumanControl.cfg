SPECIFICATION FairSpec
CONSTANTS
  s1 = s1
  p1 = p1
  a1 = a1
  a2 = a2
  r1 = r1
  r2 = r2
  None = None
  Sessions = {s1}
  Pages = {p1}
  PageSession <- MCPageSession
  Calls = {a1, a2}
  Submits = {r1, r2}
  MaxChallenges = 2
  MaxRequests = 3
  IOFaults = TRUE
INVARIANTS
  ControlEndsWithChallenge
  NothingLeftAfterDelete
  HumanAnswered
PROPERTIES
  EndedStaysEnded
  WaitsEnd
CHECK_DEADLOCK FALSE
