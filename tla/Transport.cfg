SPECIFICATION Spec
CONSTANTS
  r1 = r1
  r2 = r2
  e1 = e1
  Requests = {r1, r2}
  Streams = {e1}
  Sessions = {1}
  MaxStarts = 2
INVARIANTS
  StreamIsWindow
  LogFilesAreOfSessions
  TurnedAwayByLaterStart
PROPERTIES
  HungUpStreamsEnd
CHECK_DEADLOCK FALSE
