SPECIFICATION Spec
CONSTANTS
  w1 = w1
  w2 = w2
  w3 = w3
  e1 = e1
  s1 = s1
  s2 = s2
  Elems = {w1, w2, w3, e1}
  Walls = {w1, w2, w3}
  KindName <- MCKindName
  Under = {e1}
  Labelled = {w1, e1}
  Slots = {s1, s2}
  Mixes <- MCMixes
  None = None
  Home = Home
  MaxChanges = 2
  MaxDocs = 2
  MaxPauses = 1
  MaxTime = 5
  Quiet = 2
  ReadTime = 1
  Keep = 1
  Names = {1, 2, 3}
SYMMETRY Symmetry
INVARIANTS HeldOffByPause RefLandsOnSeen DismissedIsGone SettledWasQuiet MovesJoinUp ShotsAreBounded
CHECK_DEADLOCK FALSE
