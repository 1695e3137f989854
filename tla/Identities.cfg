SPECIFICATION Spec
CONSTANTS
  c1 = c1
  c2 = c2
  m1 = m1
  m2 = m2
  d1 = d1
  w1 = w1
  p1 = p1
  p2 = p2
  None = None
  Creates = {c1, c2}
  Marks = {m1, m2}
  Deletes = {d1}
  Warms = {w1}
  Profiles = {p1}
INVARIANTS TornOnlyByRival PrefsMerged
PROPERTIES MarksAddUp ReplacedOnlyByStale
SYMMETRY Symmetry
CHECK_DEADLOCK FALSE
