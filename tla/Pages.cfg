SPECIFICATION Spec
CONSTANTS
  t0 = t0
  t1 = t1
  t2 = t2
  c1 = c1
  o1 = o1
  o2 = o2
  None = None
  Tabs = {t0, t1, t2}
  First = t0
  Opens = {c1}
  Observes = {o1, o2}
  MaxIds = 3
  MaxDocs = 2
SYMMETRY Symmetry
INVARIANTS
  TabsAreTracked
  ObservationsAreCurrent
CHECK_DEADLOCK FALSE
