SPECIFICATION Spec
CONSTANTS
  Topics = {t1}
  Messages = {m1}
  Caches = {c1,c2}
  Polls = {p1,p2}
  Loops = {l1}
  Options <- SafetyOptions
  Nil = Nil
  None = None
CHECK_DEADLOCK FALSE
SYMMETRY Symmetry
INVARIANTS ResponderInv NoDuplicates LatestBeatWaits
