SPECIFICATION Spec
CONSTANTS
  Topics = {t1}
  Messages = {m1}
  Caches = {c1,c2}
  Polls = {p1,p2}
  Loops = {l1,l2}
  Options <- TimeoutOptions
  Nil = Nil
  None = None
CHECK_DEADLOCK FALSE
INVARIANTS NoMessageLost
