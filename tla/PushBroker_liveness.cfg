SPECIFICATION FairSpec
CONSTANTS
  Topics = {t1,t2}
  Messages = {m1}
  Caches = {c1,c2}
  Polls = {p1,p2}
  Loops = {l1,l2}
  Options <- QuietOptions
  Nil = Nil
  None = None
CHECK_DEADLOCK FALSE
INVARIANTS NoMessageLost LoopAlive
PROPERTIES LoopsConverge
