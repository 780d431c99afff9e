SPECIFICATION Spec
CONSTANTS
  Calls = {k1}
  Polls = {p1,p2}
  Closer = Closer
  Options <- QuietOptions
  Nil = Nil
  None = None
CHECK_DEADLOCK FALSE
INVARIANT ResultKept
