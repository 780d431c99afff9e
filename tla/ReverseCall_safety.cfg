SPECIFICATION Spec
CONSTANTS
  Calls = {k1,k2}
  Polls = {p1,p2}
  Closer = Closer
  Options <- SafetyOptions
  Nil = Nil
  None = None
CHECK_DEADLOCK FALSE
SYMMETRY Symmetry
INVARIANTS OwnerInv BeatingKeepsCalls
PROPERTY ImplementsChannel
