SPECIFICATION ClientSpec
CONSTANTS
  Callers = {c1, c2}
  Servers = 3
  Retry = 4
  MaxRequests = 3
  Plugins <- ThreePlugins
  Code <- TwoCodes
  Calls = {k1, k2}
  Users = {u1, u2}
  MaxEdits = 2
  MaxAborts = 2
  Weights <- ThreeWeights
  Requests = {r1, r2, r3}
  MaxPicks = 9
  Clients = {d1, d2}
  Interval = 2
  Sizes = {1, 2}
  Permits = {1, 9}
  Timeouts = {0, 1}
  MaxTime = 4
  MaxAcquires = 3
  Heap <- MCHeap
  StructOf <- MCStructOf
  FieldType <- MCFieldType
  Utf16Length <- MCUtf16Length
  Registered <- MCRegistered
  Bits <- MCBits
  Numeral <- MCNumeral
  Samples <- MCSamples
  Cyclic <- MCCyclic
  Together <- MCTogether
  Targets <- MCTargets
  MaxInt32 = 63
  ArrayLength = 2
  MaxValues = 2
  Depth = 4
  Items <- MCItems
  MaxItems = 2
  BufSize = 6
  MinChunk = 3
  Period = 3
  MaxInt = 1023
  MaxLength = 5
  MaxCalls = 2
SYMMETRY Symmetry
INVARIANTS
  Types CallsGuarded RetriesExact LoadBalanced RateKept
  SidesAgree  StreamIntact TextsAgree CallsArrive
CHECK_DEADLOCK FALSE
