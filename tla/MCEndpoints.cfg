SPECIFICATION MCSpec
CONSTANTS
  Requests = {r1, r2, r3}
  Threshold = 2
  RecoverTime = 1
  MaxChanges = 2
  Callers = {l1, l2, l3, l4}
  Slots = 2
  Workers = {w1, w2, w3}
  Calls = {1, 2}
  Conns = {1}
  Asked = {1, 2, 3}
  PoolSize = 1
  QueueSize = 1
  MaxBatch = 2
  Nested <- NestedCall
  MaxWrites = 2
INVARIANTS
  Types CountsFailures SlotsHeld ForksAnswer RepliesKept ServersAnswer
PROPERTIES
  Recovers ForksReturn WaitersServed GoroutinesEnd
CHECK_DEADLOCK FALSE
