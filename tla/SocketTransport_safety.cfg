SPECIFICATION Spec
CONSTANTS
  Calls = {k1,k2}
  Conns = {c1,c2}
  QueueCap = 1
  MaxBatch = 2
  IndexLimit = 2
  MaxAborts = 1
  None = None
SYMMETRY Symmetry
CHECK_DEADLOCK FALSE
INVARIANTS OwnReply OwnReplyInv PooledChannelsIdle DeliveryNeverBlocks MappedInv
PROPERTY ImplementsChannel
