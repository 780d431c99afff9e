SPECIFICATION FairSpec
CONSTANTS
  Calls = {k1}
  Polls = {p1,p2}
  Closer = Closer
  Options <- ClosingOptions
  Nil = Nil
  None = None
CHECK_DEADLOCK FALSE
PROPERTIES ResponseNeverBlocks ClosedStopsListen
