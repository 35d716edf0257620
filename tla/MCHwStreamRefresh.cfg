\* Liveness and order with a client that pins, two processors and the counter
\* wrapping.
SPECIFICATION FairSpec
CONSTANTS
  NBig = 15
  NSmall = 7
  RingSize = 2
  TargetPending = 1
  Skip = 3
  IntMax = 3
  MaxProcs = 2
  Clients = {c1}
VIEW StreamView
PROPERTIES PublishInOrder DisplayRefreshes
