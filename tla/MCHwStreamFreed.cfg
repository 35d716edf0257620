\* A released chunk that is still in the ring.
SPECIFICATION Spec
CONSTANTS
  NBig = 12
  NSmall = 6
  RingSize = 2
  TargetPending = 1
  Skip = 2
  IntMax = 1
  MaxProcs = 1
  Clients = {c1}
VIEW StreamView
INVARIANT LatestResident
