\* Two clients that pin and release in every order; pools that stand one pin: a
\* second one may kill the process.
SPECIFICATION Spec
CONSTANTS
  NBig = 12
  NSmall = 6
  RingSize = 2
  TargetPending = 1
  Skip = 2
  IntMax = 1
  MaxProcs = 1
  Clients = {c1,c2}
VIEW StreamView
CHECK_DEADLOCK FALSE
INVARIANTS IInv DmaIsolated ClosedHoldsNothing OnlyPinsExhaust
PROPERTY ImplementsOwnership
