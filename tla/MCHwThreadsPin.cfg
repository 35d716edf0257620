\* Every interleaving; the race that hw_reserveChunk's TODO names breaks a pin.
SPECIFICATION Spec
CONSTANTS
  NBufs = 10
  RingSize = 2
  Clients = {c1,c2}
VIEW ThreadsView
INVARIANT PinLocks
