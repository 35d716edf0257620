\* Every interleaving, up to the first race that may harm more than one frame.
SPECIFICATION Spec
CONSTANTS
  NBufs = 10
  RingSize = 2
  Clients = {c1,c2}
VIEW ThreadsView
CONSTRAINT BeforeRaces
INVARIANTS PinExclusive BuffersConserved ShownResident
