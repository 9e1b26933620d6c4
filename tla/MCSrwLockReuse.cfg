\* Three threads, two lock calls each: a wait block is used a second time.
SPECIFICATION SafetySpec
CONSTANTS
  t1 = t1
  t2 = t2
  t3 = t3
  t4 = t4
  Threads <- ThreeThreads
  Nobody = Nobody
  Wild = Wild
  MaxTurns = 2
SYMMETRY Symmetry
INVARIANTS
  WokenOwns
