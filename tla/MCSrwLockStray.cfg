\* Four threads, one lock call each: no wait block is used twice.
SPECIFICATION SafetySpec
CONSTANTS
  t1 = t1
  t2 = t2
  t3 = t3
  t4 = t4
  Threads <- FourThreads
  Nobody = Nobody
  Wild = Wild
  MaxTurns = 1
SYMMETRY Symmetry
INVARIANTS
  WokenOwns
