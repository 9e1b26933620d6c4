\* Three threads, one lock call each.
SPECIFICATION Spec
CONSTANTS
  t1 = t1
  t2 = t2
  t3 = t3
  t4 = t4
  Threads <- ThreeThreads
  Nobody = Nobody
  Wild = Wild
  MaxTurns = 1
INVARIANTS
  TypeOK
  WordAccounts
  ChainLockExclusive
  CodeAssertions
PROPERTIES
  ImplementsRwLock
  CallReturns
