\* Three threads and two slots compete for one framed archive that is rewritten
\* once: two caches of one file can exist, and the list can be full.
SPECIFICATION SafetySpec
CONSTANTS
  main = main
  t1 = t1
  t2 = t2
  pax = pax
  framed = framed
  junk = junk
  Threads <- ThreeThreads
  MainThread = main
  NoThread = NoThread
  Files <- FramedOnly
  NoFile = NoFile
  ArcType <- TypeOfFramed
  MaxItems = 3
  MaxVersion = 2
SYMMETRY Symmetry
INVARIANTS
  TypeOK
  RefcountExact
  NoUseAfterFree
  GrantedIndexComplete
  ReadyMeansCurrent
  WaitedForBuilder
  NothingLeft
PROPERTIES
  PublishedFrozen
  ImplementsIndexService
