\* Three threads compete for the only slot: an archive that is a good or a bad
\* PAX, and one whose type is not recognised.
SPECIFICATION Spec
CONSTANTS
  main = main
  t1 = t1
  t2 = t2
  pax = pax
  framed = framed
  junk = junk
  Threads <- ThreeThreads
  MainThread = main
  NoThread = NoThread
  Files <- PaxAndJunk
  NoFile = NoFile
  ArcType <- TypeOfPaxAndJunk
  MaxItems = 2
  MaxVersion = 1
PROPERTIES
  CallReturns
