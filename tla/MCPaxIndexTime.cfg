SPECIFICATION Spec
CONSTANTS
  r1 = r1
  r2 = r2
  Readers <- MCReaders
  Items <- MCItems
  AllocSize = 400
  BlockHead = 8
  ItemHead = 72
  Slack = 32
  SizeField = 4
  MaxChars = 143
  MaxItems = 3
  BlockSize = 512
  OldSizeLimit = 4095
  TimeFieldEnd = 4096
  Tick = 100
  FracDigits = 2
  Epoch <- MCEpoch
  NoTime <- MCNoTime
  NameField = 100
  Files <- MCFiles
  Saves <- MCSaves
  MaxFiles = 3
  NsecJunk <- MCJunk
  CutAt <- MCCutAt
INVARIANTS
  TimesKept
CHECK_DEADLOCK FALSE
