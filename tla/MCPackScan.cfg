\* Two packings of one archive, scans of it at any moment, and the process killed.
SPECIFICATION Spec
CONSTANTS
  p1 = p1
  p2 = p2
  none = none
  Packers <- MCPackers
  None <- none
  AddList <- MCAddList
SYMMETRY Symmetry
INVARIANTS
  TypeOK
  NoDebris
  CompleteIsListed
  PaxzAllOrNothing
  ListedIsWhole
CHECK_DEADLOCK FALSE
