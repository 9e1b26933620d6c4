\* An archive whose last file is empty.
SPECIFICATION Spec
CONSTANTS
  p1 = p1
  p2 = p2
  none = none
  Packers <- MCPackers
  None <- none
  AddList <- MCAddList
SYMMETRY Symmetry
INVARIANTS
  PackedExtracts
CHECK_DEADLOCK FALSE
