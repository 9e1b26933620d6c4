\* Any sequence of calls, on an archive of each kind.
SPECIFICATION Spec
CONSTANTS
  Items <- MCItems
  Length = 3
INVARIANTS
  TypeOK
  KeptIsWhole
  ErrorLeavesNothing
  ExtractsListed
PROPERTIES
  CallReturns
