\* The sizes keep the order they have in the code: a chunk is less than the
\* factor, which is half of the greatest int; a file is several times that.
SPECIFICATION Spec
CONSTANTS
  Factor = 3
  IntMax = 7
  Chunk = 2
  Word = 64
  MaxTotal = 20
INVARIANTS
  TypeOK
  DeltaFits
  ToldKeepsUp
