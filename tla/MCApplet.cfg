SPECIFICATION Spec
CONSTANTS
  a = a
  b = b
  Byte = {a, b}
  Blank = a
  Over <- NewByte
  Blocks <- MCBlocks
  Sizes = {0, 1, 3, 4}
  MaxSize = 3
  Nums = {0, 1, 2}
  Versions = {"1.2"}
  NULL = NULL
  FixedSize = FALSE
  PalFailures = {"erase", "write"}
INVARIANTS
  TypeOK
  PushMatchesReplies
PROPERTIES
  RunsWhatWasDeclared
