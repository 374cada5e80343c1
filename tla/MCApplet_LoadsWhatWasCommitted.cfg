SPECIFICATION Spec
CONSTANTS
  a = a
  b = b
  Byte = {a, b}
  Blank = a
  Over <- NewByte
  Blocks <- MCPayloads
  Sizes = {0, 3}
  MaxSize = 3
  Nums = {0, 1, 2}
  Versions = {"1.2"}
  NULL = NULL
  FixedSize = FALSE
  PalFailures = {}
PROPERTIES LoadsWhatWasCommitted
