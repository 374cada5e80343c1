SPECIFICATION FairSpec
CONSTANTS
  a = a
  b = b
  Byte = {a, b}
  NULL = NULL
  NoDigest = NoDigest
  NoOffer = NoOffer
  Sizes = {0, 1, 2}
  Digests <- MCDigests
  Blocks <- MCBlocks
  Nums = {0, 1, 2}
  FactoryImage <- MCFactoryImage
  VerifySignature = TRUE
  PalFailures = {"begin", "write", "finish", "set_boot", "mark_valid"}
INVARIANTS
  SessionAccounting
  AlwaysBootable
PROPERTIES
  UpdateSpec
  CommitSettles
