SPECIFICATION Spec
CONSTANTS
  Numbers = {1}
  Names <- ShortAndLong
  DefaultName <- CompiledName
  NameMax = 2
  MaxKeys = 5
  MaxAnnounced = 2
  MaxRefused = 1
  NULL = NULL
INVARIANTS
  TypeOK
  RestartKeepsIdentity
  AnnouncementOrdered
  FactoryIsWhole
