SPECIFICATION Spec
CONSTANTS
  Temps = {1, 2, 3}
  FreezeTemp = 1
  MaxTemp = 3
  Texts = {1, 3}
  DebounceMs = 1
  Gaps = {1, 2}
INVARIANTS
  TypeOK
  SafeRelay
PROPERTIES
  ModeIsTheUsers
