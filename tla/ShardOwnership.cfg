SPECIFICATION FairSpec
CONSTANTS
  a = a
  b = b
  c = c
  Instance <- MCInstance
  Offset = {0, 1, 2}
  ZeroOffset = 0
  Nobody = Nobody
  MaxVersion = 4
  WriteErrors = TRUE
INVARIANTS
  TypeOK
  VersionsUnique
  VersionsBehind
PROPERTIES
  Fencing
  StaleOwnerStepsDown
