SPECIFICATION Spec
CONSTANTS
  a = a
  b = b
  Instance <- MCInstance
  Nobody = Nobody
  MaxTime = 2
  Timer <- MCTimer
  MaxId = 2
  MinTimerDuration = 2
  Lag = 1
  MinLookAhead = 1
  Limit = 2
  MaxVersion = 3
  WriteErrors = TRUE
SYMMETRY Symmetry
INVARIANTS
  TypeOK
  NothingSkipped
PROPERTY NothingLost
