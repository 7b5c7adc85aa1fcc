SPECIFICATION MCSpec
CONSTANTS
  Policies <- TwoPhases
  ThrottlePolicy <- Throttle
  OpTime = {1, 7}
  MaxClock = 100
  MaxCount = 6
  Caller = {a, b, c}
  Nobody = Nobody
CHECK_DEADLOCK FALSE
INVARIANTS
  MCTypeOK
  NoAttemptAfterExpiration
  EndsWhenUsedUp
  SleepsAfterFailure
PROPERTIES
  DoReturnsAlways
  CallsReturn
