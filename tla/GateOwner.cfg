SPECIFICATION FairSpec
CONSTANTS
  Off = Off
  MaxTime = 3
INVARIANTS
  TypeOK
  EarliestArmed
PROPERTIES
  NeverEarly
  FiringIsSignalled
