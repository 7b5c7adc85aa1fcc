SPECIFICATION Spec
CONSTANTS
  Off = Off
  Id = {1, 2}
  MaxId = 2
  Horizon = 2
  MinLookAhead = 1
  MaxLookAhead = 2
  Limit = 2
  NilDbErrorIsNil = FALSE
  DbMayFail = FALSE
CHECK_DEADLOCK FALSE
PROPERTY ReadFindsOrLooksAhead
