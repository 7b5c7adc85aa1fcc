SPECIFICATION MCSpec
CONSTANTS
  Client = {c, d}
  Time = {1, 2}
  Id = {1, 2}
  Limit = {0, 1}
  MaxVersion = 2
  Idle = Idle
  CassandraTime = {1, 2, 4}
  CassandraId = {1}
  CassandraLimit = {0}
  DynamoClient = {"range"}
  BatchSize = 1
SYMMETRY Symmetry
VIEW View
INVARIANTS
  TypeOK
  OneRowPerTimer
PROPERTIES
  FencedConditionally
  MovesAddNoRow
  DeletedIsGone
  NotExistsIsTrueNow
  UpdatedIsStored
  WritesAreWhole
  LateTimersSurvive
