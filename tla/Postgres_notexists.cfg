SPECIFICATION MCSpec
CONSTANTS
  Client = {c, d}
  Time = {1, 2}
  Id = {1}
  Limit = {1}
  MaxVersion = 2
  Idle = Idle
PROPERTY NoRowMeansNoTimer
