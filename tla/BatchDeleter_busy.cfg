SPECIFICATION FairSpec
CONSTANTS
  N = 1
  CommitInterval = {1, 2}
  DeleteInterval = {2, 3}
  Limit = 1
CHECK_DEADLOCK FALSE
PROPERTY CommitsUnderLoad
