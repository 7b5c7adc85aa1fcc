SPECIFICATION FairSpec
CONSTANTS
  N = 1
  CommitInterval = {2, 3}
  DeleteInterval = {6, 7}
  Limit = 1
CHECK_DEADLOCK FALSE
PROPERTY DeletesHappen
