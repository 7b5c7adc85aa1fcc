SPECIFICATION FairSpec
CONSTANTS
  N = 3
  CommitInterval = {1, 2}
  DeleteInterval = {2, 3}
  Limit = 1
CHECK_DEADLOCK FALSE
INVARIANTS
  TypeOK
  OnlyCompletedDeleted
  RestartSkipsNothing
  CommittedIsStored
PROPERTY CommitsHappen
