SPECIFICATION FairSpec
CONSTANTS
  s1 = s1
  s2 = s2
  a1 = a1
  a2 = a2
  Sessions <- MCSessions
  Activities <- OneActivity
  MaxThreads = 2
  MaxIterations = 1
  NoRef = NoRef
  Failures = {"globalRef", "workerThread", "workerAttach"}
INVARIANTS TypeOK Baton IdHandOff ArgsOutliveReaders
PROPERTIES TakeTurns EverySessionEnds
CHECK_DEADLOCK FALSE
