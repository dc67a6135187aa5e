SPECIFICATION Spec
CONSTANTS
  s1 = s1
  s2 = s2
  a1 = a1
  a2 = a2
  Sessions <- OneSession
  Activities <- MCActivities
  MaxThreads = 2
  MaxIterations = 2
  NoRef = NoRef
  Failures = {"mutexInit", "methodId", "coordThread", "coordAttach", "workerThread", "workerAttach", "callback"}
INVARIANT CallsAreGood
CHECK_DEADLOCK FALSE
