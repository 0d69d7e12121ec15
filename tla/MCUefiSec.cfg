SPECIFICATION Spec
CONSTANTS
  Fd <- MCFd
  FallbackDirs = 3
INVARIANTS
  TypeOK
  SendOnLiveBuffer
  ZeroMeansDone
  NotMappedAtRest
  StandardFdsKept
PROPERTIES
  StartedOnce
  OneShotReturns
CHECK_DEADLOCK FALSE
