SPECIFICATION Spec
CONSTANTS
  Fd <- MCFd
  FallbackDirs = 3
PROPERTY
  Periodic
CHECK_DEADLOCK FALSE
