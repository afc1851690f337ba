\* One more path than workers.
SPECIFICATION FairSpec
CONSTANTS
  w1 = w1
  w2 = w2
  a = a
  b = b
  c = c
  Paths <- ThreePaths
  Threads <- Two
  Statuses <- Codes
  NoPath = NoPath
  NoThread = NoThread
PROPERTIES WaitEndsAfterTimeout
\* The process exits after the report, and the command can hang.
CHECK_DEADLOCK FALSE
