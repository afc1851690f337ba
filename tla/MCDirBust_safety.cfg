\* Two workers, three paths, the status codes around 400 and the errors worth listing.
SPECIFICATION FairSpec
CONSTANTS
  w1 = w1
  w2 = w2
  a = a
  b = b
  c = c
  Paths <- ThreePaths
  Threads <- Two
  Statuses <- Codes
  NoPath = NoPath
  NoThread = NoThread
INVARIANTS TypeOK ResponsesKept
PROPERTIES KeepsPromise EndsOrHangs
\* The process exits after the report, and the command can hang.
CHECK_DEADLOCK FALSE
