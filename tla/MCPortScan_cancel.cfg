\* A cancel while the producer is still sending.
SPECIFICATION FairSpec
CONSTANTS
  w1 = w1
  w2 = w2
  Ports <- ThreePorts
  Threads <- Two
  NoPort = NoPort
PROPERTIES CancelReturns
\* The process exits after the report.
CHECK_DEADLOCK FALSE
