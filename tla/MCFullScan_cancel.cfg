\* One worker, three ports: more than the worker and the buffer take.
SPECIFICATION FairSpec
CONSTANTS
  w1 = w1
  w2 = w2
  www = www
  mail = mail
  Ports <- ThreePorts
  Threads <- One
  Prefixes <- Names
  NoPort = NoPort
PROPERTIES CancelReturns
\* The process exits after the report, and the port scan can hang.
CHECK_DEADLOCK FALSE
