\* One worker, three ports, two prefixes, a cancel at any moment.
SPECIFICATION FairSpec
CONSTANTS
  w1 = w1
  w2 = w2
  www = www
  mail = mail
  Ports <- ThreePorts
  Threads <- One
  Prefixes <- Names
  NoPort = NoPort
INVARIANTS TypeOK SectionsComplete
PROPERTIES KeepsPortPromise EndsOrStarves
\* The process exits after the report, and the port scan can hang.
CHECK_DEADLOCK FALSE
