\* Two workers, three ports, a cancel at any moment.
SPECIFICATION FairSpec
CONSTANTS
  w1 = w1
  w2 = w2
  Ports <- ThreePorts
  Threads <- Two
  NoPort = NoPort
INVARIANTS TypeOK
PROPERTIES KeepsPromise EndsOrAbandoned
\* The process exits after the report.
CHECK_DEADLOCK FALSE
