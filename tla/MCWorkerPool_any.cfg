\* Two callers, every pair of calls each, two workers per Start.
SPECIFICATION Spec
CONSTANTS
  g1 = g1
  g2 = g2
  g3 = g3
  g4 = g4
  j1 = j1
  j2 = j2
  j3 = j3
  owner = owner
  client = client
  NoJob = NoJob
  Callers <- Cs
  Goroutines <- Gs4
  Jobs <- Js
  Workers = 2
  QueueSize = 1
  Scripts <- AnyScripts
  Collecting = {TRUE}
SYMMETRY Symmetry
INVARIANTS TypeOK JobsPlaced ResultsAccounted JobsAccounted CountersExact
PROPERTIES ImplementsService
\* A pool nobody uses any more, or a process that panicked, stops.
CHECK_DEADLOCK FALSE
