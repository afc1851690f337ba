\* A Submit races the Shutdown of the owner.
SPECIFICATION Spec
CONSTANTS
  g1 = g1
  g2 = g2
  g3 = g3
  g4 = g4
  j1 = j1
  j2 = j2
  j3 = j3
  owner = owner
  client = client
  NoJob = NoJob
  Callers <- Cs
  Goroutines <- Gs
  Jobs <- Js
  Workers = 2
  QueueSize = 2
  Scripts <- OwnerScripts
  Collecting = {FALSE}
INVARIANTS SubmitNeverPanics
CHECK_DEADLOCK FALSE
