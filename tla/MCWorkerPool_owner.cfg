\* One owner starts the pool and may shut it down while the other caller submits; somebody
\* receives the results or nobody does.
SPECIFICATION FairSpec
CONSTANTS
  g1 = g1
  g2 = g2
  g3 = g3
  g4 = g4
  j1 = j1
  j2 = j2
  j3 = j3
  owner = owner
  client = client
  NoJob = NoJob
  Callers <- Cs
  Goroutines <- Gs
  Jobs <- Js3
  Workers = 2
  QueueSize = 1
  Scripts <- FairScripts
  Collecting = {TRUE, FALSE}
INVARIANTS QuietAfterWait
PROPERTIES StoppedPoolRefuses ShutdownWaitReturns EveryResultArrives
CHECK_DEADLOCK FALSE
