\* Two callers, a bucket of one and a window of three ticks with two grants; two
\* keys and values, times to live of 0, 1 and 2; 24 retry configurations.
SPECIFICATION Spec
CONSTANTS
  c1 = c1
  c2 = c2
  k1 = k1
  k2 = k2
  v1 = v1
  v2 = v2
  Callers <- TwoCallers
  Burst = 1
  Rate = 2
  Window = 3
  Poll = 1
  MaxTime = 5
  CacheTime = 2
  Keys <- TwoKeys
  Values <- TwoValues
  TTLs <- ThreeTTLs
  Configs <- SomeConfigs
  Unset = Unset
INVARIANTS TypeOK TokensAccounted RateRespected Outcomes
PROPERTIES DenialsJustified ImplementsTTLMap WaitReturns ExpiredLeave
\* A loop that has returned, callers that have and a clock at its bound stop.
CHECK_DEADLOCK FALSE
