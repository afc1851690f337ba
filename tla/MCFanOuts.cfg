\* Two workers or none on lists of three, three queries, a tree three deep with two
\* names at each level.
SPECIFICATION Spec
CONSTANTS
  Unset = Unset
  w1 = w1
  w2 = w2
  q1 = q1
  q2 = q2
  q3 = q3
  Threads <- TwoThreads
  Blank = Blank
  NoJob = NoJob
  Queries <- ThreeQueries
  Lists <- SomeLists
  Level1 <- TwoNames
  Below <- TwoNames
INVARIANTS TypeOK ListAnswered AnswersJustified TreeComplete
PROPERTIES KeepsListPromise CommandsEnd
\* A command that has returned stops.
CHECK_DEADLOCK FALSE
