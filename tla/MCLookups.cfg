\* Three servers; lists of prefixes of both families with repetitions; four calls on a
\* topology of two systems; three changes of a registry of two plugins.
SPECIFICATION Spec
CONSTANTS
  Unset = Unset
  Blank = Blank
  Fail = Fail
  NoSelf = NoSelf
  Nobody = Nobody
  ServerLists <- SomeServers
  RecordLists <- SomeRecords
  BulkLists <- SomeBulks
  Texts <- SomeTexts
  Origins <- SomeOrigins
  ASAnswers <- SomeASAnswers
  Words <- SomeWords
  Beyond <- SomeBeyond
  Rows <- SomeRows
  Bodies <- SomeBodies
  Found = {"7", "0"}
  Lists <- SomeLists
  Systems = {"1", "2"}
  Countries = {"", "US"}
  Blocks = {"p", "q"}
  MaxCalls = 4
  Names = {"a", "b"}
  Versions = {1, 2}
  MaxWrites = 3
INVARIANTS TypeOK  StatsAddUp TopologyConsistent EveryPluginRuns
\* A command that has returned stops.
CHECK_DEADLOCK FALSE
