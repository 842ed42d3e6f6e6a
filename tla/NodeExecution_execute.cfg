SPECIFICATION FairSpec
CONSTANTS
  Nodes <- MCNodes
  Files <- MCFiles
  Dir = "dir"
  Scenarios <- MCScenarios
CHECK_DEADLOCK FALSE
INVARIANTS
  IncrementalEqualsClean
  GeneratedInputsAreFresh
  GuaranteedMeansUnchanged
PROPERTIES
  RecordIsEarned
  BuildEnds
