SPECIFICATION Spec
CONSTANTS
  Nodes <- MCNodes
  Files <- MCFiles
  Dir = "dir"
  Scenarios <- OverwriteScenarios
CHECK_DEADLOCK FALSE
INVARIANT NoSpuriousFailure
