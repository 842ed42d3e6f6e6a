SPECIFICATION Spec
CONSTANTS
  Nodes <- MCNodes
  Deps <- MCDeps
  Cacheable = {"lib", "app", "tool"}
  Scanning = {"obj"}
  Requested = {"app", "tool"}
  Inputs <- MCInputs
  Contents <- MCContents
  Includes <- MCIncludes
  HeaderIncludes <- MCHeaderIncludes
  Workers = {1, 2}
  Environments <- Writing
  MaxClientFailureCount = 1
  MaxBuilds = 2
  MaxEdits = 2
  MaxIntrusions = 0
  MaxErrors = 6
CHECK_DEADLOCK FALSE
INVARIANTS
  
  
  ClientIsGivenUp
PROPERTIES
  SignatureStays
