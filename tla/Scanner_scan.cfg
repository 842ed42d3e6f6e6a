SPECIFICATION FairSpec
CONSTANTS
  Texts <- MCTexts
  Versions <- MCVersions
  Generated <- MCGenerated
  Scanners <- MCScanners
  Requests <- MCRequests
  KeyHash <- MCKeyHash
  KeyRank <- MCKeyRank
  FirstSize = 1
  KeepFor = 2
  Workers = {1, 2}
  MaxBuilds = 2
  MaxAccidents = 1
  Days = {1, 2}
CHECK_DEADLOCK FALSE
INVARIANTS
  IncludesAreFound
PROPERTIES
  SavingIsSound
  ScansEnd
