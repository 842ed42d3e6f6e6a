SPECIFICATION Spec
CONSTANTS
  Graphs <- MCGraphs
  Digests <- MCDigests
  Requests <- MCRequests
  Worlds <- MCWorlds
  Parents <- MCParents
  AnnotationRank <- MCAnnotationRank
  NameRank <- MCNameRank
  Lower <- MCLower
  CleanedPath <- MCCleanedPath
CHECK_DEADLOCK FALSE
INVARIANTS
  GraphKeepsItsMeaning
  CachedNodesSeeTheirSources
  OfflineHashIsStable
  UpToDateGraphIsCurrent
