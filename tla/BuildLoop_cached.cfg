CONSTANTS
  gen = gen  a = a  b = b  dll = dll  app = app
  f1 = f1  f2 = f2  w1 = w1  w2 = w2  w3 = w3
  Main = Main  NoOne = NoOne  NoNode = NoNode
  Node <- Nodes  ToBuild <- NodeToBuild  ToUse <- NodeToUse  NodePoints <- Points
  File = {f1}  NonGeneratedInputs <- NoInputs  EarlyStatBatch = 1
  Worker = {w1, w2}
  Requested = {app, dll}
  Cacheable = {app, a}
  AttemptCacheReads = TRUE  AttemptCacheWrites = TRUE
  DeferDagVerification = FALSE  StandardInputCanary = TRUE  ContinueOnFailure = FALSE
  SpuriousWakeups = {Main}
  Interruptible = TRUE
SPECIFICATION FairSpec
INVARIANTS
  OneWorkerPerNode
PROPERTIES
  BuildTerminates
CHECK_DEADLOCK FALSE
