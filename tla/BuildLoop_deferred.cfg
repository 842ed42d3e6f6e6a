CONSTANTS
  gen = gen  a = a  b = b  dll = dll  app = app
  f1 = f1  f2 = f2  w1 = w1  w2 = w2  w3 = w3
  Main = Main  NoOne = NoOne  NoNode = NoNode
  Node <- ChainNodes  ToBuild <- ChainToBuild  ToUse <- ChainToUse  NodePoints <- ChainPoints
  File = {f1}  NonGeneratedInputs <- ChainInputs  EarlyStatBatch = 1
  Worker = {w1, w2}
  Requested = {app}
  Cacheable = {}
  AttemptCacheReads = FALSE  AttemptCacheWrites = FALSE
  DeferDagVerification = TRUE  StandardInputCanary = TRUE  ContinueOnFailure = FALSE
  SpuriousWakeups = {w1}
  Interruptible = TRUE
SPECIFICATION FairSpec
INVARIANTS
  NoLostWakeup
  OkMeansBuilt
PROPERTIES
  SStartsVerification
CHECK_DEADLOCK FALSE
