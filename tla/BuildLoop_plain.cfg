CONSTANTS
  gen = gen  a = a  b = b  dll = dll  app = app
  f1 = f1  f2 = f2  w1 = w1  w2 = w2  w3 = w3
  Main = Main  NoOne = NoOne  NoNode = NoNode
  Node <- Nodes  ToBuild <- NodeToBuild  ToUse <- NodeToUse  NodePoints <- Points
  File = {f1, f2}  NonGeneratedInputs <- Inputs  EarlyStatBatch = 1
  Worker = {w1, w2, w3}
  Requested = {app}
  Cacheable = {}
  AttemptCacheReads = FALSE  AttemptCacheWrites = FALSE
  DeferDagVerification = FALSE  StandardInputCanary = FALSE  ContinueOnFailure = TRUE
  SpuriousWakeups = {}
  Interruptible = FALSE
SPECIFICATION Spec
INVARIANTS
  TypeOK
  DependenciesFirst
  NoForgottenNode
  EnoughWorkersAwake
  ReturnedResultIsFinal
  FailureIsReported
  KeepsGoing
PROPERTIES
  ImplementsSchedule
CHECK_DEADLOCK FALSE
