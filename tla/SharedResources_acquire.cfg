SPECIFICATION FairSpec
CONSTANTS
  w1 = w1  w2 = w2  w3 = w3
  server = server  license = license
  upload = upload  sign = sign  publish = publish
  Worker = {w1, w2, w3}
  NoOne = NoOne
  Node = {upload, sign, publish}
  NoNode = NoNode
  Resource = {server, license}
  Uses <- McUses
  HasCreateAction = {server}
INVARIANTS
  CreatedOnce
  RunsWithResources
  NothingLeftBehind
CHECK_DEADLOCK FALSE
