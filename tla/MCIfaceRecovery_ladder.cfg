SPECIFICATION Spec
CONSTANTS
  a1 = a1
  IPs = {a1}
  None = None
  Cmd <- ShippedCmd
  Enabled = {1, 2, 3}
  Retry <- TwoTries
  Polls <- MixedPolls
  NumSim = 2
  PingTestEnable = TRUE
  DataTestEnable = TRUE
  WaitRounds = 1
  QCap = 1
  MaxDrops = 1
INVARIANT TypeOK
INVARIANT LadderInOrder
INVARIANT AttemptsWaited
INVARIANT OutageOwned
PROPERTY GiveUpOnlyExhausted
PROPERTY ImplementsLadder
