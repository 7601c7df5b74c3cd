SPECIFICATION Spec
CONSTANTS
  a1 = a1
  a2 = a2
  IPs = {a1, a2}
  None = None
  Cmd <- ShippedCmd
  Enabled = {1}
  Retry <- OneTry
  Polls <- OnePoll
  NumSim = 2
  PingTestEnable = TRUE
  DataTestEnable = TRUE
  WaitRounds = 2
  QCap = 2
  MaxDrops = 1
INVARIANT FailureNotified
