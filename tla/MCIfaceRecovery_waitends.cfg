SPECIFICATION FairSpec
CONSTANTS
  a1 = a1
  IPs = {a1}
  None = None
  Cmd <- ShippedCmd
  Enabled = {1}
  Retry <- OneTry
  Polls <- OnePoll
  NumSim = 2
  PingTestEnable = TRUE
  DataTestEnable = FALSE
  WaitRounds = 1
  QCap = 2
  MaxDrops = 1
PROPERTY WaitEnds
CHECK_DEADLOCK FALSE
