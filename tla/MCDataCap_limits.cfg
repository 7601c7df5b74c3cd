SPECIFICATION FairSpec
CONSTANTS
  Limit <- Limits
  Threshold = 2
  SwitchBack = TRUE
  LimitEnable = TRUE
  Resets = TRUE
  AtOnce = 1
  MaxUse = 4
  MaxReboots = 1
INVARIANT TypeOK
INVARIANT NeverOvercharged
PROPERTY LimitLeaves1
PROPERTY NoSwitchToFinished
PROPERTY LimitNotHalf
