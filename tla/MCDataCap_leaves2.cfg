SPECIFICATION FairSpec
CONSTANTS
  Limit <- Limits
  Threshold = 2
  SwitchBack = TRUE
  LimitEnable = FALSE
  Resets = TRUE
  AtOnce = 1
  MaxUse = 4
  MaxReboots = 0
PROPERTY LimitLeaves2
