SPECIFICATION Spec
CONSTANTS
  Limit <- Limits
  Threshold = 2
  SwitchBack = FALSE
  LimitEnable = FALSE
  Resets = FALSE
  AtOnce = 2
  MaxUse = 4
  MaxReboots = 0
PROPERTY FinishedNeedsUse
