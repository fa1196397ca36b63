SPECIFICATION Spec
CONSTANTS
  MaxNumber = 2
  MaxDtmf = 1
  MaxCalls = 2
  MaxLifts = 2
  MaxKeys = 2
  MaxQueue = 2
PROPERTIES
  WakesUpThirdCall
CHECK_DEADLOCK FALSE
