SPECIFICATION Spec
CONSTANTS
  MaxNumber = 1
  MaxDtmf = 1
  MaxCalls = 2
  MaxLifts = 2
  MaxKeys = 2
  MaxQueue = 3
INVARIANTS
  TypeOK
  ClearedAtRest
  DialsANumber
  TimerOnlyWaits
  RingsForACall
  AtRestWhenHungUp
PROPERTIES
  AnsweredNotMissed
CHECK_DEADLOCK FALSE
