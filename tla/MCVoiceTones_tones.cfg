SPECIFICATION FairSpec
CONSTANTS
  MaxDtmf = 3
  MaxKeys = 4
  MaxHangups = 1
CHECK_DEADLOCK FALSE
INVARIANTS
  TypeOK
  TonesOnce
  ToneInItsCall
  NothingSkipped
  SleepsOverNothing
PROPERTIES
  TonesGetOut
