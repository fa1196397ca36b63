SPECIFICATION FairSpec
CONSTANTS
  j2 = j2
  j3 = j3
  Job = {j2, j3}
  Lookup = {j2}
  Asks = {j3}
  Worker = {w1, w2, w3}
  Sizes = {1, 2}
  MaxSize = 2
CHECK_DEADLOCK FALSE
INVARIANTS
  TypeOK
  OneResult
  WorkersCounted
  ReactorWoken
  EnoughThreads
PROPERTIES
  ImplementsService
  AllAnswered
  StopReturns
