SPECIFICATION Spec
CONSTANTS
  u1 = u1
  u2 = u2
  u3 = u3
  u4 = u4
  u5 = u5
  u6 = u6
  Url = {u1, u2, u3, u4, u5, u6}
  Bit <- Bits
  Hash <- OverlappingBits
  MaxRawUrls = 2
  MaxDnsUrls = 1
  MaxDepth = 1
  OffLimits = {u4}
  MaxJobs = 3
  Seeds <- OneSeed
  Links <- WebLinks
  Images <- WebImages
  Host <- WebHost
  SocketErrors = TRUE
INVARIANTS
  TypeOK
  JobsCounted
  JobLimit
  SleepersJustified
  AtMostOnce
  OnlyWantedQueued
PROPERTIES
  ImplementsFrontier
