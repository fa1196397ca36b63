SPECIFICATION FairSpec
CONSTANTS
  u1 = u1
  u2 = u2
  u3 = u3
  u4 = u4
  u5 = u5
  u6 = u6
  Url = {u1, u2, u3, u4, u5}
  Bit <- Bits
  Hash <- OwnBits
  MaxRawUrls = 1
  MaxDnsUrls = 1
  MaxDepth = 2
  OffLimits = {}
  MaxJobs = 1
  Seeds <- OneSeed
  Links <- FanLinks
  Images <- NoImages
  Host <- WebHost
  SocketErrors = FALSE
PROPERTIES
  Terminates
  PushesGoOn
