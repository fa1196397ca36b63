SPECIFICATION Spec
CONSTANTS
  u1 = u1
  u2 = u2
  u3 = u3
  u4 = u4
  u5 = u5
  u6 = u6
  Url = {u1, u2, u3, u4}
  Bit <- Bits
  Hash <- OwnBits
  MaxRawUrls = 1
  MaxDnsUrls = 1
  MaxDepth = 2
  OffLimits = {}
  MaxJobs = 2
  Seeds <- OneSeed
  Links <- WebLinks
  Images <- WebImages
  Host <- WebHost
  SocketErrors = FALSE
INVARIANTS
  ExitMeansComplete
