SPECIFICATION MCFairSpec
CONSTANTS
  FileLengths <- MCFileLengths
  MaxNumber = 2
  MaxTimeouts = 2
  MaxRequests = 2
  MaxDocs = 1
  None = None
  Frames = {"f1", "f2"}
  MaxInstances = 3
  Processes = {"p", "q"}
  Connections <- MCConnections
  DnsEnds = {"dns"}
  FlowMax = 2
  MaxSeen = 2
  Nobody = Nobody
PROPERTY PendingResolves
