SPECIFICATION MCFairSpec
CONSTANTS
  FileLengths <- MCFileLengths
  MaxNumber = 2
  MaxTimeouts = 2
  MaxRequests = 3
  MaxDocs = 1
  None = None
  Frames = {"f1", "f2"}
  MaxInstances = 3
  Processes = {"p", "q"}
  Connections <- MCConnections
  DnsEnds = {"dns"}
  FlowMax = 2
  MaxSeen = 2
  Nobody = Nobody
INVARIANTS
  DetailOfSelected
  InProgressShown
  PipeSound
  OwnerSound
PROPERTIES
  DeepOnlyForSelection
  WaitEnds
