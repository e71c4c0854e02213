SPECIFICATION MCFairSpec
CONSTANTS
  ChannelCapacity = 2
  DrainLimit = 1
  Kinds <- MCOneKind
  TracedKinds <- MCOneKind
  Filters <- NoFilters
  FollowTail = TRUE
  Files <- MCOneKindFiles
  MaxPackets = 3
  MaxStarts = 2
  None = None
  CliPackets = 3
  Traffic <- MCTraffic
  Limits = {2, 9}
  QueueMax = 2
  RecentMax = 2
  RecentDropped = 1
  MatchedMax = 1
  NoPath = NoPath
  Infos <- MCInfos
  MaxDay = 47600
INVARIANTS
  CliOutput
  ExportSound
PROPERTIES
  Delivered
  CaptureEnds
  CliEnds
