SPECIFICATION Spec
CONSTANTS
  ChannelCapacity = 1
  DrainLimit = 1
  Kinds <- MCKinds
  TracedKinds <- MCTraced
  Filters <- NoFilters
  FollowTail = TRUE
  Files <- NoFiles
  MaxPackets = 4
  MaxStarts = 1
  None = None
INVARIANT TracesFiledByPosition
