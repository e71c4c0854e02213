SPECIFICATION Spec
CONSTANTS
  ChannelCapacity = 2
  DrainLimit = 1
  Kinds <- MCKinds
  TracedKinds <- MCTraced
  Filters <- MCFilters
  FollowTail = TRUE
  Files <- MCFiles
  MaxPackets = 4
  MaxStarts = 2
  None = None
INVARIANTS
  TypeOK
  FifoOrder
  Accounted
  NumbersArePositions
  ViewFollowsStore
  NoOrphanThread
  SaveableTimes
PROPERTIES
  LogSpec
