SPECIFICATION MCSpec
CONSTANTS
  Lower <- MCLower
  Rank <- MCRank
  Width = 4
  AddressOf <- MCAddressOf
  Spelled <- MCSpelled
  NumberIn <- MCNumberIn
  Written <- MCWritten
  Names <- MCNames
  NameOf <- MCNameOf
  Packets <- MCPackets
  Values <- MCValues
  Absent = Absent
  Colon = {"::1", "m:1"}
  Numeric <- MCNumeric
  Text <- MCText
  NoPort = 0
  Arriving <- MCArriving
  Filters = {{"TCP", "UDP"}}
  NoFilter = NoFilter
  TieOrders <- MCTies
  Unset = Unset
  MinBuckets = 2
  StartBuckets = 3
  MaxBuckets = 4
  ContentHeight = 1
  MaxPackets = 2
  MaxKeys = 3
  AddressIn <- MCAddressIn
  Frames <- MCFrames
  Capacity = 2
  Keys = {0, 1, 2}
  Slots = {"whole", "field"}
  Texts = {"t1", "t2"}
  MaxUses = 5
INVARIANTS
  DissectSound
  EvalSound
  StatsSound
PROPERTIES
  LruSpec
CHECK_DEADLOCK FALSE
