SPECIFICATION PathSpec
CONSTANTS
  Flow <- MCFlow
  Skb = {s1, s2}
  Cpu = {1,2}
  Hops = 2
  PerfMax = 2
  PollMax = 2
  IdleAge = 1
  SweepAge = 1
  PendingMax = 1
  PendingDropped = 1
  CompletedMax = 2
  CompletedDropped = 1
  Window = 2
  WindowDropped = 1
  TracePath = {TRUE, FALSE}
  None = None
SYMMETRY Alike
CONSTRAINT TwoPackets
INVARIANTS
  PathsSound
PROPERTIES
  MatchedToNewest
CHECK_DEADLOCK FALSE
