SPECIFICATION PathFairSpec
CONSTANTS
  Flow <- MCFlow1
  Skb = {1}
  Cpu = {1}
  Hops = 2
  PerfMax = 2
  PollMax = 1
  IdleAge = 1
  SweepAge = 1
  PendingMax = 1
  PendingDropped = 1
  CompletedMax = 2
  CompletedDropped = 1
  Window = 2
  WindowDropped = 1
  TracePath = {TRUE}
  None = None
PROPERTY PathsComplete
CHECK_DEADLOCK FALSE
