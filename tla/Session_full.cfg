SPECIFICATION Spec
CONSTANTS
  Path = {"one", "link", "two"}
  Canon <- MCCanon
  Disk0 <- MCDisk
  Missing = Missing
  Garbage = Garbage
  MaxRecent = 2
  MaxPackets = 1
  None = None
INVARIANTS
  UnmodifiedIsKept
  DialogSound
  RecentSound
PROPERTIES
  OnlyAFileReplaces
