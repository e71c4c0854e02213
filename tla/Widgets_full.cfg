SPECIFICATION MCSpec
CONSTANTS
  Char = {"a", "u", " "}
  Blanks = {" "}
  Bytes <- MCBytes
  Valid <- MCValid
  Presets <- MCPresets
  SaveName <- MCSaveName
  ExportName <- MCSaveName
  MaxLen = 3
  Assumed <- MCAssumed
  MaxHeight = 4
  MaxRows = 5
  Page = 3
  Fast <- MCFast
  Deep <- MCDeep
  NoRange = NoRange
  Heights = {2, 4}
  Public = {"p1", "p2"}
  Special = {"s1"}
  NotIp = {"m"}
  Ends <- MCEnds
  CacheMax = 1
  Evicted = 1
  Unknown = Unknown
  Letter = {"o", "7", "f"}
  Keyword <- MCKeyword
  NumberOf <- MCNumberOf
  OpsOf <- MCOps
  Known = {"tcp"}
  Flags = {"syn"}
  Tokens <- MCTokens
  Core <- MCCore
  Chars <- MCChars
  MaxChars = 5
  MaxTokens = 4
  MaxCore = 6
INVARIANTS
  EntrySound
  TreeSound
  LookupSound
  LangSound
PROPERTIES
  IsZipper
  ListSteps
  TreeSteps
