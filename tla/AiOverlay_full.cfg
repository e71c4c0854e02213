SPECIFICATION MCSpec
CONSTANTS
  Capacity = 1
  Packets = {0, 1}
  Bare <- MCBare
  Fields = {"layer", "field"}
  TopField = "layer"
  Whole = "whole"
  AutoScroll = TRUE
  MaxAsked = 2
  MaxDocs = 2
  None = None
  ConfigFiles <- MCConfigFiles
  Absent = Absent
  Garbled = Garbled
  LowerWord <- MCLowerWord
  UpperOf <- MCUpper
  OtherChars <- MCOthers
INVARIANTS
  OverlaySound
  KeysSound
PROPERTIES
  AnswerInPlace
  PendingAnswered
