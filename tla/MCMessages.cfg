\* Three messages, two writes, the power failing at any step.
CONSTANTS
  Count = 3
  MsgSize = 8
  FrameText = 5
  LineWidth = 3
  Fields <- MCFields
  FieldAt <- MCFieldAt
  FieldSize <- MCFieldSize
  SleepAt = 3
  ConfigSize = 4
  EepSize = 28
  Texts <- MCTexts
  Indices <- MCIndices
  Sleeps <- MCSleeps
  Junk <- MCJunk
  WildAddresses <- MCWild
  InitialEep <- MCInitialEep
  MaxWrites = 2
SPECIFICATION Spec
INVARIANTS TypeOK LinesFit OnlySpacesLost SelectionCurrent ConfigTerminated
PROPERTIES NothingSkipped WrapAdvances
