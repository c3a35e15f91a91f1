\* Three messages of four or five characters, one of them without its end.
CONSTANTS
  MinShown = 3
  MsgSize = 5
  FrameText = 4
  BufferSize = 8
  Lengths = {4, 5}
  MaxMessages = 3
  MaxLost = 1
SPECIFICATION Spec
INVARIANTS TypeOK LineFits ShownWhole
PROPERTIES ComesBack
\* A lost carriage return may leave the mug waiting, with no message to come.
CHECK_DEADLOCK FALSE
