\* A console session without gestures or long presses.
CONSTANTS
  PromptDelay = 1
  GestureDelay = 1
  SleepTime = 1
  WdtGap = 2
  Inputs <- Session
SPECIFICATION FairSpec
PROPERTIES PressConsumed ConsoleReturned ReceivedShown
\* The mug may switch itself off.
CHECK_DEADLOCK FALSE
