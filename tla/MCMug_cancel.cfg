\* A press while a battery check is pending.
CONSTANTS
  PromptDelay = 1
  GestureDelay = 1
  SleepTime = 1
  WdtGap = 0
  Inputs <- ButtonOnly
SPECIFICATION Spec
PROPERTY PressCancels
\* The mug may switch itself off.
CHECK_DEADLOCK FALSE
