\* Only the button: the countdown is right.
CONSTANTS
  PromptDelay = 3
  GestureDelay = 1
  SleepTime = 1
  WdtGap = 0
  Inputs <- ButtonOnly
SPECIFICATION Spec
PROPERTY FreshCountdown
\* The mug may switch itself off.
CHECK_DEADLOCK FALSE
