\* A gesture leaves a countdown behind.
CONSTANTS
  PromptDelay = 1
  GestureDelay = 1
  SleepTime = 1
  WdtGap = 0
  Inputs <- ButtonAndMotion
SPECIFICATION Spec
PROPERTY FreshCountdown
\* The mug may switch itself off.
CHECK_DEADLOCK FALSE
