\* A pulled cable leaves an offer behind.
CONSTANTS
  PromptDelay = 1
  GestureDelay = 1
  SleepTime = 1
  WdtGap = 0
  Inputs <- ButtonAndCable
SPECIFICATION Spec
PROPERTY FreshOffer
\* The mug may switch itself off.
CHECK_DEADLOCK FALSE
