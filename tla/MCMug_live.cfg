\* Button and cable, with a watchdog slower than the main loop.
CONSTANTS
  PromptDelay = 1
  GestureDelay = 1
  SleepTime = 1
  WdtGap = 2
  Inputs <- ButtonAndCable
SPECIFICATION FairSpec
PROPERTIES CountdownEnds OfferEnds HostNoticed LeftAloneDims
\* The mug may switch itself off.
CHECK_DEADLOCK FALSE
