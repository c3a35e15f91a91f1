\* Every input, the watchdog between any two steps.
CONSTANTS
  PromptDelay = 1
  GestureDelay = 2
  SleepTime = 1
  WdtGap = 0
  Inputs <- AllInputs
SPECIFICATION Spec
INVARIANTS TypeOK BatteryCheckReturns OneSendPerGesture TerminalOwnsConsole IInv
PROPERTY ImplementsModes
\* The mug may switch itself off.
CHECK_DEADLOCK FALSE
