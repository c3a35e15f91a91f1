----------------------------- MODULE MugProofs -----------------------------
(***************************************************************************)
(* Proofs about Mug: its invariants hold, and it implements MugModes, for  *)
(* every delay, every sleep time and every set of inputs.                  *)
(*                                                                         *)
(* IInv (module MugInv) is inductive: TypeStep, CheckSafeStep, CheckStep   *)
(* and ModeStep each preserve a part of it, one case per action.  The      *)
(* theorems at the end follow from it by temporal reasoning alone; the one *)
(* about countdowns has an invariant of its own.                           *)
(***************************************************************************)
EXTENDS MugInv, TLAPS

(* Every step keeps the variables in the values of TypeOK. *)
LEMMA TypeStep == TypeOK /\ [Next]_vars => TypeOK'
<1> SUFFICES ASSUME TypeOK, [Next]_vars PROVE TypeOK'
  OBVIOUS
<1> USE MugAssumption DEF TypeOK, Labels, States, Modes, Goto, Call,
        callVars, stateVars, hostVars, timerVars, msgVars, powerVars
<1>1. CASE Boot
  BY <1>1 DEF Boot, ResetActivity
<1>2. CASE Poll
  BY <1>2 DEF Poll, Least
<1>3. CASE DispatchPlain
  BY <1>3 DEF DispatchPlain
<1>4. CASE DispatchPowerDown
  BY <1>4 DEF DispatchPowerDown, Armed, Shutdown, SwitchConsoleTo
<1>5. CASE DispatchSwitchConsole
  BY <1>5 DEF DispatchSwitchConsole, Armed, Disarmed
<1>6. CASE OfferStands
  BY <1>6 DEF OfferStands
<1>7. CASE DispatchAccept
  BY <1>7 DEF DispatchAccept, SwitchConsoleTo
<1>8. CASE DispatchCancel
  BY <1>8 DEF DispatchCancel, SwitchConsoleTo
<1>9. CASE CheckUSBHost
  BY <1>9 DEF CheckUSBHost, HostState, KnownHost
<1>10. CASE RestoreState
  BY <1>10 DEF RestoreState, ResumedState
<1>11. CASE SendMessage
  <2>1. currentState' \in States /\ previousState' \in States
    BY <1>11 DEF SendMessage, SentState
  <2>2. owed' \in BOOLEAN
    BY <1>11, Zenon DEF SendMessage
  <2> QED
    BY <2>1, <2>2, <1>11 DEF SendMessage
<1>12. CASE TerminalLine
  BY <1>12 DEF TerminalLine, Shutdown, SwitchConsoleTo
<1>13. CASE ReadButton
  BY <1>13 DEF ReadButton, ResetAndWake, ResetActivity
<1>14. CASE ShortPress
  BY <1>14 DEF ShortPress, Disarmed
<1>15. CASE NextMessageShown
  BY <1>15 DEF NextMessageShown
<1>16. CASE LongPress
  BY <1>16 DEF LongPress
<1>17. CASE ClearButton
  BY <1>17 DEF ClearButton, NoPress
<1>18. CASE Gate
  BY <1>18 DEF Gate
<1>19. CASE ShowMessage
  BY <1>19 DEF ShowMessage, ResetAndWake, ResetActivity, ShownMessage
<1>20. CASE Sample
  <2>1. Decremented(msgSendDelay) \in 0..GestureDelay
    BY DEF Decremented
  <2>2. msgSendDelay' \in 0..GestureDelay
    BY <2>1, <1>20 DEF Sample
  <2>3. owed' \in BOOLEAN
    BY <1>20, Zenon DEF Sample
  <2>4. powerState' \in {"AWAKE", "SAVE"} /\ activityTimer' \in 0..SleepTime + 1
    BY <1>20 DEF Sample, ResetActivity
  <2> QED
    BY <2>2, <2>3, <2>4, <1>20 DEF Sample
<1>21. CASE GestureMoved
  BY <1>21 DEF GestureMoved, ResetActivity
<1>22. CASE WakeUpIfNeeded
  BY <1>22 DEF WakeUpIfNeeded, Contrast
<1>23. CASE SetCompare
  BY <1>23 DEF SetCompare, Return
<1>24. CASE SetStorePrevious
  BY <1>24 DEF SetStorePrevious, SavedState
<1>25. CASE SetStoreCurrent
  BY <1>25 DEF SetStoreCurrent, Return
<1>26. CASE WatchdogInterrupt
  BY <1>26 DEF WatchdogInterrupt, Least
<1>27. CASE ButtonInterrupt
  BY <1>27 DEF ButtonInterrupt
<1>28. CASE UsbCable
  BY <1>28 DEF UsbCable
<1>29. CASE Tick
  BY <1>29 DEF Tick, Aged, Least
<1>30. CASE UNCHANGED vars
  BY <1>30 DEF vars
<1> QED
  BY <1>1, <1>2, <1>3, <1>4, <1>5, <1>6, <1>7, <1>8, <1>9, <1>10, <1>11, <1>12, <1>13, <1>14,
     <1>15, <1>16, <1>17, <1>18, <1>19, <1>20, <1>21, <1>22, <1>23, <1>24, <1>25, <1>26, <1>27,
     <1>28, <1>29, <1>30 DEF Next, Main

(* Every step keeps what the registers of mugSetCurrentState say of the    *)
(* state, and with it that CHECK_BATTERY never is its own previousState.   *)
LEMMA CheckSafeStep == CheckSafe /\ [Next]_vars => RegisterInv' /\ BatteryCheckReturns'
<1> SUFFICES ASSUME CheckSafe, [Next]_vars PROVE RegisterInv' /\ BatteryCheckReturns'
  OBVIOUS
<1> USE DEF CheckSafe, RegisterInv, BatteryCheckReturns, Goto, Call, callVars, stateVars
<1>1. CASE Boot
  BY <1>1 DEF Boot, ResetActivity
<1>2. CASE Poll
  BY <1>2 DEF Poll, Least
<1>3. CASE DispatchPlain
  BY <1>3 DEF DispatchPlain
<1>4. CASE DispatchPowerDown
  BY <1>4 DEF DispatchPowerDown, Armed, Shutdown, SwitchConsoleTo
<1>5. CASE DispatchSwitchConsole
  BY <1>5 DEF DispatchSwitchConsole, Armed, Disarmed
<1>6. CASE OfferStands
  BY <1>6 DEF OfferStands
<1>7. CASE DispatchAccept
  BY <1>7 DEF DispatchAccept, SwitchConsoleTo
<1>8. CASE DispatchCancel
  BY <1>8 DEF DispatchCancel, SwitchConsoleTo
<1>9. CASE CheckUSBHost
  BY <1>9 DEF CheckUSBHost, HostState, KnownHost
<1>10. CASE RestoreState
  BY <1>10 DEF RestoreState, ResumedState
<1>11. CASE SendMessage
  BY <1>11 DEF SendMessage, SentState
<1>12. CASE TerminalLine
  BY <1>12 DEF TerminalLine, Shutdown, SwitchConsoleTo
<1>13. CASE ReadButton
  BY <1>13 DEF ReadButton, TypeOK
<1>14. CASE ShortPress
  BY <1>14 DEF ShortPress, Disarmed
<1>15. CASE NextMessageShown
  BY <1>15 DEF NextMessageShown
<1>16. CASE LongPress
  BY <1>16 DEF LongPress
<1>17. CASE ClearButton
  BY <1>17 DEF ClearButton, NoPress
<1>18. CASE Gate
  BY <1>18 DEF Gate
<1>19. CASE ShowMessage
  BY <1>19 DEF ShowMessage, ResetAndWake, ResetActivity, ShownMessage
<1>20. CASE Sample
  BY <1>20 DEF Sample, Decremented, ResetActivity
<1>21. CASE GestureMoved
  BY <1>21 DEF GestureMoved, ResetActivity
<1>22. CASE WakeUpIfNeeded
  BY <1>22 DEF WakeUpIfNeeded, Contrast
<1>23. CASE SetCompare
  BY <1>23 DEF SetCompare, Return
<1>24. CASE SetStorePrevious
  BY <1>24 DEF SetStorePrevious, SavedState
<1>25. CASE SetStoreCurrent
  BY <1>25 DEF SetStoreCurrent, Return
<1>26. CASE WatchdogInterrupt
  BY <1>26 DEF WatchdogInterrupt, Least
<1>27. CASE ButtonInterrupt
  BY <1>27 DEF ButtonInterrupt
<1>28. CASE UsbCable
  BY <1>28 DEF UsbCable
<1>29. CASE Tick
  BY <1>29 DEF Tick, Aged, Least
<1>30. CASE UNCHANGED vars
  BY <1>30 DEF vars
<1> QED
  BY <1>1, <1>2, <1>3, <1>4, <1>5, <1>6, <1>7, <1>8, <1>9, <1>10, <1>11, <1>12, <1>13, <1>14,
     <1>15, <1>16, <1>17, <1>18, <1>19, <1>20, <1>21, <1>22, <1>23, <1>24, <1>25, <1>26, <1>27,
     <1>28, <1>29, <1>30 DEF Next, Main
(* Every step keeps the facts on booting and on the battery check. *)
LEMMA CheckStep == IInv /\ [Next]_vars => BootInv' /\ CheckInv'
<1> SUFFICES ASSUME IInv, [Next]_vars PROVE BootInv' /\ CheckInv'
  OBVIOUS
<1> USE DEF IInv, CheckSafe, RegisterInv, BatteryCheckReturns, BootInv, CheckInv, Booting, InCall,
        Goto, Call, callVars, stateVars
<1>1. CASE Boot
  BY <1>1 DEF Boot, ResetActivity
<1>2. CASE Poll
  BY <1>2 DEF Poll, Least
<1>3. CASE DispatchPlain
  BY <1>3 DEF DispatchPlain
<1>4. CASE DispatchPowerDown
  BY <1>4 DEF DispatchPowerDown, Armed, Shutdown, SwitchConsoleTo
<1>5. CASE DispatchSwitchConsole
  BY <1>5 DEF DispatchSwitchConsole, Armed, Disarmed
<1>6. CASE OfferStands
  BY <1>6 DEF OfferStands
<1>7. CASE DispatchAccept
  BY <1>7 DEF DispatchAccept, SwitchConsoleTo
<1>8. CASE DispatchCancel
  BY <1>8 DEF DispatchCancel, SwitchConsoleTo
<1>9. CASE CheckUSBHost
  BY <1>9 DEF CheckUSBHost, HostState, KnownHost
<1>10. CASE RestoreState
  BY <1>10 DEF RestoreState, ResumedState
<1>11. CASE SendMessage
  BY <1>11 DEF SendMessage, SentState
<1>12. CASE TerminalLine
  BY <1>12 DEF TerminalLine, Shutdown, SwitchConsoleTo
<1>13. CASE ReadButton
  BY <1>13 DEF ReadButton, TypeOK
<1>14. CASE ShortPress
  BY <1>14 DEF ShortPress, Disarmed
<1>15. CASE NextMessageShown
  BY <1>15 DEF NextMessageShown
<1>16. CASE LongPress
  BY <1>16 DEF LongPress
<1>17. CASE ClearButton
  BY <1>17 DEF ClearButton, NoPress
<1>18. CASE Gate
  BY <1>18 DEF Gate
<1>19. CASE ShowMessage
  BY <1>19 DEF ShowMessage, ResetAndWake, ResetActivity, ShownMessage
<1>20. CASE Sample
  BY <1>20 DEF Sample, Decremented, ResetActivity
<1>21. CASE GestureMoved
  BY <1>21 DEF GestureMoved, ResetActivity
<1>22. CASE WakeUpIfNeeded
  BY <1>22 DEF WakeUpIfNeeded, Contrast
<1>23. CASE SetCompare
  BY <1>23 DEF SetCompare, Return
<1>24. CASE SetStorePrevious
  BY <1>24 DEF SetStorePrevious, SavedState
<1>25. CASE SetStoreCurrent
  BY <1>25 DEF SetStoreCurrent, Return
<1>26. CASE WatchdogInterrupt
  BY <1>26 DEF WatchdogInterrupt, Least
<1>27. CASE ButtonInterrupt
  BY <1>27 DEF ButtonInterrupt
<1>28. CASE UsbCable
  BY <1>28 DEF UsbCable
<1>29. CASE Tick
  BY <1>29 DEF Tick, Aged, Least
<1>30. CASE UNCHANGED vars
  BY <1>30 DEF vars
<1> QED
  BY <1>1, <1>2, <1>3, <1>4, <1>5, <1>6, <1>7, <1>8, <1>9, <1>10, <1>11, <1>12, <1>13, <1>14,
     <1>15, <1>16, <1>17, <1>18, <1>19, <1>20, <1>21, <1>22, <1>23, <1>24, <1>25, <1>26, <1>27,
     <1>28, <1>29, <1>30 DEF Next, Main

(* Every step keeps what the handlers rely on: the mode they run in, the    *)
(* changes of mode that are under way, the console switch and the gesture.  *)
LEMMA ModeStep == IInv /\ [Next]_vars => HandlerInv' /\ EdgeInv' /\ ConsoleInv' /\ OwedInv'
<1> SUFFICES ASSUME IInv, [Next]_vars PROVE HandlerInv' /\ EdgeInv' /\ ConsoleInv' /\ OwedInv'
  OBVIOUS
<1> USE DEF IInv, CheckSafe, RegisterInv, BatteryCheckReturns, BootInv, CheckInv, Booting, InCall,
        HandlerInv, EdgeInv, Edge, ConsoleInv, OwedInv, Mode, hostVars, msgVars,
        Goto, Call, callVars, stateVars
<1>1. CASE Boot
  BY <1>1 DEF Boot, ResetActivity
<1>2. CASE Poll
  BY <1>2 DEF Poll, Least
<1>3. CASE DispatchPlain
  BY <1>3 DEF DispatchPlain
<1>4. CASE DispatchPowerDown
  BY <1>4 DEF DispatchPowerDown, Armed, Shutdown, SwitchConsoleTo
<1>5. CASE DispatchSwitchConsole
  BY <1>5 DEF DispatchSwitchConsole, Armed, Disarmed
<1>6. CASE OfferStands
  BY <1>6 DEF OfferStands
<1>7. CASE DispatchAccept
  BY <1>7 DEF DispatchAccept, SwitchConsoleTo
<1>8. CASE DispatchCancel
  BY <1>8 DEF DispatchCancel, SwitchConsoleTo
<1>9. CASE CheckUSBHost
  BY <1>9 DEF CheckUSBHost, HostState, KnownHost
<1>10. CASE RestoreState
  BY <1>10 DEF RestoreState, ResumedState
<1>11. CASE SendMessage
  BY <1>11 DEF SendMessage, SentState
<1>12. CASE TerminalLine
  BY <1>12 DEF TerminalLine, Shutdown, SwitchConsoleTo
<1>13. CASE ReadButton
  BY <1>13 DEF ReadButton, TypeOK
<1>14. CASE ShortPress
  BY <1>14 DEF ShortPress, Disarmed
<1>15. CASE NextMessageShown
  BY <1>15 DEF NextMessageShown
<1>16. CASE LongPress
  BY <1>16 DEF LongPress
<1>17. CASE ClearButton
  BY <1>17 DEF ClearButton, NoPress
<1>18. CASE Gate
  BY <1>18 DEF Gate
<1>19. CASE ShowMessage
  BY <1>19 DEF ShowMessage, ResetAndWake, ResetActivity, ShownMessage
<1>20. CASE Sample
  BY <1>20 DEF Sample, Decremented, ResetActivity
<1>21. CASE GestureMoved
  BY <1>21 DEF GestureMoved, ResetActivity
<1>22. CASE WakeUpIfNeeded
  BY <1>22 DEF WakeUpIfNeeded, Contrast
<1>23. CASE SetCompare
  BY <1>23 DEF SetCompare, Return
<1>24. CASE SetStorePrevious
  BY <1>24 DEF SetStorePrevious, SavedState
<1>25. CASE SetStoreCurrent
  BY <1>25 DEF SetStoreCurrent, Return
<1>26. CASE WatchdogInterrupt
  BY <1>26 DEF WatchdogInterrupt, Least
<1>27. CASE ButtonInterrupt
  BY <1>27 DEF ButtonInterrupt
<1>28. CASE UsbCable
  BY <1>28 DEF UsbCable
<1>29. CASE Tick
  BY <1>29 DEF Tick, Aged, Least
<1>30. CASE UNCHANGED vars
  BY <1>30 DEF vars
<1> QED
  BY <1>1, <1>2, <1>3, <1>4, <1>5, <1>6, <1>7, <1>8, <1>9, <1>10, <1>11, <1>12, <1>13, <1>14,
     <1>15, <1>16, <1>17, <1>18, <1>19, <1>20, <1>21, <1>22, <1>23, <1>24, <1>25, <1>26, <1>27,
     <1>28, <1>29, <1>30 DEF Next, Main
(* A change of mode along an Edge is a step of MugModes, or no change. *)
LEMMA EdgeAllowed ==
  ASSUME Edge(Mode, Mode'), Mode' # "CHECK_BATTERY", console' = console,
         pc # "off", pc' # "off"
  PROVE  [Promise!Next]_(Promise!vars)
BY DEF Edge, Promise!Next, Promise!vars, Promise!Enter, Promise!Booted, Promise!HostPlugged,
       Promise!HostPulled, Promise!OfferAccepted, Promise!EnterTerminal,
       Promise!ConsoleCancelled, Promise!LongPress, Promise!Cancelled, Promise!Gesture

(* Every step of Mug is a step of MugModes or leaves its variables alone:   *)
(* the stores of mugSetCurrentState change the mode, everything around them *)
(* and both interrupts do not.                                              *)
LEMMA ModesStep == IInv /\ [Next]_vars => [Promise!Next]_(Promise!vars)
<1> SUFFICES ASSUME IInv, [Next]_vars PROVE [Promise!Next]_(Promise!vars)
  OBVIOUS
<1> USE DEF IInv, CheckSafe, RegisterInv, BatteryCheckReturns, BootInv, CheckInv, Booting, InCall,
        HandlerInv, EdgeInv, ConsoleInv, Mode, hostVars,
        Goto, Call, callVars, stateVars,
        Promise!Next, Promise!vars, Promise!Enter
<1>1. CASE Boot
  BY <1>1 DEF Boot, ResetActivity
<1>2. CASE Poll
  BY <1>2 DEF Poll, Least
<1>3. CASE DispatchPlain
  BY <1>3 DEF DispatchPlain
<1>4. CASE DispatchPowerDown
  BY <1>4 DEF DispatchPowerDown, Armed, Shutdown, SwitchConsoleTo, Promise!PowerOff
<1>5. CASE DispatchSwitchConsole
  BY <1>5 DEF DispatchSwitchConsole, Armed, Disarmed
<1>6. CASE OfferStands
  BY <1>6 DEF OfferStands
<1>7. CASE DispatchAccept
  BY <1>7 DEF DispatchAccept, SwitchConsoleTo, Promise!SwitchToTerminal
<1>8. CASE DispatchCancel
  BY <1>8 DEF DispatchCancel, SwitchConsoleTo, Promise!SwitchToDisplay
<1>9. CASE CheckUSBHost
  BY <1>9 DEF CheckUSBHost, HostState, KnownHost
<1>10. CASE RestoreState
  BY <1>10 DEF RestoreState, ResumedState
<1>11. CASE SendMessage
  BY <1>11 DEF SendMessage, SentState, Promise!Sent
<1>12. CASE TerminalLine
  BY <1>12 DEF TerminalLine, Shutdown, SwitchConsoleTo, Promise!PowerOff, Promise!LeaveTerminal
<1>13. CASE ReadButton
  BY <1>13 DEF ReadButton, TypeOK
<1>14. CASE ShortPress
  BY <1>14 DEF ShortPress, Disarmed
<1>15. CASE NextMessageShown
  BY <1>15 DEF NextMessageShown
<1>16. CASE LongPress
  BY <1>16 DEF LongPress
<1>17. CASE ClearButton
  BY <1>17 DEF ClearButton, NoPress
<1>18. CASE Gate
  BY <1>18 DEF Gate
<1>19. CASE ShowMessage
  BY <1>19 DEF ShowMessage, ResetAndWake, ResetActivity, ShownMessage
<1>20. CASE Sample
  BY <1>20 DEF Sample, Decremented, ResetActivity
<1>21. CASE GestureMoved
  BY <1>21 DEF GestureMoved, ResetActivity
<1>22. CASE WakeUpIfNeeded
  BY <1>22 DEF WakeUpIfNeeded, Contrast
<1>23. CASE SetCompare
  BY <1>23 DEF SetCompare, Return
<1>24. CASE SetStorePrevious
  <2>1. pc # "off" /\ pc' # "off" /\ console' = console
    BY <1>24 DEF SetStorePrevious
  <2>2. Edge(Mode, newState) /\ Mode' \in {Mode, newState} /\ Mode' # "CHECK_BATTERY"
    BY <1>24 DEF SetStorePrevious, SavedState
  <2> HIDE DEF Mode
  <2>3. Edge(Mode, Mode')
    BY <2>2 DEF Edge
  <2> QED
    BY <2>1, <2>2, <2>3, EdgeAllowed
<1>25. CASE SetStoreCurrent
  <2>1. pc # "off" /\ pc' # "off" /\ console' = console
    BY <1>25 DEF SetStoreCurrent, Return
  <2>2. Edge(Mode, newState) /\ Mode' \in {Mode, newState} /\ Mode' # "CHECK_BATTERY"
    BY <1>25 DEF SetStoreCurrent, Return
  <2> HIDE DEF Mode
  <2>3. Edge(Mode, Mode')
    BY <2>2 DEF Edge
  <2> QED
    BY <2>1, <2>2, <2>3, EdgeAllowed
<1>26. CASE WatchdogInterrupt
  BY <1>26 DEF WatchdogInterrupt, Least
<1>27. CASE ButtonInterrupt
  BY <1>27 DEF ButtonInterrupt
<1>28. CASE UsbCable
  BY <1>28 DEF UsbCable
<1>29. CASE Tick
  BY <1>29 DEF Tick, Aged, Least
<1>30. CASE UNCHANGED vars
  BY <1>30 DEF vars
<1> QED
  BY <1>1, <1>2, <1>3, <1>4, <1>5, <1>6, <1>7, <1>8, <1>9, <1>10, <1>11, <1>12, <1>13, <1>14,
     <1>15, <1>16, <1>17, <1>18, <1>19, <1>20, <1>21, <1>22, <1>23, <1>24, <1>25, <1>26, <1>27,
     <1>28, <1>29, <1>30 DEF Next, Main

(* The inductive invariant holds in every reachable state of main.c's loop. *)
THEOREM Invariance == Spec => []IInv
<1>1. Init => IInv
  <2>1. Init => TypeOK
    <3>1. Init => usbHostConnected \in BOOLEAN /\ selected \in BOOLEAN /\ owed \in BOOLEAN
      BY Zenon DEF Init
    <3> QED
      BY <3>1, MugAssumption DEF Init, TypeOK, Labels, States, Modes
  <2>2. Init => RegisterInv /\ BatteryCheckReturns
    BY DEF Init, RegisterInv, BatteryCheckReturns
  <2>3. Init => BootInv /\ CheckInv /\ HandlerInv /\ EdgeInv /\ OwedInv /\ ConsoleInv
    BY DEF Init, BootInv, CheckInv, HandlerInv, EdgeInv, OwedInv, ConsoleInv, Booting, InCall, Mode
  <2> QED
    BY <2>1, <2>2, <2>3 DEF IInv, CheckSafe
<1>2. IInv /\ [Next]_vars => IInv'
  BY TypeStep, CheckSafeStep, CheckStep, ModeStep DEF IInv, CheckSafe
<1> QED
  BY <1>1, <1>2, PTL DEF Spec

(* The variables keep to their types; the debounce counter stays above 0. *)
THEOREM TypeCorrect == Spec => []TypeOK
<1>1. IInv => TypeOK
  BY DEF IInv, CheckSafe
<1> QED
  BY <1>1, Invariance, PTL

(* The watchdog, wherever it interrupts mugSetCurrentState, never makes     *)
(* CHECK_BATTERY the state that the battery check goes back to.             *)
THEOREM BatteryCheckAlwaysReturns == Spec => []BatteryCheckReturns
<1>1. IInv => BatteryCheckReturns
  BY DEF IInv, CheckSafe
<1> QED
  BY <1>1, Invariance, PTL

(* A gesture is never sent twice by a restored GESTURE_IS_VALID. *)
THEOREM GestureSentOnce == Spec => []OneSendPerGesture
<1>1. IInv => OneSendPerGesture
  BY DEF IInv, OwedInv, HandlerInv, OneSendPerGesture
<1> QED
  BY <1>1, Invariance, PTL

(* mugTerminal never reads the UART while the switch points at the display. *)
THEOREM TerminalOnConsole == Spec => []TerminalOwnsConsole
<1>1. IInv => TerminalOwnsConsole
  BY DEF IInv, ConsoleInv, HandlerInv, TerminalOwnsConsole
<1> QED
  BY <1>1, Invariance, PTL

(* The mug's modes change only as MugModes allows: the battery check and    *)
(* the interrupts are invisible in them.                                    *)
THEOREM ModesImplemented == Spec => ImplementsModes
<1>1. Init => Promise!Init
  BY DEF Init, Promise!Init, Mode
<1>2. IInv /\ [Next]_vars => [Promise!Next]_(Promise!vars)
  BY ModesStep
<1> QED
  BY <1>1, <1>2, Invariance, PTL DEF Spec, ImplementsModes, Promise!Spec

-----------------------------------------------------------------------------
(***************************************************************************)
(* A mug whose user touches nothing but the button gives every countdown   *)
(* its time, for every delay and wherever the interrupts fall.  With other *)
(* inputs it does not (run mug_stale_countdown).                           *)
(***************************************************************************)
ButtonAlone == Inputs \subseteq {"short", "long"}

(* Without cable and gestures the mug is idle or counting down; what a     *)
(* call is about to store is one of the two, or the check that is there    *)
(* already; and the countdown's start is forgotten whenever the mug is not *)
(* counting down, and as soon as it is about to stop.                      *)
CountdownInv ==
  /\ pc = "boot" \/ usbHostConnected = usbHost
  /\ Mode \in {"INIT", "IDLE", "POWER_DOWN"}
  /\ pc \notin {"send", "line", "offer", "moved"}
  /\ pc = "restore" => currentState = "CHECK_BATTERY"
  /\ InCall =>
       /\ return \notin {"restore", "moved"}
       /\ newState \in {"IDLE", "POWER_DOWN", "CHECK_BATTERY"}
       /\ newState = "CHECK_BATTERY" => pc = "compare" /\ currentState = "CHECK_BATTERY"
  /\ Mode # "POWER_DOWN" \/ (InCall /\ newState = "IDLE") => pdElapsed = 0

LEMMA CountdownBegins == Init => CountdownInv
BY DEF Init, CountdownInv, InCall, Mode

(* Every step keeps it, and comes to POWER_DOWN with no start. *)
LEMMA CountdownStep ==
  ASSUME ButtonAlone, IInv, CountdownInv, [Next]_vars
  PROVE  CountdownInv' /\ (Mode # "POWER_DOWN" => pdElapsed' = 0)
<1> USE DEF IInv, CheckSafe, RegisterInv, BatteryCheckReturns, BootInv, CheckInv, Booting, InCall,
        CountdownInv, ButtonAlone, Mode, hostVars, timerVars,
        Goto, Call, callVars, stateVars
<1>1. CASE Boot
  BY <1>1 DEF Boot, ResetActivity
<1>2. CASE Poll
  BY <1>2 DEF Poll, Least
<1>3. CASE DispatchPlain
  BY <1>3 DEF DispatchPlain
<1>4. CASE DispatchPowerDown
  BY <1>4 DEF DispatchPowerDown, Armed, Shutdown, SwitchConsoleTo
<1>5. CASE DispatchSwitchConsole
  BY <1>5 DEF DispatchSwitchConsole
<1>6. CASE OfferStands
  BY <1>6 DEF OfferStands
<1>7. CASE DispatchAccept
  BY <1>7 DEF DispatchAccept
<1>8. CASE DispatchCancel
  BY <1>8 DEF DispatchCancel
<1>9. CASE CheckUSBHost
  BY <1>9 DEF CheckUSBHost, KnownHost
<1>10. CASE RestoreState
  BY <1>10 DEF RestoreState, ResumedState
<1>11. CASE SendMessage
  BY <1>11 DEF SendMessage
<1>12. CASE TerminalLine
  BY <1>12 DEF TerminalLine
<1>13. CASE ReadButton
  BY <1>13 DEF ReadButton, TypeOK
<1>14. CASE ShortPress
  BY <1>14 DEF ShortPress, Disarmed
<1>15. CASE NextMessageShown
  BY <1>15 DEF NextMessageShown
<1>16. CASE LongPress
  BY <1>16 DEF LongPress
<1>17. CASE ClearButton
  BY <1>17 DEF ClearButton
<1>18. CASE Gate
  BY <1>18 DEF Gate
<1>19. CASE ShowMessage
  BY <1>19 DEF ShowMessage
<1>20. CASE Sample
  BY <1>20 DEF Sample
<1>21. CASE GestureMoved
  BY <1>21 DEF GestureMoved
<1>22. CASE WakeUpIfNeeded
  BY <1>22 DEF WakeUpIfNeeded
<1>23. CASE SetCompare
  BY <1>23 DEF SetCompare, Return
<1>24. CASE SetStorePrevious
  BY <1>24 DEF SetStorePrevious, SavedState
<1>25. CASE SetStoreCurrent
  BY <1>25 DEF SetStoreCurrent, Return
<1>26. CASE WatchdogInterrupt
  BY <1>26 DEF WatchdogInterrupt
<1>27. CASE ButtonInterrupt
  BY <1>27 DEF ButtonInterrupt
<1>28. CASE UsbCable
  BY <1>28 DEF UsbCable
<1>29. CASE Tick
  BY <1>29 DEF Tick, Aged
<1>30. CASE UNCHANGED vars
  BY <1>30 DEF vars
<1> QED
  BY <1>1, <1>2, <1>3, <1>4, <1>5, <1>6, <1>7, <1>8, <1>9, <1>10, <1>11, <1>12, <1>13, <1>14,
     <1>15, <1>16, <1>17, <1>18, <1>19, <1>20, <1>21, <1>22, <1>23, <1>24, <1>25, <1>26, <1>27,
     <1>28, <1>29, <1>30 DEF Next, Main

(* When the button is all the user touches, every countdown starts afresh:  *)
(* its notice is shown and its time is given.                               *)
THEOREM CountdownsFresh == ASSUME ButtonAlone PROVE Spec => FreshCountdown
<1>1. IInv /\ CountdownInv /\ [Next]_vars => CountdownInv'
  BY CountdownStep
<1>2. IInv /\ CountdownInv /\ [Next]_vars
        => [Mode # "POWER_DOWN" /\ Mode' = "POWER_DOWN" => pdElapsed' = 0]_vars
  BY CountdownStep
<1> QED
  BY <1>1, <1>2, CountdownBegins, Invariance, PTL DEF Spec, FreshCountdown
=============================================================================
