-------------------------------- MODULE Mug --------------------------------
(***************************************************************************)
(* The mug's main loop (Code/Mug/firmware/main.c) with the two interrupts  *)
(* that write its state: the watchdog, which overwrites currentState with  *)
(* CHECK_BATTERY once a second, and the button, which writes buttonState.  *)
(*                                                                         *)
(* pc names the place main has reached.  A step of main contains at most   *)
(* one access to a variable an interrupt writes (currentState,             *)
(* previousState, buttonState, activityTimer) or is one ATOMIC_BLOCK, so   *)
(* an interrupt may fall between any two accesses.                         *)
(***************************************************************************)
EXTENDS Integers

CONSTANTS
  PromptDelay,    \* the 5000 ms of POWER_DOWN and SWITCH_CONSOLE, in ticks
  GestureDelay,   \* samples between two accepted gestures (100 in the code)
  SleepTime,      \* aMug.config.sleepTime, in watchdog periods
  WdtGap,         \* passes of the main loop between two watchdog interrupts
  Inputs          \* what the environment of this instance may do

AllInputs ==
  {"short", "long", "usb", "radio", "moving", "gesture", "q", "a", "s"}

ASSUME MugAssumption ==
  /\ PromptDelay \in Nat \ {0} /\ GestureDelay \in Nat \ {0}
  /\ SleepTime \in Nat \ {0} /\ WdtGap \in Nat
  /\ Inputs \subseteq AllInputs

VARIABLES
  pc, newState, cached, return,       \* main and its call of mugSetCurrentState
  currentState, previousState,        \* aMug's state, written by both sides
  buttonState,                        \* the one unread button event
  usbHost, usbHostConnected,          \* the pin, and what main last read there
  console,                            \* position of the console switch
  pdElapsed, scElapsed,               \* static elapsed: 0 unarmed, else age + 1
  selected, msgState, msgSendDelay,   \* msgIndex # EMPTY, a received message
  powerState, currentPowerState,      \* wanted and shown screen contrast
  activityTimer, sinceWdt,
  owed                                \* history: a gesture not yet sent

callVars  == <<newState, cached, return>>
stateVars == <<currentState, previousState>>
hostVars  == <<usbHost, usbHostConnected, console>>
timerVars == <<pdElapsed, scElapsed>>
msgVars   == <<selected, msgState, msgSendDelay, owed>>
powerVars == <<powerState, currentPowerState, activityTimer>>
vars == <<pc, callVars, stateVars, buttonState, hostVars, timerVars, msgVars,
          powerVars, sinceWdt>>

Modes == {"INIT", "IDLE", "SWITCH_CONSOLE", "SWITCH_CONSOLE_ACCEPT",
          "SWITCH_CONSOLE_CANCEL", "TERMINAL", "GESTURE_IS_VALID", "POWER_DOWN"}
States == Modes \cup {"CHECK_BATTERY"}

Labels == {"boot", "poll", "dispatch", "host", "restore", "offer", "send", "line",
           "button", "short", "cycled", "long", "clear", "gate", "message",
           "accel", "moved", "wake", "compare", "store", "commit", "off"}

Least(x, y) == IF x < y THEN x ELSE y

-----------------------------------------------------------------------------
(* mugSetCurrentState: one load of currentState, then the two stores.      *)

(* previousState takes what was loaded, not a second load. *)
SavedStateReloaded == currentState
SavedState == cached

Call(new, next) ==
  /\ newState' = new /\ return' = next /\ pc' = "compare" /\ UNCHANGED cached
Goto(label) == pc' = label /\ UNCHANGED callVars
Return ==       \* the frame is gone: its registers are dead
  /\ pc' = return /\ newState' = "INIT" /\ cached' = "INIT" /\ return' = "poll"

SetCompare ==
  /\ pc = "compare"
  /\ \/ newState = currentState /\ Return
     \/ /\ newState # currentState
        /\ cached' = currentState /\ pc' = "store"
        /\ UNCHANGED <<newState, return>>
  /\ UNCHANGED <<stateVars, buttonState, hostVars, timerVars, msgVars, powerVars, sinceWdt>>

SetStorePrevious ==
  /\ pc = "store" /\ previousState' = SavedState /\ Goto("commit")
  /\ UNCHANGED <<currentState, buttonState, hostVars, timerVars, msgVars, powerVars, sinceWdt>>

SetStoreCurrent ==
  /\ pc = "commit" /\ currentState' = newState /\ Return
  /\ UNCHANGED <<previousState, buttonState, hostVars, timerVars, msgVars, powerVars, sinceWdt>>

-----------------------------------------------------------------------------
(* Activity and the screen's contrast.                                     *)

ResetActivity == powerState' = "AWAKE" /\ activityTimer' = 0
(* mugResetActivity(); mugWakeUpIfNeeded(): the timer is too young to dim. *)
ResetAndWake == ResetActivity /\ currentPowerState' = "AWAKE"

(* The contrast command that brings the screen to powerState. *)
ContrastForgotten == currentPowerState
Contrast == powerState

WakeUpIfNeeded ==
  /\ pc = "wake" /\ Goto("poll")
  /\ IF powerState # currentPowerState
       THEN currentPowerState' = Contrast /\ UNCHANGED powerState
       ELSE /\ powerState' = IF activityTimer > SleepTime THEN "SAVE" ELSE powerState
            /\ UNCHANGED currentPowerState
  /\ UNCHANGED <<activityTimer, stateVars, buttonState, hostVars, timerVars, msgVars, sinceWdt>>

-----------------------------------------------------------------------------
(* main up to its loop: the button interrupt is enabled at the end of it.  *)

Boot ==
  /\ pc = "boot"
  /\ usbHostConnected' = usbHost /\ ResetActivity
  /\ Call("IDLE", "poll")
  /\ UNCHANGED <<usbHost, console, currentPowerState, stateVars, buttonState, timerVars,
                 msgVars, sinceWdt>>

(* A message of five characters or more replaces the one not yet shown. *)
Poll ==
  /\ pc = "poll" /\ Goto("dispatch")
  /\ \/ UNCHANGED msgState
     \/ "radio" \in Inputs /\ msgState' = "HAS_MSG"
  /\ sinceWdt' = Least(sinceWdt + 1, WdtGap)
  /\ UNCHANGED <<selected, msgSendDelay, owed, stateVars, buttonState, hostVars, timerVars,
                 powerVars>>

(* The switch of main, one action per state that has work to do. *)
DispatchPlain ==
  /\ pc = "dispatch"
  /\ \/ currentState = "GESTURE_IS_VALID" /\ Goto("send")
     \/ currentState = "CHECK_BATTERY" /\ Goto("host")
     \/ currentState = "TERMINAL" /\ Goto("line")
     \/ currentState \in {"INIT", "IDLE"} /\ Goto("button")
  /\ UNCHANGED <<stateVars, buttonState, hostVars, timerVars, msgVars, powerVars, sinceWdt>>

(* mugSwitchConsoleTo, and a mutant that lost the TTY_TERMINAL case. *)
SwitchConsoleToDefault(side) == console' = "OLED"
SwitchConsoleTo(side) == console' = side

(* A timer's first pass arms it; a mutant forgets the start. *)
ArmedNever(t) == t
Armed(t) == IF t = 0 THEN 1 ELSE t
(* A timer that is let go; a mutant that keeps it. *)
DisarmedNot(t) == t
Disarmed(t) == 0

(* mugShutdown: the console switch goes back to the display, then the power *)
(* is cut.                                                                  *)
Shutdown == SwitchConsoleTo("OLED") /\ Goto("off")

(* mugPowerDown(5000): show the notice and start, or go down when it is over. *)
DispatchPowerDown ==
  /\ pc = "dispatch" /\ currentState = "POWER_DOWN"
  /\ \/ pdElapsed > PromptDelay /\ Shutdown
     \/ pdElapsed <= PromptDelay /\ Goto("button") /\ UNCHANGED console
  /\ pdElapsed' = Armed(pdElapsed)
  /\ UNCHANGED <<scElapsed, usbHost, usbHostConnected, stateVars, buttonState, msgVars,
                 powerVars, sinceWdt>>

(* switchToConsole(5000). *)
DispatchSwitchConsole ==
  /\ pc = "dispatch" /\ currentState = "SWITCH_CONSOLE"
  /\ \/ /\ scElapsed > PromptDelay
        /\ scElapsed' = Disarmed(scElapsed) /\ Call("SWITCH_CONSOLE_CANCEL", "button")
     \/ /\ scElapsed <= PromptDelay
        /\ scElapsed' = Armed(scElapsed) /\ Goto("offer")
  /\ UNCHANGED <<pdElapsed, stateVars, buttonState, hostVars, msgVars, powerVars, sinceWdt>>

OfferStands ==      \* return aMug.currentState
  /\ pc = "offer" /\ Call(currentState, "button")
  /\ UNCHANGED <<stateVars, buttonState, hostVars, timerVars, msgVars, powerVars, sinceWdt>>

DispatchAccept ==
  /\ pc = "dispatch" /\ currentState = "SWITCH_CONSOLE_ACCEPT"
  /\ SwitchConsoleTo("TERMINAL") /\ Call("TERMINAL", "button")
  /\ UNCHANGED <<usbHost, usbHostConnected, stateVars, buttonState, timerVars, msgVars,
                 powerVars, sinceWdt>>

DispatchCancel ==
  /\ pc = "dispatch" /\ currentState = "SWITCH_CONSOLE_CANCEL"
  /\ SwitchConsoleTo("OLED") /\ Call("IDLE", "button")
  /\ UNCHANGED <<usbHost, usbHostConnected, stateVars, buttonState, timerVars, msgVars,
                 powerVars, sinceWdt>>

(* What a change of the cable asks for; mutants that lose one side of it. *)
HostStateKeepsConsole == "SWITCH_CONSOLE"
HostState == IF usbHost THEN "SWITCH_CONSOLE" ELSE "SWITCH_CONSOLE_CANCEL"
KnownHostForgotten == usbHostConnected
KnownHost == usbHost

(* updateBatteryStatus: mugCheckUSBHost, then back to the interrupted state. *)
CheckUSBHost ==
  /\ pc = "host"
  /\ IF usbHost = usbHostConnected THEN Goto("restore")
     ELSE Call(HostState, "restore")
  /\ usbHostConnected' = KnownHost
  /\ UNCHANGED <<usbHost, console, stateVars, buttonState, timerVars, msgVars, powerVars,
                 sinceWdt>>

ResumedStateIdle == "IDLE"
ResumedState == previousState
RestoreState ==     \* mugSetCurrentState(aMug.previousState)
  /\ pc = "restore" /\ Call(ResumedState, "button")
  /\ UNCHANGED <<stateVars, buttonState, hostVars, timerVars, msgVars, powerVars, sinceWdt>>

SentStateKept == currentState
SentState == "IDLE"

(* mugSendMessage and the state change after it, in one ATOMIC_BLOCK. *)
SendMessage ==
  /\ pc = "send" /\ Goto("button")
  /\ owed' = FALSE
  /\ currentState' = SentState
  /\ previousState' = IF currentState = SentState THEN previousState ELSE currentState
  /\ UNCHANGED <<selected, msgState, msgSendDelay, buttonState, hostVars, timerVars, powerVars,
                 sinceWdt>>

(* mugTerminal: the commands that change the mug's state write currentState *)
(* directly, previousState stays.                                           *)
TerminalLine ==
  /\ pc = "line"
  /\ \/ "s" \in Inputs /\ Shutdown /\ UNCHANGED currentState
     \/ /\ \/ UNCHANGED currentState
           \/ "q" \in Inputs /\ currentState' = "SWITCH_CONSOLE_CANCEL"
           \/ "a" \in Inputs /\ currentState' = "IDLE"
        /\ Goto("button") /\ UNCHANGED console
  /\ UNCHANGED <<previousState, buttonState, usbHost, usbHostConnected, timerVars, msgVars, powerVars, sinceWdt>>

-----------------------------------------------------------------------------
(* mugIdleState: the button, the received message, the accelerometer.      *)

ReadButton ==
  /\ pc = "button"
  /\ IF buttonState = "none"
       THEN Goto("gate") /\ UNCHANGED powerVars
       ELSE Goto(buttonState) /\ ResetAndWake
  /\ UNCHANGED <<stateVars, buttonState, hostVars, timerVars, msgVars, sinceWdt>>

(* mugHandleShortButtonPress *)
ShortPress ==
  /\ pc = "short"
  /\ \/ /\ currentState = "SWITCH_CONSOLE"
        /\ scElapsed' = Disarmed(scElapsed) /\ Call("SWITCH_CONSOLE_ACCEPT", "clear")
        /\ UNCHANGED <<pdElapsed, selected>>
     \/ /\ currentState = "POWER_DOWN"
        /\ pdElapsed' = Disarmed(pdElapsed) /\ Call("IDLE", "clear")
        /\ UNCHANGED <<scElapsed, selected>>
     \/ /\ currentState \notin {"SWITCH_CONSOLE", "POWER_DOWN"}
        /\ selected' \in BOOLEAN /\ Goto("cycled")
        /\ UNCHANGED timerVars
  /\ UNCHANGED <<msgState, msgSendDelay, owed, stateVars, buttonState, hostVars, powerVars,
                 sinceWdt>>

NextMessageShown ==     \* newState = aMug.currentState
  /\ pc = "cycled" /\ Call(currentState, "clear")
  /\ UNCHANGED <<stateVars, buttonState, hostVars, timerVars, msgVars, powerVars, sinceWdt>>

(* mugHandleLongButtonPress *)
LongPress ==
  /\ pc = "long"
  /\ Call(IF currentState = "TERMINAL" THEN "SWITCH_CONSOLE_CANCEL" ELSE "POWER_DOWN",
          "clear")
  /\ UNCHANGED <<stateVars, buttonState, hostVars, timerVars, msgVars, powerVars, sinceWdt>>

NoPressKept == buttonState
NoPress == "none"
ClearButton ==
  /\ pc = "clear" /\ buttonState' = NoPress /\ Goto("gate")
  /\ UNCHANGED <<stateVars, hostVars, timerVars, msgVars, powerVars, sinceWdt>>

Gate ==
  /\ pc = "gate"
  /\ Goto(IF currentState \in {"INIT", "TERMINAL"} THEN "poll" ELSE "message")
  /\ UNCHANGED <<stateVars, buttonState, hostVars, timerVars, msgVars, powerVars, sinceWdt>>

ShownMessageKept == "HAS_MSG"
ShownMessage == "NO_MSG"
ShowMessage ==
  /\ pc = "message" /\ Goto("accel")
  /\ IF msgState = "HAS_MSG"
       THEN ResetAndWake /\ msgState' = ShownMessage
       ELSE UNCHANGED <<powerVars, msgState>>
  /\ UNCHANGED <<selected, msgSendDelay, owed, stateVars, buttonState, hostVars, timerVars,
                 sinceWdt>>

(* if (--aMug.msgSendDelay <= 0) aMug.msgSendDelay = 0, and a mutant that  *)
(* drops the floor.                                                        *)
DecrementedBelow(delay) == delay - 1
Decremented(delay) == IF delay = 0 THEN 0 ELSE delay - 1

(* mugProcessAccelVector, when the sampling interval has passed: the mug   *)
(* lay still, moved, or made a gesture.                                    *)
Sample ==
  /\ pc = "accel"
  /\ LET delay == Decremented(msgSendDelay)
     IN \/ Goto("wake") /\ UNCHANGED <<msgSendDelay, owed, powerVars>>
        \/ Goto("wake") /\ msgSendDelay' = delay /\ UNCHANGED <<owed, powerVars>>
        \/ /\ "moving" \in Inputs
           /\ Goto("wake") /\ msgSendDelay' = delay
           /\ ResetActivity /\ UNCHANGED <<owed, currentPowerState>>
        \/ /\ "gesture" \in Inputs
           /\ ResetActivity /\ UNCHANGED currentPowerState
           /\ IF delay = 0
                THEN /\ Call("GESTURE_IS_VALID", "moved")
                     /\ msgSendDelay' = GestureDelay /\ owed' = TRUE
                ELSE /\ Goto("wake") /\ msgSendDelay' = delay /\ UNCHANGED owed
  /\ UNCHANGED <<selected, msgState, stateVars, buttonState, hostVars, timerVars, sinceWdt>>

GestureMoved ==     \* the mugResetActivity after an accepted gesture
  /\ pc = "moved" /\ Goto("wake") /\ ResetActivity
  /\ UNCHANGED <<currentPowerState, stateVars, buttonState, hostVars, timerVars, msgVars,
                 sinceWdt>>

-----------------------------------------------------------------------------
(* The interrupts and the world.                                           *)

WatchdogInterrupt ==
  /\ pc # "off" /\ sinceWdt = WdtGap /\ sinceWdt' = 0
  /\ IF currentState \in {"INIT", "CHECK_BATTERY"}
       THEN UNCHANGED stateVars
       ELSE previousState' = currentState /\ currentState' = "CHECK_BATTERY"
  /\ activityTimer' = Least(activityTimer + 1, SleepTime + 1)
  /\ UNCHANGED <<pc, callVars, buttonState, hostVars, timerVars, msgVars, powerState,
                 currentPowerState>>

ButtonInterrupt ==
  /\ pc \notin {"boot", "off"}
  /\ buttonState' \in Inputs \cap {"short", "long"}
  /\ UNCHANGED <<pc, callVars, stateVars, hostVars, timerVars, msgVars, powerVars, sinceWdt>>

UsbCable ==
  /\ pc # "off" /\ "usb" \in Inputs /\ usbHost' = ~usbHost
  /\ UNCHANGED <<pc, callVars, stateVars, buttonState, usbHostConnected, console, timerVars,
                 msgVars, powerVars, sinceWdt>>

(* Time passes for the timers that are armed; an age beyond the delay is   *)
(* not told apart.                                                         *)
Aged(t) == IF t = 0 THEN 0 ELSE Least(t + 1, PromptDelay + 1)
Tick ==
  /\ pc # "off"
  /\ pdElapsed' = Aged(pdElapsed) /\ scElapsed' = Aged(scElapsed)
  /\ UNCHANGED <<pc, callVars, stateVars, buttonState, hostVars, msgVars, powerVars, sinceWdt>>

-----------------------------------------------------------------------------
Init ==
  /\ pc = "boot" /\ newState = "INIT" /\ cached = "INIT" /\ return = "poll"
  /\ currentState = "INIT" /\ previousState = "INIT"
  /\ buttonState = "none"
  /\ usbHost \in BOOLEAN /\ usbHostConnected = FALSE /\ console = "OLED"
  /\ pdElapsed = 0 /\ scElapsed = 0
  /\ selected = FALSE /\ msgState = "NO_MSG" /\ msgSendDelay = 0 /\ owed = FALSE
  /\ powerState = "SAVE" /\ currentPowerState = "AWAKE" /\ activityTimer = 0
  /\ sinceWdt = 0

Main == \/ Boot \/ Poll
        \/ DispatchPlain \/ DispatchPowerDown \/ DispatchSwitchConsole \/ OfferStands
        \/ DispatchAccept \/ DispatchCancel \/ CheckUSBHost \/ RestoreState
        \/ SendMessage \/ TerminalLine
        \/ ReadButton \/ ShortPress \/ NextMessageShown \/ LongPress \/ ClearButton
        \/ Gate \/ ShowMessage \/ Sample \/ GestureMoved \/ WakeUpIfNeeded
        \/ SetCompare \/ SetStorePrevious \/ SetStoreCurrent

Next == Main \/ WatchdogInterrupt \/ ButtonInterrupt \/ UsbCable \/ Tick

Spec == Init /\ [][Next]_vars

(* The CPU runs, the watchdog and the clock are hardware timers.  Nothing  *)
(* is assumed of the user, the cable or the radio.                         *)
FairSpec == Spec /\ WF_vars(Main) /\ WF_vars(Tick)
                 /\ SF_vars(pc = "dispatch" /\ WatchdogInterrupt)

-----------------------------------------------------------------------------
(* The mode the mug is in, the battery check left out: the state that      *)
(* CHECK_BATTERY will restore, or the one mugSetCurrentState is about to   *)
(* store when it has already overwritten that.                             *)
Mode == IF currentState # "CHECK_BATTERY" THEN currentState
        ELSE IF previousState # "CHECK_BATTERY" THEN previousState ELSE newState

Promise == INSTANCE MugModes WITH mode <- Mode, powered <- pc # "off"

(* Every variable keeps to the values the code gives it; the debounce      *)
(* counter, an int8_t that is decremented before it is tested, never goes  *)
(* below zero.                                                             *)
TypeOK ==
  /\ pc \in Labels /\ return \in Labels
  /\ newState \in States /\ cached \in States
  /\ currentState \in States /\ previousState \in States
  /\ buttonState \in {"none", "short", "long"}
  /\ usbHost \in BOOLEAN /\ usbHostConnected \in BOOLEAN
  /\ console \in {"OLED", "TERMINAL"}
  /\ pdElapsed \in 0..PromptDelay + 1 /\ scElapsed \in 0..PromptDelay + 1
  /\ selected \in BOOLEAN /\ owed \in BOOLEAN
  /\ msgState \in {"NO_MSG", "HAS_MSG"}
  /\ msgSendDelay \in 0..GestureDelay
  /\ powerState \in {"AWAKE", "SAVE"} /\ currentPowerState \in {"AWAKE", "SAVE"}
  /\ activityTimer \in 0..SleepTime + 1
  /\ sinceWdt \in 0..WdtGap

(* The battery check always has a state to go back to: CHECK_BATTERY is    *)
(* never its own previousState, which would repeat the check for ever.     *)
(* Only the stores of a mugSetCurrentState that leaves CHECK_BATTERY pass  *)
(* through that pair, and the watchdog may fire between any two of them.   *)
BatteryCheckReturns ==
  currentState = "CHECK_BATTERY" /\ previousState = "CHECK_BATTERY"
    => pc = "commit" /\ newState # "CHECK_BATTERY"

(* A gesture is sent once: the mug is in GESTURE_IS_VALID, or inside       *)
(* mugSendMessage, only for a gesture not sent before, whatever battery    *)
(* checks interrupt it and restore the state.                              *)
OneSendPerGesture == Mode = "GESTURE_IS_VALID" \/ pc = "send" => owed

(* The terminal reads the console UART only while the switch connects it   *)
(* to the host: it never takes the display's answers for commands.         *)
TerminalOwnsConsole ==
  (Mode = "TERMINAL" /\ pc # "off") \/ pc = "line" => console = "TERMINAL"

(* The battery check is invisible: with it left out, the modes change as   *)
(* MugModes says and in no other way.                                      *)
ImplementsModes == Promise!Spec

(* A countdown ends: the mug goes down or leaves POWER_DOWN. *)
CountdownEnds == Mode = "POWER_DOWN" ~> Mode # "POWER_DOWN" \/ pc = "off"

(* The offer of the console ends, accepted or not. *)
OfferEnds == Mode = "SWITCH_CONSOLE" ~> Mode # "SWITCH_CONSOLE" \/ pc = "off"

(* A press is consumed. *)
PressConsumed == buttonState # "none" ~> buttonState = "none" \/ pc = "off"

(* A change of the host cable is noticed, or taken back before it was. *)
HostNoticed == usbHost # usbHostConnected ~> usbHost = usbHostConnected \/ pc = "off"

(* When the host goes away the console returns to the display. *)
ConsoleReturned ==
  ~usbHost /\ console = "TERMINAL" ~> usbHost \/ console = "OLED" \/ pc = "off"

(* A mug that is left alone outside the terminal dims its screen for good. *)
LeftAloneDims ==
  <>[](buttonState = "none" /\ Mode # "TERMINAL" /\ pc # "off")
    => <>[](currentPowerState = "SAVE")

(* A received message is shown, unless the terminal has the main loop. *)
ReceivedShown ==
  msgState = "HAS_MSG" ~> msgState = "NO_MSG" \/ Mode = "TERMINAL" \/ pc = "off"

(* "Shutdown in %d seconds": every entry into POWER_DOWN starts a new      *)
(* countdown, so that the notice is shown and its time is given.           *)
FreshCountdown ==
  [][Mode # "POWER_DOWN" /\ Mode' = "POWER_DOWN" => pdElapsed' = 0]_vars

(* "To switch to console press button within 5 seconds": every offer gives *)
(* its full time.                                                          *)
FreshOffer ==
  [][Mode # "SWITCH_CONSOLE" /\ Mode' = "SWITCH_CONSOLE" => scElapsed' = 0]_vars

(* "Press button to cancel": a short press handled during a countdown      *)
(* cancels it.                                                             *)
PressCancels ==
  [][pc = "short" /\ Mode = "POWER_DOWN" /\ pc' # "short"
       => pc' = "compare" /\ newState' = "IDLE"]_vars
=============================================================================
