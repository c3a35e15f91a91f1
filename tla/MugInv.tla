------------------------------- MODULE MugInv -------------------------------
(***************************************************************************)
(* The inductive invariant behind the safety properties of Mug: what main  *)
(* knows of the state at each place where an interrupt may have changed it.*)
(***************************************************************************)
EXTENDS Mug

InCall  == pc \in {"compare", "store", "commit"}
Booting == pc = "boot" \/ (InCall /\ return = "poll")

(* The register of mugSetCurrentState against the two variables: the only  *)
(* difference the watchdog can make is CHECK_BATTERY on top of it.         *)
RegisterInv ==
  /\ return \in {"poll", "restore", "button", "clear", "moved"}
  /\ pc = "store" =>
       /\ newState # cached
       /\ \/ currentState = cached
          \/ currentState = "CHECK_BATTERY" /\ previousState = cached
  /\ pc = "commit" =>
       /\ newState # cached /\ previousState = cached
       /\ currentState \in {cached, "CHECK_BATTERY"}

(* INIT is left once, and never saved by the watchdog. *)
BootInv ==
  IF Booting
  THEN currentState = "INIT" /\ (pc # "boot" => newState = "IDLE")
  ELSE /\ currentState # "INIT"
       /\ currentState = "CHECK_BATTERY" => previousState # "INIT"
       /\ InCall => newState # "INIT"

(* The battery check runs in CHECK_BATTERY until a change of the host cable *)
(* sets a new state, which leaves CHECK_BATTERY in previousState.           *)
CheckInv ==
  /\ pc = "host" => currentState = "CHECK_BATTERY"
  /\ pc = "restore" => "CHECK_BATTERY" \in {currentState, previousState}
  /\ InCall /\ return = "restore" =>
       /\ newState # "CHECK_BATTERY" /\ currentState = "CHECK_BATTERY"
       /\ pc \in {"store", "commit"} => cached = "CHECK_BATTERY"

(* What the handlers that run with interrupts enabled rely on. *)
HandlerInv ==
  /\ pc = "send" => Mode = "GESTURE_IS_VALID"
  /\ pc = "line" => Mode = "TERMINAL"

(* The changes of mode that MugModes allows, and the two that are none:    *)
(* back to the same mode, or on with a battery check.                      *)
Edge(from, to) ==
  \/ to \in {from, "CHECK_BATTERY"}
  \/ from = "INIT" /\ to = "IDLE"
  \/ /\ from # "INIT"
     /\ to \in {"SWITCH_CONSOLE", "SWITCH_CONSOLE_CANCEL", "POWER_DOWN", "GESTURE_IS_VALID"}
  \/ from = "SWITCH_CONSOLE" /\ to = "SWITCH_CONSOLE_ACCEPT"
  \/ from = "SWITCH_CONSOLE_ACCEPT" /\ to = "TERMINAL" /\ console = "TERMINAL"
  \/ from = "SWITCH_CONSOLE_CANCEL" /\ to = "IDLE" /\ console = "OLED"
  \/ from = "POWER_DOWN" /\ to = "IDLE"

EdgeInv == InCall => Edge(Mode, newState)

OwedInv ==
  Mode = "GESTURE_IS_VALID" \/ (InCall /\ newState = "GESTURE_IS_VALID") => owed

ConsoleInv == Mode = "TERMINAL" /\ pc # "off" => console = "TERMINAL"

CheckSafe == TypeOK /\ RegisterInv /\ BatteryCheckReturns
IInv == CheckSafe /\ BootInv /\ CheckInv /\ HandlerInv /\ EdgeInv /\ OwedInv /\ ConsoleInv
=============================================================================
