------------------------------ MODULE MugModes ------------------------------
(***************************************************************************)
(* What the user sees of the mug's state machine: the modes of             *)
(* mugStateType without CHECK_BATTERY, the position of the console         *)
(* switch, and whether the mug is powered.  The battery check that the     *)
(* watchdog interrupt forces into the state machine does not exist here:   *)
(* module Mug implements this specification, so that check is invisible.   *)
(***************************************************************************)
VARIABLES mode, console, powered
vars == <<mode, console, powered>>

Init == mode = "INIT" /\ console = "OLED" /\ powered = TRUE

(* A change of mode that leaves the switch and the power alone. *)
Enter(new) == powered /\ mode' = new /\ UNCHANGED <<console, powered>>

Booted == mode = "INIT" /\ Enter("IDLE")

(* The host cable: plugging it offers the console, pulling it takes the    *)
(* console away.                                                           *)
HostPlugged == mode # "INIT" /\ Enter("SWITCH_CONSOLE")
HostPulled  == mode # "INIT" /\ Enter("SWITCH_CONSOLE_CANCEL")

(* The offer is accepted by a short press or runs out. *)
OfferAccepted == mode = "SWITCH_CONSOLE" /\ Enter("SWITCH_CONSOLE_ACCEPT")
OfferExpired  == mode = "SWITCH_CONSOLE" /\ Enter("SWITCH_CONSOLE_CANCEL")

(* The switch turns before the terminal mode is entered or left. *)
SwitchToTerminal ==
  /\ powered /\ mode = "SWITCH_CONSOLE_ACCEPT"
  /\ console' = "TERMINAL" /\ UNCHANGED <<mode, powered>>
SwitchToDisplay ==
  /\ powered /\ mode = "SWITCH_CONSOLE_CANCEL"
  /\ console' = "OLED" /\ UNCHANGED <<mode, powered>>
EnterTerminal ==
  mode = "SWITCH_CONSOLE_ACCEPT" /\ console = "TERMINAL" /\ Enter("TERMINAL")
ConsoleCancelled ==
  mode = "SWITCH_CONSOLE_CANCEL" /\ console = "OLED" /\ Enter("IDLE")

(* Terminal commands 'q' and 'a', or a long press, end the session. *)
LeaveTerminal ==
  mode = "TERMINAL" /\ (Enter("SWITCH_CONSOLE_CANCEL") \/ Enter("IDLE"))

LongPress == mode # "INIT" /\ Enter("POWER_DOWN")
Cancelled == mode = "POWER_DOWN" /\ Enter("IDLE")

Gesture == mode # "INIT" /\ Enter("GESTURE_IS_VALID")
Sent    == mode = "GESTURE_IS_VALID" /\ Enter("IDLE")

(* Only the countdown and terminal command 's' switch the mug off. *)
PowerOff ==
  /\ powered /\ mode \in {"POWER_DOWN", "TERMINAL"}
  /\ powered' = FALSE /\ console' = "OLED" /\ UNCHANGED mode

Next == \/ Booted \/ HostPlugged \/ HostPulled
        \/ OfferAccepted \/ OfferExpired
        \/ SwitchToTerminal \/ SwitchToDisplay
        \/ EnterTerminal \/ LeaveTerminal \/ ConsoleCancelled
        \/ LongPress \/ Cancelled \/ Gesture \/ Sent \/ PowerOff

Spec == Init /\ [][Next]_vars
=============================================================================
