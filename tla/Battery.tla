------------------------------ MODULE Battery ------------------------------
(***************************************************************************)
(* The battery measurement and its icon (main.c, updateBatteryStatus).     *)
(* Module Mug has the state machine around it and leaves the numbers out;  *)
(* here are the numbers: readings with noise, the hysteresis in 16-bit     *)
(* unsigned arithmetic, and the level 0 that stands for "externally        *)
(* powered".  The host pin is read once per check and the converter at     *)
(* most once, so a check is one step: a cable moved inside a check cannot  *)
(* be told from one moved after it.                                        *)
(***************************************************************************)
EXTENDS Integers

CONSTANTS
  Hyst,             \* BATTERY_HYST_VAL
  L1, L2, L3, L4,   \* BATTERY_L1_VAL .. BATTERY_L4_VAL
  Lowest, Highest,  \* the readings a running mug can get
  Noise             \* how far a reading may be from the charge

(* The converter has ten bits, a mug that runs has some charge left, and    *)
(* the hysteresis is meant to be wider than the noise.                      *)
ASSUME BatteryAssumption ==
  /\ Hyst \in Nat /\ Noise \in Nat /\ Lowest \in Nat /\ Highest \in Nat
  /\ L1 \in Nat /\ L2 \in Nat /\ L3 \in Nat /\ L4 \in Nat
  /\ 0 < L1 /\ L1 <= L2 /\ L2 <= L3 /\ L3 <= L4
  /\ 0 < Lowest /\ Hyst <= Lowest /\ Lowest <= Highest /\ Highest < 1024
  /\ 2 * Noise <= Hyst

VARIABLES
  usbHost,            \* the host pin
  usbHostConnected,   \* aMug.usbHostConnected
  batteryLevel,       \* aMug.batteryLevel, 0 for external power
  batteryIcon,        \* aMug.batteryIcon, the icon on the display
  charge,             \* what a noiseless reading would be
  checked,            \* the boot's check is done
  settled,            \* history: charge and cable are as the last check found them
  drained             \* history: no cable since batteryLevel was measured

vars == <<usbHost, usbHostConnected, batteryLevel, batteryIcon, charge, checked,
          settled, drained>>

Word(n) == n % 65536
EXT == 0                \* OLED_POWER_ICON_EXT; the others are 1..5

(* mugBatteryLevelToIcon.  Mutant: the full icon one too far. *)
LevelIconTooFar(level) ==
  CASE level = 0 -> EXT [] level \in 1 .. L4 - 1 -> 1 [] OTHER -> 6
LevelIcon(level) ==
  CASE level = 0             -> EXT
    [] level \in 1  .. L1 - 1 -> 1
    [] level \in L1 .. L2 - 1 -> 2
    [] level \in L2 .. L3 - 1 -> 3
    [] level \in L3 .. L4 - 1 -> 4
    [] OTHER                 -> 5

(* The stored level gives way to a reading.  Mutants: no hysteresis, and   *)
(* one that looks upwards only.                                            *)
ReplacesAny(level, reading) == reading # level
ReplacesRising(level, reading) == level = 0 \/ reading > Word(level + Hyst)
Replaces(level, reading) ==
  \/ level = 0
  \/ reading < Word(level - Hyst)
  \/ reading > Word(level + Hyst)

(* mugCheckUSBHost: a host that appears clears the level. *)
HostKeepsLevel == batteryLevel
HostLevel == IF usbHost /\ ~usbHostConnected THEN 0 ELSE batteryLevel

Readings == {r \in Lowest..Highest : r >= charge - Noise /\ r <= charge + Noise}

(* mugCheckUSBHost, mugCheckBatteryLevel and mugUpdateBatteryIcon; the icon *)
(* is looked at only when the host or the level changed.                    *)
UpdateBatteryStatus(reading) ==
  LET stores  == ~usbHost /\ Replaces(HostLevel, reading)
      changed == usbHost # usbHostConnected
  IN  /\ usbHostConnected' = usbHost
      /\ batteryLevel' = IF stores THEN reading ELSE HostLevel
      /\ batteryIcon' = IF changed \/ stores THEN LevelIcon(batteryLevel') ELSE batteryIcon
      /\ drained' = (stores \/ drained)
      /\ checked' = TRUE /\ settled' = TRUE
      /\ UNCHANGED <<usbHost, charge>>

Check == \E reading \in Readings : UpdateBatteryStatus(reading)

UsbCable ==
  /\ usbHost' = ~usbHost /\ drained' = FALSE /\ settled' = FALSE
  /\ UNCHANGED <<usbHostConnected, batteryLevel, batteryIcon, charge, checked>>

(* The host charges the battery, the mug drains it. *)
Charge ==
  /\ usbHost /\ charge < Highest /\ charge' = charge + 1 /\ settled' = FALSE
  /\ UNCHANGED <<usbHost, usbHostConnected, batteryLevel, batteryIcon, checked, drained>>
Drain ==
  /\ ~usbHost /\ charge > Lowest /\ charge' = charge - 1 /\ settled' = FALSE
  /\ UNCHANGED <<usbHost, usbHostConnected, batteryLevel, batteryIcon, checked, drained>>

Init ==
  /\ usbHost \in BOOLEAN /\ charge \in Lowest..Highest
  /\ usbHostConnected = FALSE /\ batteryLevel = 0 /\ batteryIcon = EXT
  /\ checked = FALSE /\ settled = FALSE /\ drained = FALSE

Next == Check \/ UsbCable \/ Charge \/ Drain

Spec == Init /\ [][Next]_vars
-----------------------------------------------------------------------------
(* Types; the icon is one the display has: it refuses 6 and more. *)
TypeOK ==
  /\ usbHost \in BOOLEAN /\ usbHostConnected \in BOOLEAN
  /\ checked \in BOOLEAN /\ settled \in BOOLEAN /\ drained \in BOOLEAN
  /\ batteryLevel \in {0} \cup Lowest..Highest /\ charge \in Lowest..Highest
  /\ batteryIcon \in EXT..5

(* After the boot's check the display shows external power exactly while   *)
(* the mug believes a host is connected, although level, icon and host     *)
(* flag are written in three functions and the icon only on a change.      *)
ExternalMeansHost == checked => (batteryIcon = EXT <=> usbHostConnected)

(* On battery a check leaves a level no further from the charge than       *)
(* hysteresis and noise, whatever was stored before.                       *)
TracksCharge ==
  settled /\ ~usbHostConnected =>
    batteryLevel \in charge - (Hyst + Noise) .. charge + (Hyst + Noise)

(* While the battery only drains the icon never climbs: hysteresis takes   *)
(* out the noise of the readings, at every threshold.                      *)
DrainsDown ==
  [][drained /\ ~usbHost' => batteryIcon' <= batteryIcon]_vars

(* The inductive strengthening: the icon belongs to the level, and a level *)
(* measured since the last cable is not below any later reading by more    *)
(* than the noise.                                                         *)
BatteryInv ==
  /\ TypeOK /\ ExternalMeansHost /\ TracksCharge
  /\ batteryIcon = LevelIcon(batteryLevel)
  /\ usbHostConnected => batteryLevel = 0
  /\ drained => batteryLevel # 0 /\ ~usbHost /\ charge - Noise <= batteryLevel
=============================================================================
