--------------------------- MODULE BatteryProofs ---------------------------
(***************************************************************************)
(* The battery icon for every choice of thresholds, hysteresis and noise.  *)
(***************************************************************************)
EXTENDS Battery, TLAPS

(* The icons are ordered as the levels are. *)
LEMMA IconMonotone ==
  ASSUME NEW low \in Nat \ {0}, NEW high \in Nat, low <= high
  PROVE  LevelIcon(low) <= LevelIcon(high)
BY BatteryAssumption, SMT DEF BatteryAssumption, LevelIcon, EXT

(* Only level 0 has the icon of external power. *)
LEMMA IconKinds ==
  ASSUME NEW level \in Nat
  PROVE  /\ LevelIcon(level) \in EXT..5
         /\ LevelIcon(level) = EXT <=> level = 0
BY BatteryAssumption, SMT DEF BatteryAssumption, LevelIcon, EXT

(* On the scale of the converter the 16-bit subtraction does not wrap. *)
LEMMA NoWrap ==
  ASSUME NEW level \in Lowest..Highest
  PROVE  Word(level - Hyst) = level - Hyst /\ Word(level + Hyst) = level + Hyst
<1> USE BatteryAssumption DEF BatteryAssumption
<1>1. \A n \in Nat : n < 65536 => n % 65536 = n
  BY SMT
<1>2. level - Hyst \in Nat /\ level + Hyst \in Nat /\ level + Hyst < 2048
  OBVIOUS
<1>3. level - Hyst < 65536 /\ level + Hyst < 65536
  BY <1>2
<1> QED BY <1>1, <1>2, <1>3 DEF Word

(* What a check stores, with the word arithmetic out of the way. *)
LEMMA StoredLevel ==
  ASSUME BatteryInv, NEW reading \in Readings, UpdateBatteryStatus(reading)
  PROVE  /\ reading \in Lowest..Highest
         /\ usbHost => batteryLevel' = 0
         /\ ~usbHost /\ batteryLevel = 0 => batteryLevel' = reading
         /\ ~usbHost /\ batteryLevel # 0 =>
              \/ /\ reading < batteryLevel - Hyst \/ reading > batteryLevel + Hyst
                 /\ batteryLevel' = reading
              \/ /\ batteryLevel - Hyst <= reading /\ reading <= batteryLevel + Hyst
                 /\ batteryLevel' = batteryLevel
<1>1. reading \in Lowest..Highest
  BY DEF Readings
<1>2. CASE usbHost
  <2>1. HostLevel = 0
    BY <1>2 DEF HostLevel, BatteryInv
  <2> QED BY <1>1, <1>2, <2>1 DEF UpdateBatteryStatus
<1>3. CASE ~usbHost
  <2>1. HostLevel = batteryLevel
    BY <1>3 DEF HostLevel
  <2>2. batteryLevel' = IF Replaces(batteryLevel, reading) THEN reading ELSE batteryLevel
    BY <1>3, <2>1 DEF UpdateBatteryStatus
  <2>3. CASE batteryLevel = 0
    BY <1>1, <1>3, <2>2, <2>3 DEF Replaces
  <2>4. CASE batteryLevel # 0
    <3>1. batteryLevel \in Lowest..Highest
      BY <2>4 DEF BatteryInv, TypeOK
    <3>2. Replaces(batteryLevel, reading)
            <=> reading < batteryLevel - Hyst \/ reading > batteryLevel + Hyst
      BY <2>4, <3>1, NoWrap DEF Replaces
    <3> QED BY <1>1, <1>3, <2>2, <2>4, <3>1, <3>2, BatteryAssumption DEF BatteryAssumption
  <2> QED BY <2>3, <2>4
<1> QED BY <1>2, <1>3 DEF BatteryInv, TypeOK

LEMMA CheckStep ==
  ASSUME BatteryInv, NEW reading \in Readings, UpdateBatteryStatus(reading)
  PROVE  BatteryInv'
<1> USE BatteryAssumption DEF BatteryAssumption
<1> DEFINE stores == ~usbHost /\ Replaces(HostLevel, reading)
<1>1. reading \in Lowest..Highest /\ charge \in Lowest..Highest
      /\ batteryLevel \in {0} \cup Lowest..Highest
  BY StoredLevel DEF BatteryInv, TypeOK
<1>2. batteryLevel' \in {0} \cup Lowest..Highest
  <2>1. CASE usbHost BY <2>1, StoredLevel
  <2>2. CASE ~usbHost BY <1>1, <2>2, StoredLevel
  <2> QED BY <2>1, <2>2
<1>3. batteryIcon' = LevelIcon(batteryLevel')
  <2>1. CASE usbHost # usbHostConnected \/ stores
    BY <2>1 DEF UpdateBatteryStatus
  <2>2. CASE ~(usbHost # usbHostConnected \/ stores)
    <3>1. batteryIcon' = batteryIcon /\ batteryLevel' = HostLevel
      BY <2>2 DEF UpdateBatteryStatus
    <3>2. HostLevel = batteryLevel
      BY <2>2 DEF HostLevel, BatteryInv, TypeOK
    <3> QED BY <3>1, <3>2 DEF BatteryInv
  <2> QED BY <2>1, <2>2
<1>4. usbHostConnected' = usbHost /\ usbHost' = usbHost /\ charge' = charge
  BY DEF UpdateBatteryStatus
<1>5. batteryLevel' = 0 <=> usbHost
  <2>1. CASE usbHost BY <2>1, StoredLevel
  <2>2. CASE ~usbHost BY <1>1, <2>2, StoredLevel
  <2> QED BY <2>1, <2>2
<1>6. (batteryIcon' = EXT <=> batteryLevel' = 0) /\ batteryIcon' \in EXT..5
  <2>1. batteryLevel' \in Nat BY <1>2
  <2> QED BY <2>1, <1>3, IconKinds
<1>7. drained' => ~usbHost /\ charge - Noise <= batteryLevel'
  <2>1. SUFFICES ASSUME drained'
                 PROVE  ~usbHost /\ charge - Noise <= batteryLevel'
    OBVIOUS
  <2>2. CASE stores
    <3>1. batteryLevel' = reading /\ ~usbHost
      BY <2>2 DEF UpdateBatteryStatus
    <3> QED BY <3>1 DEF Readings
  <2>3. CASE ~stores
    <3>1. drained
      BY <2>1, <2>3 DEF UpdateBatteryStatus, BatteryInv, TypeOK
    <3>2. ~usbHost /\ charge - Noise <= batteryLevel
      BY <3>1 DEF BatteryInv
    <3>3. batteryLevel' = batteryLevel
      BY <2>3, <3>2 DEF UpdateBatteryStatus, HostLevel
    <3> QED BY <3>2, <3>3
  <2> QED BY <2>2, <2>3
<1>8. drained' \in BOOLEAN /\ checked' \in BOOLEAN /\ settled' \in BOOLEAN
  BY DEF UpdateBatteryStatus, BatteryInv, TypeOK
<1>9. TracksCharge'
  <2>1. SUFFICES ASSUME ~usbHost
                 PROVE  batteryLevel' \in charge - (Hyst + Noise) .. charge + (Hyst + Noise)
    BY <1>4 DEF TracksCharge
  <2>2. reading >= charge - Noise /\ reading <= charge + Noise
    BY DEF Readings
  <2>3. CASE batteryLevel = 0
    BY <1>1, <2>1, <2>2, <2>3, StoredLevel
  <2>4. CASE batteryLevel # 0
    <3>1. \/ batteryLevel' = reading
          \/ /\ batteryLevel - Hyst <= reading /\ reading <= batteryLevel + Hyst
             /\ batteryLevel' = batteryLevel
      BY <2>1, <2>4, StoredLevel
    <3>2. batteryLevel \in Nat
      BY <1>1
    <3> QED BY <1>1, <2>2, <3>1, <3>2
  <2> QED BY <2>3, <2>4
<1> QED
  <2>1. TypeOK'
    BY <1>1, <1>2, <1>4, <1>6, <1>8 DEF BatteryInv, TypeOK
  <2>2. ExternalMeansHost'
    BY <1>4, <1>5, <1>6 DEF ExternalMeansHost
  <2>3. (usbHostConnected => batteryLevel = 0)'
    BY <1>4, <1>5
  <2>4. (drained => batteryLevel # 0 /\ ~usbHost /\ charge - Noise <= batteryLevel)'
    BY <1>4, <1>5, <1>7
  <2> QED BY <2>1, <2>2, <2>3, <2>4, <1>3, <1>9 DEF BatteryInv

(* The icon tells the stored level, and a level measured on battery is not *)
(* overtaken by a reading: the inductive invariant of a check, a moved     *)
(* cable and the charge's drift.                                           *)
THEOREM BatteryInvariance == Spec => []BatteryInv
<1> USE BatteryAssumption DEF BatteryAssumption
<1>1. Init => BatteryInv
  <2> SUFFICES ASSUME Init PROVE BatteryInv
    OBVIOUS
  <2>1. LevelIcon(batteryLevel) = EXT
    BY IconKinds DEF Init
  <2>2. usbHostConnected \in BOOLEAN /\ checked \in BOOLEAN /\ drained \in BOOLEAN
        /\ settled \in BOOLEAN
    BY Zenon DEF Init
  <2>3. TypeOK /\ ExternalMeansHost /\ TracksCharge
    BY <2>2 DEF Init, TypeOK, ExternalMeansHost, TracksCharge, EXT
  <2> QED BY <2>1, <2>3 DEF Init, BatteryInv
<1>2. BatteryInv /\ [Next]_vars => BatteryInv'
  <2> SUFFICES ASSUME BatteryInv, [Next]_vars PROVE BatteryInv'
    OBVIOUS
  <2>1. CASE Check
    BY <2>1, CheckStep DEF Check
  <2>2. CASE UsbCable
    BY <2>2 DEF UsbCable, BatteryInv, TypeOK, ExternalMeansHost, TracksCharge, LevelIcon, EXT
  <2>3. CASE Charge
    <3>1. settled' = FALSE /\ settled' \in BOOLEAN
      BY <2>3, Zenon DEF Charge
    <3>2. charge' \in Lowest..Highest /\ (usbHost \/ charge' <= charge)
      BY <2>3 DEF Charge, BatteryInv, TypeOK
    <3>3. TypeOK'
      BY <2>3, <3>1, <3>2 DEF Charge, BatteryInv, TypeOK
    <3>4. ExternalMeansHost' /\ TracksCharge'
      BY <2>3, <3>1 DEF Charge, BatteryInv, ExternalMeansHost, TracksCharge
    <3>5. (drained => batteryLevel # 0 /\ ~usbHost /\ charge - Noise <= batteryLevel)'
      BY <2>3, <3>2 DEF Charge, BatteryInv, TypeOK
    <3> QED BY <2>3, <3>3, <3>4, <3>5 DEF Charge, BatteryInv, LevelIcon
  <2>4. CASE Drain
    <3>1. settled' = FALSE /\ settled' \in BOOLEAN
      BY <2>4, Zenon DEF Drain
    <3>2. charge' \in Lowest..Highest /\ (usbHost \/ charge' <= charge)
      BY <2>4 DEF Drain, BatteryInv, TypeOK
    <3>3. TypeOK'
      BY <2>4, <3>1, <3>2 DEF Drain, BatteryInv, TypeOK
    <3>4. ExternalMeansHost' /\ TracksCharge'
      BY <2>4, <3>1 DEF Drain, BatteryInv, ExternalMeansHost, TracksCharge
    <3>5. (drained => batteryLevel # 0 /\ ~usbHost /\ charge - Noise <= batteryLevel)'
      BY <2>4, <3>2 DEF Drain, BatteryInv, TypeOK
    <3> QED BY <2>4, <3>3, <3>4, <3>5 DEF Drain, BatteryInv, LevelIcon
  <2>5. CASE UNCHANGED vars
    BY <2>5 DEF vars, BatteryInv, TypeOK, ExternalMeansHost, TracksCharge, LevelIcon, EXT
  <2> QED BY <2>1, <2>2, <2>3, <2>4, <2>5 DEF Next
<1> QED BY <1>1, <1>2, PTL DEF Spec

(* Level and icon are among those there are. *)
THEOREM BatteryTypes == Spec => []TypeOK
<1>1. BatteryInv => TypeOK
  BY DEF BatteryInv
<1> QED BY <1>1, BatteryInvariance, PTL

(* The external power icon is on the display exactly while a host is known. *)
THEOREM ExternalIconMeansHost == Spec => []ExternalMeansHost
<1>1. BatteryInv => ExternalMeansHost
  BY DEF BatteryInv
<1> QED BY <1>1, BatteryInvariance, PTL

(* After a check the level is as close to the charge as hysteresis and     *)
(* noise allow.                                                            *)
THEOREM LevelTracksCharge == Spec => []TracksCharge
<1>1. BatteryInv => TracksCharge
  BY DEF BatteryInv
<1> QED BY <1>1, BatteryInvariance, PTL

(* On battery the icon never climbs. *)
THEOREM IconDrainsDown == Spec => DrainsDown
<1> USE BatteryAssumption DEF BatteryAssumption
<1>1. BatteryInv /\ [Next]_vars => [drained /\ ~usbHost' => batteryIcon' <= batteryIcon]_vars
  <2> SUFFICES ASSUME BatteryInv, Next, drained, ~usbHost'
               PROVE  batteryIcon' <= batteryIcon
    BY DEF vars, BatteryInv, TypeOK
  <2>1. CASE Check
    <3>1. PICK reading \in Readings : UpdateBatteryStatus(reading)
      BY <2>1 DEF Check
    <3>2. ~usbHost /\ batteryLevel \in Lowest..Highest /\ charge - Noise <= batteryLevel
          /\ charge \in Lowest..Highest
      BY DEF BatteryInv, TypeOK
    <3>3. reading <= batteryLevel + Hyst
      BY <3>1, <3>2 DEF Readings
    <3>4. batteryLevel' <= batteryLevel /\ batteryLevel' \in Lowest..Highest
      BY <3>1, <3>2, <3>3, StoredLevel
    <3>5. LevelIcon(batteryLevel') <= LevelIcon(batteryLevel)
      BY <3>2, <3>4, IconMonotone
    <3>6. batteryIcon' = LevelIcon(batteryLevel')
      BY <3>1, CheckStep DEF BatteryInv
    <3> QED BY <3>5, <3>6 DEF BatteryInv
  <2>2. CASE ~Check
    <3>1. batteryIcon' = batteryIcon
      BY <2>2 DEF Next, UsbCable, Charge, Drain
    <3>2. batteryIcon \in Int
      BY DEF BatteryInv, TypeOK, EXT
    <3> QED BY <3>1, <3>2
  <2> QED BY <2>1, <2>2
<1> QED BY <1>1, BatteryInvariance, PTL DEF Spec, DrainsDown
=============================================================================
