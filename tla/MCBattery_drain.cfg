\* Noise of one, the widest a hysteresis of two takes out.
CONSTANTS
  Hyst = 2
  L1 = 6
  L2 = 9
  L3 = 12
  L4 = 15
  Lowest = 3
  Highest = 19
  Noise = 1
SPECIFICATION Spec
INVARIANTS TypeOK ExternalMeansHost TracksCharge BatteryInv
PROPERTY DrainsDown
