\* Interrupts disabled as often and as long as main likes, bouncing contacts.
CONSTANTS
  MinShort = 2
  MaxShort = 5
  MinLong = 10
  MaxLong = 13
  Bounces = TRUE
SPECIFICATION Spec
INVARIANTS TypeOK DriverFollowsPin
PROPERTIES TimedAsCounted ReportedAsMade ReportedOnlyIfMade
