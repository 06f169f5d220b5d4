SPECIFICATION FairSpec
CONSTANTS
  a = a
  b = b
  c = c
  Batteries = {a, b, c}
  NoBattery = NoBattery
  MaxSpontaneous = 3
  AddressCanFail = TRUE
INVARIANTS
  TypeOK
  Discoverable
PROPERTIES
  OneBatteryAtATime
  RecoveryIsReal
  CleanupEnds
