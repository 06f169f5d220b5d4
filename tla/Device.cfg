SPECIFICATION DeviceSpec
CONSTANTS
  x = x
  m = m
  n = n
  pw = pw
  none = none
  host1 = host1
  host2 = host2
  zero = zero
  auto = auto
  fixed = fixed
  r1 = r1
  r2 = r2
  b1 = b1
  b2 = b2
  Lines = {x}
  Texts <- SomeTexts
  Compiles <- SomeCompile
  Names = {m, n}
  Capacity = 1
  Passwords = {pw}
  NoPassword = none
  MayReset = TRUE
  Addresses = {host1, host2}
  Zero = zero
  SubnetOf <- Subnets
  PhyModes = {auto, fixed}
  AutoMode = auto
  MaxEvents = 2
  MaxResets = 2
  Reports <- SomeReports
  MaxSessions = 2
  MaxWaiting = 3
  Cells <- SomeCells
  MaxCells = 2
  Room = 4
  MaxProbes = 2
INVARIANTS
  TypeOK
  ActiveWasAskedFor
  ActiveCompiles
  OnlySerialConfigures
  RestoredAfterFailure
  SettingsSurvive
  LinkShown
  TimeIsRight
  DisconnectIsOwn
PROPERTIES
  MemoryIsLastCycles
  NetworkLetsGo
  RtcFollowsSntp
  OutputIsItsReport
  ObservationIsItsOwn
CHECK_DEADLOCK FALSE
