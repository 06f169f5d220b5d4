SPECIFICATION Spec
CONSTANTS
  a = a
  b = b
  c = c
  p = p
  console = console
  ble = ble
  Names = {a, b, c, p}
  ListMax = 2
  Clients = {console, ble}
  Policy = Policy
  NoName = NoName
  Requests <- Ordinary
  Overlap = FALSE
  CanReset = TRUE
  CanFail = TRUE
INVARIANTS
  TypeOK
  LifetimeKept
  DeadlinesBacked
PROPERTIES
  ProgramSeesNoExpired
  NeverExpiresEarly
