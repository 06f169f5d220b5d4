SPECIFICATION Spec
CONSTANTS
  a = a
  b = b
  c = c
  p = p
  console = console
  ble = ble
  Names = {a}
  ListMax = 2
  Clients = {console}
  Policy = Policy
  NoName = NoName
  Requests <- MadePermanent
  Overlap = FALSE
  CanReset = TRUE
  CanFail = FALSE
INVARIANT LifetimeKept
