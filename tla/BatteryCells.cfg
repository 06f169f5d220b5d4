SPECIFICATION Spec
CONSTANTS
  a = a
  b = b
  c = c
  house = house
  boat = boat
  Names = {a, b, c}
  Capacity = 2
  Alarms = {"undervoltage"}
  Observations <- Alike
  MaxTime = 1
  NoName = NoName
  Banks = {house, boat}
  MaxBanks = 1
  Memberships = {}
  Readers = {policy}
  policy = policy
PROPERTY
  RetainedCellsAreItsOwn
