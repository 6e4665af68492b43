\* One run of two items: one approved, then the run taken back.
CONSTANTS
  i1 = i1
  i2 = i2
  c1 = c1
  c2 = c2
  Items = {i1, i2}
  Calls = {c1}
  Idle = Idle
  Faults = {}
  MaxRuns = 1
  MaxCalls = 2
  MaxFaults = 0
  MaxShares = 0
  Sharings = {}
SPECIFICATION Spec
CHECK_DEADLOCK FALSE
PROPERTIES NothingLandedIsNotReleased
