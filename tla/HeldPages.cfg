\* Two requests at once, two runs of one item each.
CONSTANTS
  i1 = i1
  i2 = i2
  c1 = c1
  c2 = c2
  Items = {i1}
  Calls = {c1, c2}
  Idle = Idle
  Faults = {"unread", "unsent", "locked", "crash"}
  MaxRuns = 2
  MaxCalls = 2
  MaxFaults = 1
  MaxShares = 1
  Sharings = {{"guest"}}
SPECIFICATION Spec
SYMMETRY Symmetry
CHECK_DEADLOCK FALSE
INVARIANTS TypeOK SettledOnce NeverWider DecidedMeansSettled ReleasedIsOpen
