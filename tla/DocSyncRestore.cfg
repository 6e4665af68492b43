CONSTANTS
  t1 = t1
  t2 = t2
  e1 = e1
  e2 = e2
  s1 = s1
  s2 = s2
  Tabs = {t1}
  Edits = {e1}
  Slots = {s1}
  Tiers = {"none", "read", "write"}
  Flips = {}
  NoSlot = NoSlot
  NoEpoch = NoEpoch
  MaxRestores = 1
  MaxCrashes = 0
  MaxDrops = 0
  MaxFlips = 0
  MaxRefusals = 0
SPECIFICATION Spec
PROPERTY RolledBackStaysGone
CHECK_DEADLOCK FALSE
