CONSTANTS
  t1 = t1
  t2 = t2
  e1 = e1
  e2 = e2
  s1 = s1
  s2 = s2
  Tabs = {t1}
  Edits = {e1}
  Slots = {s1, s2}
  Tiers = {"none", "read", "write"}
  Flips = {"lock", "trash", "tier"}
  NoSlot = NoSlot
  NoEpoch = NoEpoch
  MaxRestores = 1
  MaxCrashes = 1
  MaxDrops = 1
  MaxFlips = 1
  MaxRefusals = 1
SPECIFICATION Spec
 
 
PROPERTY ReturningTabsAreFenced
CHECK_DEADLOCK FALSE
