CONSTANTS
  t1 = t1
  t2 = t2
  e1 = e1
  e2 = e2
  s1 = s1
  s2 = s2
  Tabs = {t1, t2}
  Edits = {e1}
  Slots = {s1, s2}
  Tiers = {"none", "read", "write"}
  Flips = {}
  NoSlot = NoSlot
  NoEpoch = NoEpoch
  MaxRestores = 0
  MaxCrashes = 1
  MaxDrops = 1
  MaxFlips = 0
  MaxRefusals = 0
SPECIFICATION FairSpec
INVARIANT TypeOK
INVARIANT QuietMeansSame
PROPERTY EditsArrive
CHECK_DEADLOCK FALSE
