\* Two runs of two hunks, four calls and one fault of any kind but a failed list.
CONSTANTS
  c1 = c1
  c2 = c2
  Changes = {c1, c2}
  None = None
  Faults = {"blob", "send", "crash", "lose"}
  MaxRuns = 2
  MaxHunks = 2
  MaxCalls = 4
  MaxFaults = 1
SPECIFICATION Spec
SYMMETRY Symmetry
CHECK_DEADLOCK FALSE
INVARIANTS TypeOK NotesOutliveCrashes StoredTogether InboxShowsTheRow
PROPERTIES HunksAreKept LandedBeforeRecorded
