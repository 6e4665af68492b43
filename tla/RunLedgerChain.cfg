\* One agent, two changes: the queue of runs one agent builds on top of itself.
CONSTANTS
  Agents = {a1}
  asker = asker
  colleague = colleague
  People <- MCPeople
  Reviewer <- MCReviewer
  Changes = {c1, c2}
  Slots = {s1, s2}
  Plain = {p0}
  Typed = {}
  Gone = Gone
  None = None
  LevelsInUse = {"review"}
  Deletes = {FALSE}
  Clock = {}
  MaxRuns = 3
  MaxHunks = 1
  RunOrderMax = 3
SPECIFICATION Spec
SYMMETRY Symmetry
CHECK_DEADLOCK FALSE
INVARIANTS QueueIsUsable
PROPERTIES AcceptedInOrder
