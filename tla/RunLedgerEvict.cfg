\* Two agents of two people, more runs than the ledger keeps, notes given, answered and aging.
CONSTANTS
  Agents = {a1, a2}
  asker = asker
  colleague = colleague
  People <- MCPeople
  Reviewer <- MCReviewer
  Changes = {c1}
  Slots = {s1}
  Plain = {p0}
  Typed = {}
  Gone = Gone
  None = None
  LevelsInUse = {"review"}
  Deletes = {FALSE}
  Clock = {"run idle", "note stale", "run stale"}
  MaxRuns = 3
  MaxHunks = 1
  RunOrderMax = 2
SPECIFICATION Spec
CHECK_DEADLOCK FALSE
INVARIANTS NotesAreListed
PROPERTIES NothingOwedIsEvicted ImplementsReviewGate
