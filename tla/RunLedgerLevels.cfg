\* One run of two hunks over two passages, at every level, with deletions.
CONSTANTS
  Agents = {a1}
  asker = asker
  colleague = colleague
  People <- MCPeople
  Reviewer <- MCReviewer
  Changes = {c1}
  Slots = {s1, s2}
  Plain = {p0}
  Typed = {p0, Gone}
  Gone = Gone
  None = None
  LevelsInUse = {"auto", "review", "colleague"}
  Deletes = {TRUE, FALSE}
  Clock = {"run idle"}
  MaxRuns = 1
  MaxHunks = 2
  RunOrderMax = 3
SPECIFICATION Spec
CHECK_DEADLOCK FALSE
INVARIANTS TypeOK ColleagueSigned OnlyLandedText StatusTruth
PROPERTIES ImplementsReviewGate
