SPECIFICATION FairSpec
CONSTANTS
    e1 = e1
    e2 = e2
    e3 = e3
    Edits = {e1, e2}
    Silent = {}
    Parked = {}
    PERSIST_THRESHOLD = 2
    SNAPSHOT_KEEP = 1
    SNAPSHOT_MILESTONE = 4
    VERSION_KEEP = 2
    Incidents = {"put"}
    MaxIncidents = 1
    MaxInstalls = 1
    MaxDeletes = 1
    MaxJobs = 3
INVARIANTS ListMatchesRing HeadIsReadable
PROPERTIES LogDrains
CHECK_DEADLOCK FALSE
