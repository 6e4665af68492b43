SPECIFICATION Spec
CONSTANTS
    e1 = e1
    e2 = e2
    e3 = e3
    Edits = {e1, e2}
    Silent = {}
    Parked = {e2}
    PERSIST_THRESHOLD = 2
    SNAPSHOT_KEEP = 2
    SNAPSHOT_MILESTONE = 3
    VERSION_KEEP = 2
    Incidents = {"put", "send", "unacked", "crash", "lose"}
    MaxIncidents = 2
    MaxInstalls = 1
    MaxDeletes = 1
    MaxJobs = 2
INVARIANTS TypeOK CleanMeansSaved 
PROPERTIES NothingStoredIsLost ReplacedIsKept
CHECK_DEADLOCK FALSE
