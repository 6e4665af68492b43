SPECIFICATION FairSpec
CONSTANTS
    a = a
    b = b
    p1 = p1
    p2 = p2
    r1 = r1
    Names = {a, b}
    Peers = {p1}
    Requests = {r1}
    Door <- MCDoor
    Calls <- OneWay
    Alarmed = {a}
    ALARM_RETRY_LIMIT = 1
    MaxFrames = 2
    MaxSets = 2
    MaxPauses = 1
    MaxCrashes = 1
PROPERTIES AlarmRuns PauseResolves
INVARIANTS TypeOK StoreIsExclusive NothingIsForgotten
CHECK_DEADLOCK FALSE
