SPECIFICATION FairSpec
CONSTANTS
    k1 = k1  k2 = k2  m1 = m1  go = go  stop = stop
    None = None
    NumRequests = 3
    Keys = {k1, k2}
    Bodies <- AllBodies
    ClientMissionIds = {m1}
    Contents = {go, stop}
    Asks <- AllAsks
    Ttl = 1
    MaxEntries = 1
    MaxTime = 1
    MaxFaults = 1
    MaxResets = 1
CHECK_DEADLOCK FALSE
INVARIANTS TypeOK NoSecondMission AnsweredFromOwnRequest CacheBounded
PROPERTIES LiveRecordsLeaveForCause EveryRequestEnds
