SPECIFICATION Spec
CONSTANTS
    k1 = k1  k2 = k2  m1 = m1  go = go  stop = stop
    None = None
    NumRequests = 2
    Keys = {k1, k2}
    Bodies <- AllBodies
    ClientMissionIds = {m1}
    Contents = {go, stop}
    Asks <- RetryAsks
    Ttl = 2
    MaxEntries = 2
    MaxTime = 1
    MaxFaults = 1
    MaxResets = 0
CHECK_DEADLOCK FALSE
INVARIANT RetryIsNotConflict
