SPECIFICATION Spec
CONSTANTS
    m1 = m1
    None = None  Unchanged = Unchanged
    MissionIds = {m1}
    MaxCommits = 1
    MaxEvents = 1
    MaxRefreshes = 2
    MaxFaults = 1
INVARIANTS EventsAreFollowedUp
PROPERTIES ActionsShowTheirEffect CatchesUp
