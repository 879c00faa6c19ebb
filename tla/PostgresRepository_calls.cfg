SPECIFICATION FairSpec
CONSTANTS
    r1 = r1   m1 = m1
    None = None
    NumCalls = 3
    RobotIds = {r1}
    MissionIds = {m1}
    Mutations <- AllMutations
    SuppliedStates <- Seed
    MaxFaults = 1
CHECK_DEADLOCK FALSE
INVARIANTS TypeOK LoggedEventsAreQueued
PROPERTIES ImplementsAggregate CallsEnd
