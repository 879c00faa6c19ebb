SPECIFICATION Spec
CONSTANTS
    r1 = r1   m1 = m1
    None = None
    NumCalls = 2
    RobotIds = {r1}
    MissionIds = {m1}
    Mutations <- RecordMission
    SuppliedStates = {}
    MaxFaults = 0
CHECK_DEADLOCK FALSE
PROPERTY OnlyFaultsFail
