SPECIFICATION PlatformSpec
\* The mission may be settled and the edge have nothing more to say.
CHECK_DEADLOCK FALSE
CONSTANTS
    m1 = m1  r1 = r1  c1 = c1  c2 = c2  k1 = k1  k2 = k2  p1 = p1
    None = None
    MissionIds = {m1}
    RobotIds = {r1}
    CommandIds = {c1, c2}
    IdempotencyKeys = {k1, k2}
    AckIds <- Ids
    EventIds <- Ids
    SessionIds <- Ids
    Payloads = {p1}
    InvalidPayloads = {}
    AllowedCommandTypes = {"GO_TO_POSE", "CANCEL_MISSION"}
    TelemetryStaleAfter = 1
    TelemetryDegradedAfter = 2
    TelemetryOfflineAfter = 3
    MaxCommandTtl = 1
    MaxTime = 4
    DispatchInputs <- GoToPose
    CancelInputs <- CancelMission
    CommandAcks <- NoMessages
    TelemetryEvents <- NoMessages
    ReconnectHandshakes <- NoMessages
    EdgeHellos <- NoMessages
    Robot1 = r1
    Scenario = "reconnect"
    MaxHeartbeats = 1
    MaxFaults = 1
INVARIANTS PlatformTypeOK QuietMeansAnswered CloudKnowsNoMoreThanTheEdge
PROPERTIES FreshUnlessOvertaken DispatchesAreAnswered
