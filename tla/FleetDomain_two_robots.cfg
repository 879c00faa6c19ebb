SPECIFICATION Spec
CONSTANTS
    m1 = m1  m2 = m2  r1 = r1  r2 = r2  c1 = c1  c2 = c2  k1 = k1  k2 = k2
    a1 = a1  a2 = a2  e1 = e1  s1 = s1  p1 = p1  p2 = p2
    None = None
    MissionIds = {m1, m2}
    RobotIds = {r1, r2}
    CommandIds = {c1, c2}
    IdempotencyKeys = {k1, k2}
    AckIds = {a1, a2}
    EventIds = {e1}
    SessionIds = {s1}
    Payloads = {p1, p2}
    InvalidPayloads = {}
    AllowedCommandTypes = {"GO_TO_POSE", "PAUSE_MISSION", "CANCEL_MISSION"}
    TelemetryStaleAfter = 1
    TelemetryDegradedAfter = 2
    TelemetryOfflineAfter = 3
    MaxCommandTtl = 1
    MaxTime = 1
    DispatchInputs <- TwoRobotDispatches
    CancelInputs <- TwoRobotCancels
    CommandAcks <- TwoRobotAcks
    TelemetryEvents <- TwoRobotTelemetry
    ReconnectHandshakes <- TwoRobotHandshakes
    EdgeHellos <- TwoRobotHellos
CHECK_DEADLOCK FALSE
INVARIANTS UniqueSequences CurrentCommandMatchesMission
