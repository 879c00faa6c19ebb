SPECIFICATION Spec
\* Once the simulator and the platform are stopped nothing happens any more.
CHECK_DEADLOCK FALSE
CONSTANTS
    s1 = s1  s2 = s2
    r1 = r1  m1 = m1  c1 = c1
    Absent = Absent
    NoSocket = NoSocket
    Sockets = {s1, s2}
    RobotId = r1
    Commands <- GoToPose
    MaxInFlight = 1
    MaxTasks = 1
    MaxCuts = 1
INVARIANTS TypeOK OneConnection HeartbeatsFollowConnection ServiceKnowsTheRobot
    NothingAfterTheRepository
PROPERTIES Reconnects ShutdownEnds
