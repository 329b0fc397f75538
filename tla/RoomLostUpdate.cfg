SPECIFICATION Spec
CONSTANTS
    anna = anna
    ben = ben
    carl = carl
    q1 = q1
    q2 = q2
    t1 = t1
    t2 = t2
    a = a
    b = b
    NoRoom = NoRoom
    User <- TwoUsers
    Room <- OneRoom
    Request <- MCRequest
    Task <- OneTask
    MaxPlayers = 2
    MaxAttempts = 2
    MaxOverlap = 2
    MaxQueued = 1
    MaxFaults = 0
    MaxDeaths = 0
    MaxEvictions = 0
PROPERTIES ReadyIsKept
CHECK_DEADLOCK FALSE
