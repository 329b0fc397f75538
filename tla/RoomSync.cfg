SPECIFICATION FairSpec
CONSTANTS
    anna = anna
    ben = ben
    carl = carl
    q1 = q1
    q2 = q2
    t1 = t1
    t2 = t2
    a = a
    b = b
    NoRoom = NoRoom
    User <- OneUser
    Room <- OneRoom
    Request <- OneRequest
    Task <- TwoTasks
    MaxPlayers = 2
    MaxAttempts = 2
    MaxOverlap = 1
    MaxQueued = 1
    MaxFaults = 2
    MaxDeaths = 1
    MaxEvictions = 1
INVARIANTS TypeOK SyncedWhenQuiet
PROPERTIES RoomGetsListed
CHECK_DEADLOCK FALSE
