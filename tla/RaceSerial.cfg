SPECIFICATION Spec
CONSTANTS
    anna = anna
    ben = ben
    h1 = h1
    h2 = h2
    s1 = s1
    s2 = s2
    NoGame = NoGame
    Player <- MCPlayer
    PlayerOrder <- MCOrder
    Call <- MCCall
    Starter <- OneStarter
    LapCount = 1
    MaxOverlap = 1
    MaxFaults = 1
    MaxMoveSeq = 3
    MaxReplay = 3
INVARIANTS ReplayLogsEveryMove
PROPERTIES ImplementsTurnRace
CHECK_DEADLOCK FALSE
