SPECIFICATION Spec
CONSTANTS
    anna = anna
    ben = ben
    h1 = h1
    h2 = h2
    s1 = s1
    s2 = s2
    NoGame = NoGame
    Player <- MCPlayer
    PlayerOrder <- MCOrder
    Call <- MCCall
    Starter <- TwoStarters
    LapCount = 1
    MaxOverlap = 2
    MaxFaults = 1
    MaxMoveSeq = 2
    MaxReplay = 2
SYMMETRY SlotSymmetry
INVARIANTS TypeOK TurnLockstep ReplayTurnOrder FinishedRoomHasNoRace
PROPERTIES MovesAreKept
CHECK_DEADLOCK FALSE
