SPECIFICATION FairSpec
CONSTANTS
    anna = anna
    ben = ben
    p1 = p1
    h1 = h1
    h2 = h2
    Nowhere = Nowhere
    User <- MCUser
    Proc <- MCProc
    Handler <- MCHandler
    RaceLength = 2
    MaxLosses = 1
INVARIANTS TypeOK
PROPERTIES StartsOnce RaceStarts RaceMovesOn
CHECK_DEADLOCK FALSE
