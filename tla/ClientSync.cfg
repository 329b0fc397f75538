SPECIFICATION FairSpec
CONSTANTS
    c1 = c1
    NoRace = NoRace
    Nothing = Nothing
    N = 2
    MyIndex = 0
    RaceLength = 3
    Click <- OneClick
    MaxDrops = 1
    MaxFaults = 1
    TokenLife = TRUE
INVARIANTS TypeOK ShowsTheRace NothingTakenBack
PROPERTIES SeesEveryTurn
CHECK_DEADLOCK FALSE
