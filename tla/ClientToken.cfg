SPECIFICATION FairSpec
CONSTANTS
    c1 = c1
    NoRace = NoRace
    Nothing = Nothing
    N = 2
    MyIndex = 0
    RaceLength = 3
    Click <- OneClick
    MaxDrops = 0
    MaxFaults = 0
    TokenLife = TRUE
PROPERTY StaysInSync
CHECK_DEADLOCK FALSE
