SPECIFICATION Spec
CONSTANTS
    Car <- TwoCars
    Unlocked <- OneUnlocked
    NoCar <- NoSuchCar
    Nothing = Nothing
    MaxChanges = 1
    MaxPolls = 2
    MaxFailures = 1
    MaxLate = 1
    MaxTroubles = 1
    MaxCalls = 2
    MaxUnread = 1
INVARIANTS TypeOK SelectedIsUnlocked BusyEnds LoadingEnds PanelFitsTheRoom RosterIsCurrent OfflineIsTrue
PROPERTIES ListCatchesUp
CHECK_DEADLOCK FALSE
