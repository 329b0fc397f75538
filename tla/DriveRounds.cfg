SPECIFICATION Spec
CONSTANTS
    finger = finger
    thumb = thumb
    NoPointer = NoPointer
    NoPreview = NoPreview
    Waypoints <- Rectangle
    HalfWidth = 1
    Grain = 3
    MaxThrust = 3
    MaxInertia = 44
    Mass = 30
    Acceleration = 100
    Pointer <- TwoFingers
    Target <- MCTarget
    Players = 2
    HalfGap = 1
    MaxSpeed = 4
    MaxAway = 2
    MaxLaps = 2
    MaxRounds = 1
INVARIANT LapsAreRounds
CHECK_DEADLOCK FALSE
