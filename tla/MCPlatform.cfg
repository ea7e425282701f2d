CONSTANTS
    Size <- MCSize
    MaxFiles = 3
    MaxItems = 3
SPECIFICATION Spec
INVARIANTS
    TargetReady
    FrameFits
    Released
PROPERTIES
    ImplementsDropQueue
    DropsOpened
    QuitEnds
