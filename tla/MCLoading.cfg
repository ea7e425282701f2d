CONSTANTS
    n1 = n1
    n2 = n2
    Addr <- MCAddr
    Name <- MCName
    MaxOffers = 6
    MaxNames = 3
    Codes <- MCCodes
    Images <- MCImages
    MinLen = 2
    MaxBytes = 6
SYMMETRY MCSymmetry
SPECIFICATION LoadSpec
CONSTRAINT OneAtATime
INVARIANTS
    StrongestShown
    CallsNamed
    RefsComplete
    AlignedListed
    NoneInvented
PROPERTIES
    NamesStay
