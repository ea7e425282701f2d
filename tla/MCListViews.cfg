CONSTANTS
    d1 = d1
    d2 = d2
    d3 = d3
    NoDoc = NoDoc
    Doc <- MCDoc
    Calm = 2
    Window <- MCWindow
    Filter <- MCFilter
    Rows <- MCRows
    Strings <- MCStrings
SYMMETRY MCSymmetry
SPECIFICATION ListSpec
INVARIANTS
    TypeOK
    PendingIsCurrent
    Settles
    OwnRows
PROPERTIES
    CloseKeepsCurrent
