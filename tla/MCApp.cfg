CONSTANTS
    d1 = d1
    d2 = d2
    NoDoc = NoDoc
    NoAddr = 9
    Freed = Freed
    Doc <- MCDoc
    Calm = 0
    Addr <- AnyAddr
    Entry <- MCEntry
    Row <- MCRow
    Section <- SomeBytes
    Beyond <- MCBeyond
    MaxActs = 3
    MaxKeys = 1
SPECIFICATION AppSpec
INVARIANTS
    AppTypeOK
    ScrollIsToHistory
    SelectionIsRow
    DialogsNeedDocument
PROPERTIES
    OnlyCurrentMoves
    HexFollowsBytes
