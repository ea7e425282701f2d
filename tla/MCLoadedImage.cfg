CONSTANTS
    W32 = 128
    W16 = 16
    Width <- MCWidth
    MaxName = 3
    Files <- WholeOrCut
    Tables <- MCTables
    Base = 5
    MaxLength = 4
SPECIFICATION LoadSpec
INVARIANTS
    Ascending
    Tiles
    OffsetsAgree
    SearchesAgree
    OffsetsInjective
    SlotsHoldThunks
    NamesResolve
    CutListing
PROPERTIES
    SweepEnds
