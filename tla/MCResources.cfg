CONSTANTS
    o1 = o1
    o2 = o2
    h1 = h1
    h2 = h2
    h3 = h3
    h4 = h4
    h5 = h5
    h6 = h6
    h7 = h7
    NoHandle = NoHandle
    Object <- MCObject
    Handle <- MCHandle
    Doc <- MCDoc
    FileOf <- MCFileOf
    BaseOf <- MCBaseOf
    Matching = {"a", "b", "d"}
SPECIFICATION ResourceSpec
INVARIANTS
    Accounted
    OneOwner
    OwnModule
    NoLeak
