CONSTANTS
    d1 = d1
    d2 = d2
    NoDoc = NoDoc
    NoAddr = 9
    Freed = Freed
    Doc <- MCDoc
    Calm = 2
    Addr <- RealAddr
    Entry <- MCEntry
    Row <- MCRow
    Section <- AllBytes
    Beyond <- MCBeyond
    MaxActs = 3
    MaxKeys = 1
SPECIFICATION AppSpec
PROPERTIES
    XrefsOfDocument
