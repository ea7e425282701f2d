CONSTANTS
    a1 = a1
    a2 = a2
    a3 = a3
    NoAddr = NoAddr
    Addr <- RealAddr
    MaxDepth = 5
SPECIFICATION Spec
PROPERTIES
    ReturnMoves
    ImplementsHistory
