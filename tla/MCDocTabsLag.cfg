CONSTANTS
    d1 = d1
    d2 = d2
    d3 = d3
    NoDoc = NoDoc
    Doc <- MCDoc
    Calm = 3
SPECIFICATION Spec
PROPERTIES
    CtrlWClosesWanted
