CONSTANTS
    Width = 2
    N391 = 2
    N392 = 2
    N393 = 3
    T391 = 2
    T392 = 3
    Room = 1
    A = A
    B = B
    Ends <- MCEnds
    Polling <- MCEnds
    Circuits <- MCThree
    RestartCost = 2
    Configured <- MCAtBoth
    MaxEvents = 1
SPECIFICATION Spec
PROPERTY OnlyAbsentOmitted
