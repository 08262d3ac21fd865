SPECIFICATION Spec
CONSTANTS
    N = 2
    Bytes = {0, 1, 2, 3}
    Contents <- MCContents
    Keys = {0, 3}
    Parities = {0}
    W = 32
    Missing = Missing
    MaxPage = 2
INVARIANTS EvenlyDivisible
CHECK_DEADLOCK FALSE
