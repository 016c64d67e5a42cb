CONSTANTS
    c1 = c1
    c2 = c2
    Calls = {c1, c2}
    MaxTokens = 3
    MaxPerIP = 0
    MaxPerUser = 1
    Faults = {"redis", "db", "net"}
SPECIFICATION Spec
SYMMETRY CallSymmetry
CHECK_DEADLOCK FALSE
INVARIANTS TypeOK SpentOnce CounterExpires
PROPERTIES NoSpuriousLogout
