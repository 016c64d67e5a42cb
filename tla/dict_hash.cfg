CONSTANTS
    i1 = i1
    i2 = i2
    c1 = c1
    c2 = c2
    w1 = w1
    w2 = w2
    p1 = p1
    p2 = p2
    b1 = b1
    NoItem = NoItem
    Items = {i1, i2}
    Codes = {c1, c2}
    CodeOf <- TwoCodes
    Labels = {1, 2}
    Extras = {1}
    Writers = {w1, w2}
    Publishers = {}
    Browsers = {}
    Values = {1, 2}
    MaxWrites = 3
    Faults = {}
SPECIFICATION Spec
CHECK_DEADLOCK FALSE
INVARIANTS HashMatchesItems
