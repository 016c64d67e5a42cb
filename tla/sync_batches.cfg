CONSTANTS
    i1 = i1
    p1 = p1
    p2 = p2
    p3 = p3
    q1 = q1
    a1 = a1
    b1 = b1
    b2 = b2
    f1 = f1
    f2 = f2
    NoItem = NoItem
    Inspections = {i1}
    Points = {p1, p2}
    Problems = {q1}
    Assets = {a1}
    ownerOf <- Owner
    seqOf <- PointSeq
    Batches = {b1, b2}
    Finishers = {}
    MaxBatches = 2
    Faults = {"net"}
SPECIFICATION Spec
SYMMETRY RequestSymmetry
CHECK_DEADLOCK FALSE
INVARIANTS TypeOK OwnersAreStored
PROPERTIES IngestedOnce
