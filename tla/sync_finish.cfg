CONSTANTS
    i1 = i1
    p1 = p1
    p2 = p2
    p3 = p3
    q1 = q1
    a1 = a1
    b1 = b1
    b2 = b2
    f1 = f1
    f2 = f2
    NoItem = NoItem
    Inspections = {i1}
    Points = {p1, p2, p3}
    Problems = {}
    Assets = {}
    ownerOf <- Owner
    seqOf <- PointSeq
    Batches = {b1}
    Finishers = {f1, f2}
    MaxBatches = 2
    Faults = {"item", "net"}
SPECIFICATION Spec
SYMMETRY RequestSymmetry
CHECK_DEADLOCK FALSE
INVARIANTS FinishSeesEveryPoint
PROPERTIES ClosedIsFinal
