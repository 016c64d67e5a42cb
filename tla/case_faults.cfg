CONSTANTS
    r1 = r1
    r2 = r2
    t1 = t1
    q1 = q1
    open = open
    closed = closed
    u1 = u1
    u2 = u2
    c1 = c1
    reader = reader
    ann = ann
    NoStatus = NoStatus
    NoRow = NoRow
    Projects = {r1, r2}
    Tasks = {t1}
    Problems = {q1}
    codeOf <- Code
    Inspectors = {ann}
    inspectorOf <- Reporter
    StatusItems = {open, closed}
    Updaters = {u1, u2}
    Clients = {c1}
    Readers = {reader}
    MaxEntries = 2
    Faults = {"db"}
SPECIFICATION Spec
SYMMETRY CaseSymmetry
CHECK_DEADLOCK FALSE
INVARIANTS TypeOK StatusIsLogged OverviewAddsUp
