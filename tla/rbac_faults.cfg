CONSTANTS
    r1 = r1
    r2 = r2
    u1 = u1
    p1 = p1
    p2 = p2
    all = all
    NoPerm = NoPerm
    x1 = x1
    x2 = x2
    e1 = e1
    e2 = e2
    Roles = {r1, r2}
    SystemRoles = {r2}
    Users = {u1}
    Rights = {p1, p2, all}
    Perms = {p1, p2}
    Matches <- MCMatches
    Seed <- MCSeed
    Replicas = {x1, x2}
    Admins = {e1, e2}
    MaxEdits = 2
    Faults = {"db", "net", "crash"}
SPECIFICATION Spec
SYMMETRY PolicySymmetry
CHECK_DEADLOCK FALSE
INVARIANTS TypeOK PolicyIsAsEdited
