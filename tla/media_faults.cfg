CONSTANTS
    m1 = m1
    r1 = r1
    r2 = r2
    w1 = w1
    w2 = w2
    g1 = g1
    g2 = g2
    NoMedia = NoMedia
    NoGroup = NoGroup
    Media = {m1}
    Requests = {r1, r2}
    Workers = {w1, w2}
    Groups = {g1, g2}
    MaxVersions = 2
    MaxRetry = 2
    SyncStates = {"CAPTURED_RAW", "QUEUED", "UPLOADING", "CONFIRMED"}
    Faults = {"api", "db", "cos", "redis", "lease", "crash"}
SPECIFICATION FairSpec
CHECK_DEADLOCK FALSE
INVARIANTS TypeOK VerifiedWasStored TiersShareGroup SiblingIsStored EnqueuedOnce
PROPERTIES PromiseKept DeriveSettles StaleIsFlagged
