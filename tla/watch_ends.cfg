CONSTANTS
    j1 = j1
    j2 = j2
    w1 = w1
    w2 = w2
    NoJob = NoJob
    Jobs = {j1}
    StatsJobs = {j1}
    Workers = {w1, w2}
    MaxRetry = 1
    MaxRows = 1
    PageSize = 1
    MaxRequests = 1
    MaxRestarts = 0
    Faults = {"build", "cos", "timeout", "crash"}
    Watched = j1
    MaxWire = 3
    WatchFaults = {"read", "net", "poll"}
SPECIFICATION FairComposedSpec
CHECK_DEADLOCK FALSE
INVARIANTS ShownLinkWorks
PROPERTIES PromisedJobSettles PromisedJobEnds WatcherEnds
