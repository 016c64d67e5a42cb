CONSTANTS
    j1 = j1
    j2 = j2
    w1 = w1
    w2 = w2
    NoJob = NoJob
    Jobs = {j1, j2}
    StatsJobs = {j2}
    Workers = {w1, w2}
    MaxRetry = 1
    MaxRows = 2
    PageSize = 1
    MaxRequests = 1
    MaxRestarts = 1
    Faults = {"api", "db", "cos", "build", "timeout", "lease", "shutdown", "crash"}
SPECIFICATION Spec
SYMMETRY WorkerSymmetry
CHECK_DEADLOCK FALSE
INVARIANTS TypeOK ResultIsStored RowConsistent PromisedJobIsScheduled CompletedTaskHasResult
PROPERTIES PromiseKept QuietRowIsFinal
