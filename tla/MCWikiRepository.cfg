SPECIFICATION RepositorySpec
CONSTANTS
    Caller = {p}
    Doc = {d}
    Content = {c1, c2}
    c1 = c1
    c2 = c2
    v1 = v1
    Short <- ShortVersions
    MaxBuild = 3
    Faults = {"write", "crash"}
    MaxFaults = 3
    None = None
INVARIANTS PublishedIsLive
PROPERTIES KeepsItsPromise
CHECK_DEADLOCK TRUE
