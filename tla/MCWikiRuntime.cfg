SPECIFICATION FairSpec
CONSTANTS
    Caller = {"worker", "api"}
    Reader = {r}
    Doc = {d1, d2}
    d1 = d1
    d2 = d2
    Content = {c1}
    c1 = c1
    v1 = v1
    Short <- ShortVersions
    Batches <- Singles
    Drafting = {TRUE, FALSE}
    MaxVersion = 3
    MaxBuild = 3
    Faults = {"write", "upload", "compile", "retire", "crash"}
    MaxFaults = 1
    None = None
INVARIANTS
    LiveIsRightful
    StoresAgree
PROPERTIES
    NothingIsLost
    JobsFinish
CHECK_DEADLOCK FALSE
