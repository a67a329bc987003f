SPECIFICATION Spec
CONSTANTS
    Ids = {i1, i2}
    Names = {n1}
    Configs = {c1}
    NoId = NoId
    NoConfig = NoConfig
    NoProfile = NoProfile
    NotRunning = NotRunning
    NoFile = NoFile
    Blank = Blank
    Torn = Torn
    writer = writer
    w1 = w1
    Procs <- MCProcs
    Writers <- MCWriters
    ProcOf <- MCProcOf
INVARIANTS PathDecodes SavedMeansOnDisk SelectionExists
PROPERTY SaveIsAtomic
