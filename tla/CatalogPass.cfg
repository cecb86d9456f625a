SPECIFICATION Spec
CONSTANTS
    o1 = o1  o2 = o2  o3 = o3
    Actions = {1, 2}
    Outputs = {o1, o2, o3}
    Size <- Sizes
    FirstId <- Ids
    MaxSize = 1
    Cutoff = 2
    ScanCutoff = 2
    AgeBatch = 1
    AgeMaxBatches = 2
    PageSize = 1
    MaxTime = 3
    MaxId = 4
INVARIANTS TypeOK KeptFits
PROPERTIES EntriesExpired ColdestFirst NeverOverEvicts PassEnds
CHECK_DEADLOCK FALSE
