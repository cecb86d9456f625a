SPECIFICATION Spec
CONSTANTS
    u1 = u1  u2 = u2
    Puts = {u1, u2}
    Gets = {g1}
    Nobody = Nobody
    Grace = 2
    PendingAge = 0
    MaxWait = 1
    MaxRecord = 1
    MaxStream = 1
    MaxTime = 3
    MaxPasses = 1
SYMMETRY SymmetricPuts
INVARIANTS TypeOK InstalledBlobStays
PROPERTIES OnlyOrphansRemoved BlobRefinement
CHECK_DEADLOCK FALSE
