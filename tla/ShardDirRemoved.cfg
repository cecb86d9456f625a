SPECIFICATION Spec
CONSTANTS
    u1 = u1  u2 = u2
    Puts = {u1, u2}
    Gets = {g1}
    Nobody = Nobody
    Grace = 2
    PendingAge = 1
    MaxWait = 1
    MaxRecord = 1
    MaxStream = 1
    MaxTime = 3
    MaxPasses = 1
SYMMETRY SymmetricPuts
INVARIANT MaintenanceNeverFailsPut
CHECK_DEADLOCK FALSE
