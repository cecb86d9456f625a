SPECIFICATION FairSpec
CONSTANTS
    Runs = {r1, r2}
    Maint = Maint
    Clean = Clean
    None = None
    WithClean = FALSE
    KilledHalfway = {}
    MaxFaults = 1
PROPERTY DeadRunRemoved
