SPECIFICATION FairSpec
CONSTANTS
    Runs = {r1}
    Maint = Maint
    Clean = Clean
    None = None
    WithClean = FALSE
    KilledHalfway = {"removing"}
    MaxFaults = 1
PROPERTY DeadRunRemoved
