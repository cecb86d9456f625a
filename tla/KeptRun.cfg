SPECIFICATION Spec
CONSTANTS
    Runs = {r1, r2}
    Maint = Maint
    Clean = Clean
    None = None
    WithClean = FALSE
    KilledHalfway = {}
    MaxFaults = 0
INVARIANT KeptDirStays
