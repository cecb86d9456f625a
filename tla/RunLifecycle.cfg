SPECIFICATION Spec
CONSTANTS
    Runs = {r1, r2}
    Maint = Maint
    Clean = Clean
    None = None
    WithClean = TRUE
    KilledHalfway = {"making", "removing"}
    MaxFaults = 1
INVARIANTS TypeOK LiveRunKept RetentionSucceeds EscapedPathsKept SweepSparesRecent CleanWaitsForRuns
SYMMETRY Symmetry
