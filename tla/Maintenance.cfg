SPECIFICATION Spec
CONSTANTS
    h1 = h1   c1 = c1
    Helpers = {h1}
    Prunes = {c1}
    None = None
    MaxFaults = 1
INVARIANTS TypeOK StampsEarned DueIsDone
PROPERTIES ScanRecurs
