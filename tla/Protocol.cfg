SPECIFICATION Spec
CONSTANTS
    MaxConcurrency = 2
    MaxRequests = 4
    Signals = TRUE
    WriteFailures = TRUE
INVARIANTS TypeOK ServedBeforeClose 
PROPERTIES RequestsAnswered EventuallyExits
