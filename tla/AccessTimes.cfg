SPECIFICATION Spec
CONSTANTS
    h1 = h1  h2 = h2  p1 = p1  p2 = p2
    a1 = a1  o1 = o1
    Handlers = {h1, h2}
    Helpers = {p1, p2}
    HelperOf <- OneGetEach
    Entries = {a1}
    Outputs = {o1}
    OutputOf <- SameOutput
    FlushEvery = 1
    MaxAge = 1
    Slack = 1
    Delay = 1
    PromptFlush = TRUE
    MaxTime = 4
SYMMETRY SwapHelpers
INVARIANTS TypeOK HitsKept
PROPERTIES ExpirySparesUsed EvictsOnlyCold
CHECK_DEADLOCK FALSE
