SPECIFICATION Spec
CONSTANTS
    h1 = h1  h2 = h2  p1 = p1
    a1 = a1  a2 = a2  o1 = o1  o2 = o2  t1 = t1
    None = None
    NoTag = NoTag
    Handlers = {h1}
    Helpers = {p1}
    HelperOf <- OneHelper
    Actions = {a1, a2}
    Outputs = {o1, o2}
    Tags = {o1, o2, t1}
    Tag <- DistinctTags
    MaxId = 2
    MayLoseSequence = TRUE
SYMMETRY SymmetricOutputs
INVARIANTS TypeOK NoWrongArtifact
CHECK_DEADLOCK FALSE
