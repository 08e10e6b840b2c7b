SPECIFICATION Spec
CONSTANTS
    Jobs = {j1, j2}
    Workers = {w1}
    Handlers = {h1}
    Comments = {c1}
    Flow <- AnyMove
    None = None
    MaxOverlaps = 1
INVARIANTS
    MirroredOnce
PROPERTIES
    SkippedIsKnown
    TakenOver
