SPECIFICATION Spec
CONSTANTS
    Jobs = {j1, j2}
    Workers = {w1}
    Handlers = {h1, h2}
    Comments = {c1}
    Flow <- AnyMove
    None = None
    MaxOverlaps = 2
SYMMETRY Symmetry
\* One claim at a time: TLC stops at the first that fails.
INVARIANT AlwaysInStep
\* INVARIANT MirroredOnce
\* INVARIANT CompletedInJira
\* PROPERTY AllSkippedKnown
