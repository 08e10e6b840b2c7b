SPECIFICATION Spec
CONSTANTS
    Checks = {g1, g2, g3}
    Budgets <- MCBudgets
    Amounts <- MCAmounts
    MaxLogged = 8
    MaxImports = 1
    MaxPatches = 2
    Completing = {TRUE, FALSE}
    MaxConfigs = 1
    NotifySettings <- AllSettings
SYMMETRY Symmetry
INVARIANTS
    NoMissedBand
    LevelTracks
    TwiceOnlyByRaces
PROPERTIES
    LevelOnlyRises
\* The bounds on hours and changes are reached: the instance then rests.
CHECK_DEADLOCK FALSE
