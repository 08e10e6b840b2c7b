SPECIFICATION Spec
CONSTANTS
    Checks = {g1, g2}
    Budgets <- MCBudgets
    Amounts <- MCAmounts
    MaxLogged = 8
    MaxImports = 1
    MaxPatches = 2
    Completing = {FALSE}
    MaxConfigs = 1
    NotifySettings <- AllSettings
SYMMETRY Symmetry
\* One claim at a time: TLC stops at the first that fails.
INVARIANT AlertsQueued
\* INVARIANT EachBandOnce
\* With one check at a time it fails too, for a completing patch re-arms the bands: take
\* Checks = {g1}, Completing = {TRUE, FALSE} and MaxConfigs = 0.
\* INVARIANT LevelReached
\* INVARIANT NoEntryMissesBand
\* PROPERTY GrowthRearms
\* An instance that has used up its bounds rests.
CHECK_DEADLOCK FALSE
