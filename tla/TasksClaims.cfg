SPECIFICATION Spec
CONSTANTS
    Tasks = {t1}
    Handlers = {h1, h2}
    TaskForms <- AnyForms
    TaskPatches <- AnyPatches
    ProjectPatches <- Moves
    JiraStatuses <- FromJira
    Linkable = {t1}
    Null = Null
SYMMETRY Symmetry
\* One claim at a time: TLC stops at the first that fails.
PROPERTY DoneLeftByReopening
\* PROPERTY WaivedIsTerminal
\* PROPERTY NeverStartedWithout
\* PROPERTY PushedWithChange
\* PROPERTY GatesAlwaysKept
\* INVARIANT AnnouncedOnce
\* INVARIANT LatestRowTells
\* An instance that has used up its bounds rests.
CHECK_DEADLOCK FALSE
