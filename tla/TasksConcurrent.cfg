SPECIFICATION Spec
CONSTANTS
    Tasks = {t1}
    Handlers = {h1, h2}
    TaskForms <- UngatedForms
    TaskPatches <- PlainPatches
    ProjectPatches <- Moves
    JiraStatuses <- FromJira
    Linkable = {t1}
    Null = Null
SYMMETRY Symmetry
VIEW Read
INVARIANTS
    DoneIsCompleted
    AuditTellsStatus
    TwiceHeardOnlyByRaces
PROPERTIES
    GatesKept
\* A deleted project with deleted tasks rests.
CHECK_DEADLOCK FALSE
