SPECIFICATION Spec
CONSTANTS
    Approvals = {a1, a2}
    Titles = {t1}
    Sheets = {s1}
    Migrations = {m1}
    Handlers = {h1, h2}
    Contacts = {ann}
    Managers = {boss}
    Null = Null
    MaxOpenings = 2
SYMMETRY Symmetry
\* One claim at a time: TLC stops at the first that fails.
INVARIANT SheetExecutedOnce
\* INVARIANT TrailTellsMigrations
\* INVARIANT ApprovedIsExecuted
\* INVARIANT NoTwins
\* INVARIANT OneOpenEscalation
\* INVARIANT ManagersDecide
\* PROPERTY LowFindsOpen
\* PROPERTY NothingWhileDisabled
