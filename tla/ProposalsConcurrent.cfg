SPECIFICATION Spec
CONSTANTS
    Approvals = {a1, a2}
    Titles = {t1}
    Sheets = {s1}
    Migrations = {m1}
    Handlers = {h1, h2}
    Contacts = {ann}
    Managers = {boss}
    Null = Null
    MaxOpenings = 2
SYMMETRY Symmetry
CONSTRAINTS
    OneKind
    OneReopened
INVARIANTS
    TypeOK
    OncePerOpening
    LowIsEscalated
    EffectsOnTrail
PROPERTIES
    ImplementsPromise
