SPECIFICATION TimesheetSpec
CONSTANTS
    e1 = e1
    e2 = e2
    dev = dev
    boss = boss
    lead = lead
    Entries = {e1, e2}
    Users = {dev, boss, lead}
    Managers <- MCManagers
    Author <- MCAuthor
    Handlers = {h1, h2}
    Idle = Idle
    None = None
SYMMETRY HandlerSymmetry
INVARIANTS
    DecisionsAuthorized
\* All time may be approved and invoiced: the system then rests.
CHECK_DEADLOCK FALSE
