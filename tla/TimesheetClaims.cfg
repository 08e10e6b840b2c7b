SPECIFICATION TimesheetSpec
CONSTANTS
    e1 = e1
    e2 = e2
    dev = dev
    boss = boss
    lead = lead
    Entries = {e1, e2}
    Users = {dev, boss, lead}
    Managers <- MCManagers
    Author <- MCAuthor
    Handlers = {h1, h2}
    Idle = Idle
    None = None
SYMMETRY HandlerSymmetry
\* One claim at a time: TLC stops at the first that fails.
PROPERTY DecidesSubmittedOnly
\* PROPERTY InvoicedIsFinal
