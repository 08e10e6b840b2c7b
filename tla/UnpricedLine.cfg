SPECIFICATION Spec
CONSTANTS
    acme = acme
    dev = dev
    boss = boss
    lead = lead
    clientCard = clientCard
    defaultCard = defaultCard
    Entries = {e1, e2}
    Users = {dev, boss, lead}
    Managers = {boss, lead}
    Author <- TwoAuthors
    Handlers = {h1, h2}
    Idle = Idle
    Customers = {acme}
    CustomerOf <- MCCustomerOf
    Days <- OneDay
    DayOf <- SameDay
    RoleOf <- TwoRoles
    Cards = {defaultCard}
    CardCustomer <- MCCardCustomer
    CardRoles <- MCCardRoles
    EffectiveFrom <- FromDayOne
    Invoices = {i1}
    Notes = {}
    None = None
SYMMETRY Symmetry
INVARIANTS
    EveryLinePriced
\* Everything may have been logged, billed and voided: the system then rests.
CHECK_DEADLOCK FALSE
