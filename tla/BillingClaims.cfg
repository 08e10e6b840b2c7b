SPECIFICATION Spec
CONSTANTS
    acme = acme
    dev = dev
    boss = boss
    lead = lead
    clientCard = clientCard
    defaultCard = defaultCard
    Entries = {e1}
    Users = {dev, boss}
    Managers = {boss}
    Author <- MCAuthor
    Handlers = {h1, h2}
    Idle = Idle
    Customers = {acme}
    CustomerOf <- MCCustomerOf
    Days <- OneDay
    DayOf <- SameDay
    RoleOf <- MCRoleOf
    Cards = {defaultCard}
    CardCustomer <- MCCardCustomer
    CardRoles <- MCCardRoles
    EffectiveFrom <- FromDayOne
    Invoices = {i1, i2}
    Notes = {n1}
    None = None
SYMMETRY Symmetry
\* One claim at a time: TLC stops at the first that fails.
PROPERTY NotesLockedOnceSent
\* PROPERTY VoidIsFinal
\* PROPERTY ConsumedAreMarked
\* INVARIANT BilledOnce
\* An instance that has used up its bounds rests.
CHECK_DEADLOCK FALSE
