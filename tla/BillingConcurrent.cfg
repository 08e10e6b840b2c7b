SPECIFICATION Spec
CONSTANTS
    acme = acme
    dev = dev
    boss = boss
    lead = lead
    clientCard = clientCard
    defaultCard = defaultCard
    Entries = {e1, e2}
    Users = {boss}
    Managers = {boss}
    Author <- BossAuthor
    Handlers = {h1, h2}
    Idle = Idle
    Customers = {acme}
    CustomerOf <- MCCustomerOf
    Days <- OneDay
    DayOf <- SameDay
    RoleOf <- MCRoleOf
    Cards = {defaultCard}
    CardCustomer <- MCCardCustomer
    CardRoles <- MCCardRoles
    EffectiveFrom <- FromDayOne
    Invoices = {i1, i2}
    Notes = {}
    None = None
SYMMETRY EntrySymmetry
CONSTRAINTS
    OneRaced
INVARIANTS
    InvoicedIsOnInvoice
    NoEmptyInvoice
    InvoiceTrailExplains
    BilledTwiceOnlyByRaces
PROPERTIES
    ImplementsPromise
\* Everything may have been logged, billed and voided: the system then rests.
CHECK_DEADLOCK FALSE
