SPECIFICATION Spec
CONSTANTS
    acme = acme
    dev = dev
    boss = boss
    lead = lead
    clientCard = clientCard
    defaultCard = defaultCard
    Entries = {e1, e2}
    Users = {dev, boss}
    Managers = {boss}
    Author <- MCAuthor
    Handlers = {h1}
    Idle = Idle
    Customers = {acme}
    CustomerOf <- MCCustomerOf
    Days <- TwoDays
    DayOf <- FirstThenNext
    RoleOf <- MCRoleOf
    Cards = {defaultCard}
    CardCustomer <- MCCardCustomer
    CardRoles <- MCCardRoles
    EffectiveFrom <- ClientCardFromDayTwo
    Invoices = {i1, i2}
    Notes = {n1}
    None = None
SYMMETRY Symmetry
PROPERTIES
    ImplementsTimesheet
\* Everything may have been logged, billed and voided: the system then rests.
CHECK_DEADLOCK FALSE
