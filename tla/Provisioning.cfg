SPECIFICATION Spec
CONSTANTS
    SfDeals = {d1}
    HsDeals = {d2}
    Accounts = {a1}
    AccountOf <- SameAccount
    Secrets = {k1}
    Contents <- DefaultTask
    Files <- TwoFiles
    MaxAttempts = 2
    MaxTemplates = 2
    MaxProjects = 1
    MaxLines = 1
    MaxMishaps = 1
    None = None
INVARIANTS
    TypeOK
    ProjectPerDeal
    OneCustomer
    CountsAgree
PROPERTIES
    Onboarded
