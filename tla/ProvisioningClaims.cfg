\* Each claim is violated; run one at a time.
SPECIFICATION Spec
CONSTANTS
    SfDeals = {d1}
    HsDeals = {d2}
    Accounts = {a1}
    AccountOf <- SameAccount
    Secrets = {k1}
    Contents <- DefaultTask
    Files <- TwoFiles
    MaxAttempts = 2
    MaxTemplates = 3
    MaxProjects = 1
    MaxLines = 1
    MaxMishaps = 1
    None = None
INVARIANT TemplateFlagsKept
\* INVARIANT OneActive
\* INVARIANT OneProject
\* INVARIANT NothingDropped
