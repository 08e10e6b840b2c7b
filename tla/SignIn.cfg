SPECIFICATION Spec
CONSTANTS
    Users = {u1, u2}
    Admins = {u1}
    Settings <- EnforcedForOthers
    Subjects = {p1}
    Provisioners = {q1}
    None = None
    Links = {l1, l2}
    Sids = {s1}
    Handlers = {h1, h2}
    IPs = {i1, i2}
    Spellings = {a1}
    PerEmail = 1
    PerIP = 1
SYMMETRY Symmetry
VIEW SignInView
INVARIANTS
    ThrottleHolds
PROPERTIES
    OnlyScimReactivates
