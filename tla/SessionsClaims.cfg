\* Each claim is violated; run one at a time.
SPECIFICATION Spec
CONSTANTS
    Users = {u1, u2}
    Admins = {u1}
    Settings <- EnforcedForOthers
    Subjects = {p1}
    Provisioners = {q1}
    None = None
    Links = {l1, l2}
    Sids = {s1, s2, s3}
    Handlers = {h1, h2}
    IPs = {i1}
    Spellings = {a1, a2}
    PerEmail = 1
    PerIP = 2
SYMMETRY Symmetry
INVARIANT TokensAreStored
\* INVARIANT ThrottleExact
\* INVARIANT SingleUse
\* INVARIANT FamilyKilled
\* INVARIANT MailboxLimited
