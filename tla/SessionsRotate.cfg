SPECIFICATION Spec
CONSTANTS
    Users = {u1}
    Admins = {u1}
    Settings = {}
    Subjects = {}
    Provisioners = {}
    None = None
    Links = {l1}
    Sids = {s1, s2, s3}
    Handlers = {h1, h2}
    IPs = {i1}
    Spellings = {a1}
    PerEmail = 1
    PerIP = 2
SYMMETRY Symmetry
VIEW RotateView
INVARIANTS
    Succession
    ForkedOnlyByRaces
    EndedStaysEnded
    BegunByMember
