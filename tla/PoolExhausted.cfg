SPECIFICATION FairSpec
CONSTANTS
    Procs = {p1, p2}
    Conns = {c1, c2}
    Pool = Pool
    MaxRules = 1
PROPERTIES
    ConnsShortLived
\* The standstill itself is the counterexample: report it as one.
CHECK_DEADLOCK FALSE
