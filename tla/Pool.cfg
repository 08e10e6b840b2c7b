SPECIFICATION FairSpec
CONSTANTS
    Procs = {p1, p2, p3, p4}
    Conns = {c1, c2, c3}
    Pool = Pool
    MaxRules = 1
INVARIANTS
    StandstillTakesAll
PROPERTIES
    Answered
\* The pool may really come to a standstill, with everybody waiting.
CHECK_DEADLOCK FALSE
