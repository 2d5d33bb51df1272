\* Two backups and two maintenance runs, each punctual, each may die; the store may
\* refuse an operation.
CONSTANTS
    b1 = b1
    b2 = b2
    m1 = m1
    m2 = m2
    Procs = {b1, b2, m1, m2}
    Exclusive = {m1, m2}
    TTL = 2
    Late = {}
    CanCrash = TRUE
    CanFail = TRUE
SYMMETRY Symmetry
SPECIFICATION Spec
INVARIANTS TypeOK Exclusion HolderIsVisible
PROPERTY IsRWLock
CHECK_DEADLOCK FALSE
