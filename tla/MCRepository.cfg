\* Two backups share the cache of machine a; processes die, pushes fail, s1 is removed.
CONSTANTS
    a = a
    b = b
    p1 = p1
    p2 = p2
    p3 = p3
    Machines = {a}
    Procs = {p1, p2}
    Host <- MCHost
    Blobs = {b1}
    Snapshots = {s1, s2}
    Packfiles = {k1, k2, k3}
    StateIds = {i1, i2}
    Cookied = {a}
    CanCrash = TRUE
    CanFailPush = TRUE
    Rewritten = {b1}
    Sources = {{b1}}
    Removable = {s1}
    MaxActive = 2
    MaxTicks = 1
    MaxTime = 1
SYMMETRY Symmetry
SPECIFICATION Spec
INVARIANTS TypeOK IndexSound HomeComplete Accounted
