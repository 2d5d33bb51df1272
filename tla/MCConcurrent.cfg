\* Two commands at a time on one machine; the store may refuse any state file or fail
\* to give any blob, and maintenance may be cut short.
CONSTANTS
    a = a
    b = b
    p1 = p1
    p2 = p2
    p3 = p3
    Machines = {a}
    Procs = {p1, p2}
    Host <- MCHost
    Blobs = {b1}
    Snapshots = {s1, s2}
    Packfiles = {k1, k2, k3}
    StateIds = {i1, i2, i3}
    Cookied = {a}
    CanCrash = FALSE
    CanFailPush = TRUE
    Rewritten = {b1}
    Sources = {{b1}}
    Removable = {s1}
    MaxActive = 2
    MaxTicks = 0
    MaxTime = 0
    Grace = 0
    Maintainers = {a}
    Attached <- MCAttached
    Nodes = {b1}
    CanFailRead = TRUE
    CanAbort = TRUE
    MaxRuns = 2
SYMMETRY Symmetry
SPECIFICATION MSpec
INVARIANT IndexSound
PROPERTIES OnlyColoursHide RemovedStaysHidden
