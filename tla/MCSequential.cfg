\* One command at a time, on two machines: backups, removals, maintenance that may
\* be cut short.
CONSTANTS
    a = a
    b = b
    p1 = p1
    p2 = p2
    p3 = p3
    Machines = {a, b}
    Procs = {p1, p3}
    Host <- MCHost
    Blobs = {b1, b2}
    Snapshots = {s1, s2}
    Packfiles = {k1, k2, k3, k4}
    StateIds = {i1, i2, i3, i4, i5, i6, i7}
    Cookied = {a, b}
    CanCrash = FALSE
    CanFailPush = FALSE
    Rewritten = {b1}
    Sources = {{b1}, {b2}}
    Removable = {s1}
    MaxActive = 1
    MaxTicks = 0
    MaxTime = 1
    Grace = 1
    Maintainers = {a}
    Attached <- MCAttached
    Nodes = {b1}
    CanFailRead = FALSE
    CanAbort = TRUE
    MaxRuns = 3
SPECIFICATION MSpec
INVARIANT NamedRetained
