\* Nothing fails: maintenance on one machine after a backup on the other.
CONSTANTS
    a = a
    b = b
    p1 = p1
    p2 = p2
    p3 = p3
    Machines = {a, b}
    Procs = {p1, p3}
    Host <- MCHost
    Blobs = {b1}
    Snapshots = {s1, s2}
    Packfiles = {k1, k2, k3, k4}
    StateIds = {i1, i2, i3, i4, i5, i6, i7}
    Cookied = {a, b}
    CanCrash = FALSE
    CanFailPush = FALSE
    Rewritten = {b1}
    Sources = {{b1}}
    Removable = {s1}
    MaxActive = 2
    MaxTicks = 0
    MaxTime = 0
    Grace = 1
    Maintainers = {a, b}
    Attached <- MCAttached
    Nodes = {}
    CanFailRead = FALSE
    CanAbort = FALSE
    MaxRuns = 2
SPECIFICATION MSpec
INVARIANT ActiveRetained
