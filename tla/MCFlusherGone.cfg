\* The store refuses a packfile and the backup is committed all the same.
CONSTANTS
    c1 = c1
    c2 = c2
    w1 = w1
    w2 = w2
    x = x
    y = y
    z = z
    h = h
    Clients = {c1, c2}
    Workers = {w1, w2}
    Blobs = {x, y, z, h}
    Header = h
    Known = {}
    Wants <- MCWants
    ChanCap = 2
    ResultCap = 1
    Full <- MCFull
    CanFail = TRUE
SPECIFICATION Spec
INVARIANT CommitComplete
CHECK_DEADLOCK FALSE
