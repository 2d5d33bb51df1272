CONSTANTS
    b1 = b1  m1 = m1  c1 = c1  c2 = c2  w1 = w1  w2 = w2
    Clients = {c1, c2}
    Nobody = Nobody
    MaxEvents = 1
    Mortal = {c1}
    Backups = {b1}
    Maintainers = {m1}
    Retention <- MCRetention
    Old = 2
    Peer <- MCPeer
    Default = Default
    AnyJob = AnyJob
    TTL = 3
    Late = {}
    CanCrash = TRUE
    CanFail = FALSE
    Importers = {"fs", "sftp", "ftp", "s3"}
    Tree <- MCTree
    Top <- MCTop
    Link <- MCLink
    Alike <- MCAlike
    ScanWorkers = {w1, w2}
    MaxErrors = 2
    MaxBlobs = 3
    MaxLength = 2
    MACSize = 2
    SealSize = 2
    ChunkSize = 3
    MaxChunks = 3
    MaxChunkLength = 2
    MaxSize = 4
SPECIFICATION Spec
INVARIANTS StatusTells ScanComplete ReadBack ReaderSound
PROPERTIES CommandsEnd DeadLocksGo KeepsOne
CHECK_DEADLOCK FALSE
