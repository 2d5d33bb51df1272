CONSTANTS
    c1 = c1  c2 = c2
    NoObject = NoObject  NoEntry = NoEntry  EmptyChunk = EmptyChunk
    Order = 3
    Kind <- MCKind
    Chunks <- MCChunks
    Holes <- MCHoles
    Attributed <- MCAttributed
    ErrorPaths <- MCErrorPaths
    Garbage <- MCGarbage
    HardLinks <- MCHardLinks
    ReadOnly <- MCReadOnly
    MaxConcurrency = 2
    MaxLost = 1
    MaxCopies = 1
    MaxReaders = 1
SPECIFICATION Spec
INVARIANTS TreesSound CopyFaithful RestoreAccounts CheckTells ArchiveWhole
CHECK_DEADLOCK FALSE
