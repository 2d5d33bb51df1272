CONSTANTS
    c1 = c1
    NoObject = NoObject
    Backups = 2
    Trees <- MCTrees
    Content <- MCContent
    MaxConcurrency = 2
    Faulty = {1}
    Interruptible = {1}
    MaxScanErrors = 1
    Packs <- MCPacks
    MaxChanges = 1
SPECIFICATION Spec
INVARIANTS NoSilentLoss Complete ErrorsAreShown
PROPERTY BackupReturns
CHECK_DEADLOCK FALSE
