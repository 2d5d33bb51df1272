CONSTANTS
    Kinds = {"fs", "sftp", "s3", "database", "null", "http"}
    Workers = {w1, w2}
    Names <- MCNames
    Dir <- MCDir
    Bucket <- MCBucket
    Buckets <- MCBuckets
    NoDelete = TRUE
    MaxVersion = 2
    MaxTroubles = 1
SPECIFICATION Spec
INVARIANTS ListsAll RefreshIsSeen OneCreation
PROPERTY IsFileStore
