\* No crash and no failure, and a file that a row names is deleted.
CONSTANTS
    Keepers = {k1, k2}
    MaxSaves = 2
    MaxAccidents = 0
SPECIFICATION BlobsSpec
INVARIANT FilesKept
CHECK_DEADLOCK FALSE
