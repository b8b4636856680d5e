CONSTANTS
    n1 = n1  n2 = n2
    Norns <- McNorns
    MaxSaves = 3
    MaxTroubles = 2
    DiskFills = FALSE
SPECIFICATION FilesSpec
CHECK_DEADLOCK FALSE
INVARIANTS WholeSomewhere 
