SPECIFICATION FairSpec
CONSTANTS
    None = None
    Provider = "AWS"
    Instance = {i1}
    IP = {a1, a2}
    Prepull = "filtered"
    MaxLag = 1
    MaxFaults = 1
    MaxEdits = 0
    MaxCreates = 1
    SecretDeletable = FALSE
PROPERTY DeletionCompletes
PROPERTY RecordedReachesReady
CHECK_DEADLOCK FALSE
