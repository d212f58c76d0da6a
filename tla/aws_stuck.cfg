SPECIFICATION FairSpec
CONSTANTS
    None = None
    Provider = "AWS"
    Instance = {i1, i2}
    IP = {a1, a2}
    Prepull = "off"
    MaxLag = 1
    MaxFaults = 0
    MaxEdits = 0
    MaxCreates = 1
    SecretDeletable = FALSE
PROPERTY CreationRecovers
CHECK_DEADLOCK FALSE
