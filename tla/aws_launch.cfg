SPECIFICATION Spec
CONSTANTS
    None = None
    Provider = "AWS"
    Instance = {i1, i2}
    IP = {a1, a2}
    Prepull = "off"
    MaxLag = 2
    MaxFaults = 1
    MaxEdits = 1
    MaxCreates = 1
    SecretDeletable = FALSE
SYMMETRY Symmetry
INVARIANT SingleLaunch
CHECK_DEADLOCK FALSE
