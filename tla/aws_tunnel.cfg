SPECIFICATION Spec
CONSTANTS
    None = None
    Provider = "AWS"
    Instance = {i1, i2}
    IP = {a1, a2}
    Prepull = "off"
    MaxLag = 1
    MaxFaults = 1
    MaxEdits = 0
    MaxCreates = 1
    SecretDeletable = FALSE
INVARIANT InstanceKeepsTunnel
CHECK_DEADLOCK FALSE
