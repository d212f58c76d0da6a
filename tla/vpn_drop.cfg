SPECIFICATION Spec
CONSTANTS
    k1 = k1
    k2 = k2
    n1 = n1
    n2 = n2
    cp = cp
    w = w
    None = None
    Node = {n1, n2}
    OnPrem = {}
    Key = {k1, k2}
    Owner <- MCOwner
    Static = {cp, w}
    StaticIP <- MCStaticIP
    ControlPlane = cp
    LastIP = 4
    MaxLag = 1
    MaxFaults = 0
    MaxEdits = 1
PROPERTY RecordDropsNothing
CHECK_DEADLOCK FALSE
