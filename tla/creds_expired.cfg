SPECIFICATION Spec
CONSTANTS
    None = None
    Modes = {"mfa"}
    Duration = 7
    Grace = 5
    Interval = 2
    MaxCall = 1
    MaxLag = 1
    MaxFaults = 0
INVARIANT CachedSessionFresh
