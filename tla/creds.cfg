SPECIFICATION FairSpec
CONSTANTS
    None = None
    Modes = {"static", "role", "mfaRole"}
    Duration = 7
    Grace = 5
    Interval = 2
    MaxCall = 1
    MaxLag = 1
    MaxFaults = 1
INVARIANT TypeOK
INVARIANT GivenCredentialsValid
INVARIANT CachedSessionFresh
PROPERTY DeletedSecretForgotten
