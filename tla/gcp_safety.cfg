SPECIFICATION Spec
CONSTANTS
    None = None
    Provider = "GCP"
    Instance = {vm}
    IP = {a1, a2}
    Prepull = "job"
    MaxLag = 2
    MaxFaults = 1
    MaxEdits = 0
    MaxCreates = 2
    SecretDeletable = TRUE
INVARIANT RecordedInstanceTerminated
INVARIANT ReadyNodeStamped
PROPERTY TerminatesOnlyDeleted
PROPERTY LaunchesOnlyManaged
PROPERTY ImplementsLifecycle
PROPERTY ReadyIsFinal
CHECK_DEADLOCK FALSE
