SPECIFICATION FairSpec
CONSTANTS
    CP = cp
    Worker = {w1}
    LastCP = 1
    InitPhase = 1
    LastWorker = 1
    MaxFaults = 1
    MaxEdits = 1
INVARIANT TypeOK
 
 
INVARIANT JoinedIsMember
INVARIANT ReadyWorkerRecorded
INVARIANT JoinTokenRotated
INVARIANT PackagedClusterJoinable
 
 
PROPERTY InitCompletes
PROPERTY DeletionCompletes
CHECK_DEADLOCK FALSE
