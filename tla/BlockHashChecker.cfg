CONSTANTS
    Nodes <- MCNodes
    Sync <- MCSync
    Reordered <- MCReordered
    BatchSize = 2
    StartHeight = 1
    MaxHeight = 3
    MaxForks = 1
    MaxFaults = 1
SPECIFICATION FairSpec
INVARIANTS
    VerifiedAgree
    NoFalseAlarm
    FirstIsFirst
PROPERTIES
    DetectsFork
CHECK_DEADLOCK FALSE
