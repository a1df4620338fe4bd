SPECIFICATION SideSpec
CONSTANTS
    Streams = {s1, s2, s3}
    Replicas = {a, b}
    NoStream = NoStream
    StoreFails = TRUE
    MayCrash = TRUE
    MaxTime = 3
INVARIANTS RegistryAgrees BlindTimeIsRecorded
PROPERTIES MarkedOnlyFromElsewhere AddReturns
CHECK_DEADLOCK FALSE
