SPECIFICATION SideSpec
CONSTANTS
    Parts = {"store", "marks", "conntrack", "packets", "renewer", "directory", "authority"}
    RuleIds = {r1}
    Specs = {s1}
    Peers = {p1, p2}
    Modes = {"VISIBILITY", "SIMULATION", "ENFORCED"}
    NoTable = NoTable
    Faults = {"load", "restore", "save", "sync", "kernel", "crash", "power", "down"}
    MaxVersion = 1
    MaxApplies = 3
    MarkRules = {1, 2, 3}
    Limit = 2
    MarkFaults = {"marks", "policy", "save", "kernel", "restore", "crash", "power", "down"}
    MaxMarkApplies = 5
    Nil = Nil
    Damaged = Damaged
    MaxTime = 4
    Flows = {f1, f2, f3}
    WouldBlock = {f3}
    Foreign = {}
    DumpMax = 2
    SocketRoom = 2
    TablePolicies <- MCPolicies
    Packets <- MCPackets
    MarkOf <- MCMarks
    MarkBase = 8
    ForeignValues = {5}
    MaxConns = 2
    MaxLogged = 2
    MaxTableApplies = 2
    Lifetime = 12
    Backdate = 1
    Jitter = 1
    RetryBase = 1
    RetryCap = 4
    ExpiredRetryCap = 1
    Grace = 6
    Skews <- MCSkews
    MaxAttempt = 3
    MaxEnrollments = 2
    MaxSerials = 4
    Procs = {1, 2}
    RootTTL = 3
    LeafTTL = 2
    CredentialGrace = 1
    Backdating = 1
    MaxKeys = 4
    MaxNow = 4
INVARIANTS RestoresAcked KernelHoldsCurrent NamesItsRule CountedExactlyOnce TableDecides EvidenceTellsWhy RenewsInTime DirectoryHolds DirectorySurvives
CHECK_DEADLOCK FALSE
