SPECIFICATION SideSpec
CONSTANTS
    Parts = {"flows"}
    RuleIds = {r1, r2}
    Specs = {s1, s2}
    Peers = {p1, p2}
    Modes = {"VISIBILITY", "ENFORCED"}
    MaxVersion = 3
    Machines = {1, 2}
    LabelOf <- MCLabelOf
    Replicas = {1, 2}
    Arrivals <- MCArrivals
    Listings <- FullPage
    Rollups <- MCRollups
    GapReads <- MCGapReads
    Retention = 1
    DefaultRange = 2
    DefaultPageLimit = 2
    MaxPageLimit = 3
    DefaultGroupLimit = 4
    MaxGroupLimit = 5
    DefaultGapLimit = 2
    MaxGapLimit = 2
    PruneBatch = 1
    MaxNow = 3
    MaxPruneRuns = 2
    Enrolled <- MCEnrolled
    Sources = {1, 2}
    Nets <- MCNets
    GroupNames = {1, 2}
    Reports <- MCReports
    ClockOffsets <- MCClockOffsets
    WindowLength = 1
    ClockSkewWindows = 2
    MaxLag = 4
    MaxChanges = 3
PROPERTIES
    LastPageIsLast
CHECK_DEADLOCK FALSE
