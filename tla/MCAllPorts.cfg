SPECIFICATION SideSpec
CONSTANTS
    Parts = {"double"}
    Attempters = {t1, t2}
    Sources = {1, 2, 3}
    Limit = 2
    Window = 2
    MaxSources = 2
    MaxTime = 4
    MaxAttempts = 4
    Callers = {c1, c2}
    Requests <- MCRequests
    MaxSecrets = 2
    Passwords = {1}
    SessionTTL = 2
    TokenTTL = 1
    MaxInstant = 3
    MaxArrivals = 4
    Enrollees = {1, 2}
    Secrets = {"s1"}
    Tags = {"web", "BAD"}
    BadTags = {"BAD"}
    Lifetimes = {0, 1}
    DefaultTokenTTL = 2
    CredentialTTL = 1
    RenewGrace = 1
    MaxWorkloads = 2
    MaxClock = 2
    Members = {1, 2, 3, 4}
    MemberLabel <- MCMemberLabel
    Fleets <- MCFleets
    Visits <- MCVisits
    DefaultWorkloadPageLimit = 2
    MaxWorkloadPageLimit = 2
    MaxListInstant = 3
    MaxWrites = 2
    ServiceWrites <- MixedServices
    GroupWrites <- MCGroupWrites
    RulesetWrites <- MCRulesetWrites
    Hosts = {1, 2}
    LabelSets = {1, 2}
    Modes = {1, 2}
    MaxCalls = 3
    MaxLabelLength = 3
    MaxPort = 99
    IdOf <- MCIdOf
    TextOf <- MCTextOf
    Documents <- MCDocuments
    GoodRule <- MCGoodRule
    GoodScope <- MCGoodScope
    KnownServices <- MCKnownServices
    KnownGroups <- MCKnownGroups
INVARIANTS
    AllPortsWins
CHECK_DEADLOCK FALSE
