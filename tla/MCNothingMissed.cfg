SPECIFICATION Spec
CONSTANTS
    RuleIds = {r1}
    Specs = {s1}
    Peers = {p1}
    Modes = {"VISIBILITY"}
    Pushers = {g1, g2}
    QueueDepth = 4
    StoreFails = FALSE
    MaxVersion = 3
INVARIANT NothingMissed
