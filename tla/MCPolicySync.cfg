SPECIFICATION Spec
CONSTANTS
    RuleIds = {r1}
    Specs = {s1}
    Peers = {}
    Modes = {"VISIBILITY"}
    Pushers = {g1, g2}
    QueueDepth = 3
    StoreFails = TRUE
    MaxVersion = 3
SYMMETRY Symmetry
INVARIANTS StreamIsRendered RecordedIsInstalled SyncedIsAtTip
