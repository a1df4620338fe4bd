SPECIFICATION FairSpec
CONSTANTS
    RuleIds = {r1}
    Specs = {s1}
    Peers = {}
    Modes = {"VISIBILITY"}
    Pushers = {g1}
    QueueDepth = 3
    StoreFails = FALSE
    MaxVersion = 3
PROPERTIES ImplementsDesiredState ReconciledAfterLoss ComesToRest
