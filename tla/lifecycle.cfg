SPECIFICATION FairSpec
CONSTANTS
    d1 = d1
    d2 = d2
    c1 = c1
    Daemon = {d1, d2}
    Client = {c1}
    Commands = {"start", "stop", "restart"}
    MissingServerExitThreshold = 2
    Faults = {"killed", "interrupted", "failed", "slow", "server", "remote"}
    None = None
INVARIANTS
    ReachableUnlessOverlap
PROPERTIES
    RestartReplaces
    ShutdownIsObeyed
    LostServerEndsDaemon
