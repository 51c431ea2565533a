SPECIFICATION Spec
CONSTANTS
    d1 = d1
    d2 = d2
    c1 = c1
    Daemon = {d1, d2}
    Client = {c1}
    Commands = {"start", "restart"}
    MissingServerExitThreshold = 2
    Faults = {}
    None = None
INVARIANTS
    OneDaemon
