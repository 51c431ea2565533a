SPECIFICATION FairSpec
CONSTANTS
    Attempt = {a1, a2}
    Machine = {hub, owner}
    Owner = owner
    Id = {i1}
    Text = {t1}
    MaxLife = 1
    SentLimit = 1
    Faults = {"crash", "io", "loss"}
    None = None
PROPERTIES
    KeepsPromise
    EveryCallEnds
CHECK_DEADLOCK FALSE
