CONSTANTS
    Agent = {a1}
    MaxTurn = 2
    MaxQueue = 1
    Faults = {"cut", "crash", "disk"}
    None = None
SPECIFICATION LiveSpec
INVARIANTS
    OverlayFitsTransports
    OnScreenIsSeen
    AcknowledgedStaysRead
PROPERTIES
    HiddenCompletionStays
    Converges
