CONSTANTS
    MaxView = 2
    MaxPipe = 2
    None = None
SPECIFICATION LiveSpec
INVARIANTS
    NothingIsMissed
    MessageFitsConnection
PROPERTIES
    ScreenFollows
