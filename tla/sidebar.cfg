CONSTANTS
    a = a
    b = b
    c = c
    Agent = {a, b, c}
    Child = {c}
    Lists <- ListsValue
    Queries <- QueriesValue
    Keys = 2
    MaxTask = 2
    MaxWake = 1
    None = None
SPECIFICATION SidebarSpec
INVARIANTS
    SidebarTypeOK
    ScreenIsCurrent
    SelectionIsShared
PROPERTIES
    ShortcutHitsWhatIsDrawn
