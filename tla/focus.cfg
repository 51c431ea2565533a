CONSTANTS
    Pane = {p1, p2}
    Home = home
    Elsewhere = elsewhere
    MaxConn = 2
    MaxLife = 1
    MaxFocus = 1
    None = None
SPECIFICATION Spec
SYMMETRY PaneSymmetry
PROPERTIES
    ReportsAreTrue
