SPECIFICATION FairObservation
CONSTANTS
    first = first
    second = second
    Proc = {first, second}
    Titles = {"activity", "static", "empty"}
    Screens = {"question", "transcript", "quiet"}
    None = None
INVARIANT ObservationTypeOK
PROPERTIES
    QuietTwiceBeforeIdle
    ProcessSpeaksForItself
    SettledPaneIsReported
