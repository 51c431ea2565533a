CONSTANTS
    None = None
    update1 = update1
    update2 = update2
    Version <- MCVersion
    Managing <- MCManaging
    Launcher <- MCLauncher
    Operation <- MCOperation
    Faults <- MCFaults
SPECIFICATION Spec
CONSTRAINT OneIsInterrupted
SYMMETRY Symmetry
INVARIANTS
    SelectionsAreInstalled
    ReadyNamesCurrent
    FailureKeepsPrevious
    DaemonIsCurrent
PROPERTIES
    OnlyRollbackGoesBack
