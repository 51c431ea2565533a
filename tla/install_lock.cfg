SPECIFICATION Spec
CONSTANTS
    bootstrap = bootstrap
    update = update
    rollback = rollback
    Installer <- MCInstaller
    Attempts = 5
    Grace = 2
    Faults = {"killed", "disk"}
    None = None
SYMMETRY MCSymmetry
CHECK_DEADLOCK FALSE
INVARIANTS
    ExclusiveUnlessRobbed
    LeavesNothingBehind
    GivesUpOnlyBehindTheLiving
