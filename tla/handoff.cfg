SPECIFICATION Spec
CONSTANTS
    Attempt = {a1, a2}
    Machine = {hub, owner}
    Owner = owner
    Id = {i1}
    Text = {t1}
    MaxLife = 2
    SentLimit = 1
    Faults = {"crash", "io", "loss", "skew"}
    None = None
SYMMETRY AttemptSymmetry
INVARIANTS
    AtMostOncePaste
    SentRecordsAreTruthful
    RejectedTypedNothing
    PendingHasReason
    SenderBindsId
CHECK_DEADLOCK FALSE
