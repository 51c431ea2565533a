SPECIFICATION Spec
CONSTANTS
    Agent = {codex}
    achieved = achieved
    unmet = unmet
    Outcome <- MCOutcome
    Stamp <- MCStamp
    Faults = {"crash", "disk"}
    None = None
INVARIANTS
    FilesHoldWhatIsPublished
PROPERTIES
    CompletionIsShown
    ReadStaysRead
