SPECIFICATION FairSpec
CONSTANTS
    Length = 2
    PipeSize = 3
    Steps = 3
INVARIANTS
    KeyringTypeOK
    WholePassword
    ResourcesReturned
    OnlyHelperSignalled
    PromptIsSpared
PROPERTIES
    SessionOpens
    DelayIsBounded
CHECK_DEADLOCK FALSE
