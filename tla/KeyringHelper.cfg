SPECIFICATION FairSpec
CONSTANTS
    Length = 2
    PipeSize = 3
    Steps = 3
INVARIANT
    NeverLockedOutByHelper
CHECK_DEADLOCK FALSE
