SPECIFICATION FairSpec
CONSTANTS
    Paths = {1, 2}
    AverageFrames = 2
    Inis <- MCInis
    Kinds <- MCKinds
    Sizes = {"small", "large"}
    Warmup = 1
    Attempts = 2
INVARIANTS
    CaptureTypeOK
    ModeRestored
    LitWhenKept
    ImageIsSound
    GoodCameraYields
PROPERTIES
    DetectionIsStable
    RequestEnds
    RequestAdvances
