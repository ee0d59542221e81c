SPECIFICATION Spec
CONSTANTS
    Sessions = {s1, s2}
    Types = {"generic", "ir"}
    Layouts <- TwoLayouts
    Labels = {"default", "work"}
    Typed <- TypedTexts
    Word <- WordOf
    NoWord = "none"
    MaxEmbeddings = 2
    InitialFiles <- SomeFiles
SYMMETRY Symmetry
INVARIANTS
    StoreTypeOK
    NothingShadowed
PROPERTIES
    OnlyTheNamedLabel
    EnrolledEverywhere
    LimitHolds
    PendingIsLabelled
    ImplementsGallery
CHECK_DEADLOCK FALSE
