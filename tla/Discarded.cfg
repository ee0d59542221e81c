SPECIFICATION Spec
CONSTANTS
    Sessions = {s1, s2}
    Types = {"generic", "ir"}
    Layouts <- OneLayout
    Labels = {"default", "work"}
    Typed <- TypedTexts
    Word <- WordOf
    NoWord = "none"
    MaxEmbeddings = 2
    InitialFiles <- NoFile
INVARIANT
    DiscardedStaysOut
CHECK_DEADLOCK FALSE
