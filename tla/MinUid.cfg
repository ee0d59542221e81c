SPECIFICATION Spec
CONSTANTS
    Texts <- MCTexts
    Sections <- MCSections
    IntMax = 3
    UidMod = 8
    LongMax = 15
    Default = 2
INVARIANTS
    MinUidTypeOK
    SameMinUid
    OffOnlyByZeroOrWrap
