SPECIFICATION Spec
CONSTANTS
    HugePage = 2
    GiganticPage = 8
    GiantPages = TRUE
    Top = 80
    Places = {48}
    Page = 2
    MaxTokens = 48
    Others = 1
    ElemSize = 1
    Gap = 24
    Zero = Zero
    Junk = Junk
    Torn = Torn
    NoVec = NoVec
    SelfShapes <- GiantSelfShapes
    OtherShapes <- GiantOtherShapes
INVARIANT ConsumedEntirely
