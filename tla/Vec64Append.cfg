SPECIFICATION Spec
CONSTANTS
    HugePage = 4
    GiganticPage = 8
    GiantPages = FALSE
    Top = 72
    Places = {36, 48}
    Page = 2
    MaxTokens = 36
    Others = 2
    ElemSize = 1
    Gap = 12
    Zero = Zero
    Junk = Junk
    Torn = Torn
    NoVec = NoVec
    SelfShapes <- MCSelfShapes
    OtherShapes <- MCOtherShapes
INVARIANTS TypeOK BuffersApart ConsumedEntirely
PROPERTY Concatenates
