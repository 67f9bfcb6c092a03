SPECIFICATION Spec
CONSTANTS
    HugePage = 4
    GiganticPage = 8
    GiantPages = FALSE
    Top = 20
    Places = {0, 6, 12}
    Page = 2
    MaxTokens = 6
    Zero = Zero
    Junk = Junk
    Torn = Torn
    Foreign = Foreign
    NoPage = NoPage
    Shapes <- MCShapes
INVARIANTS TypeOK MappedExactly OthersUntouched InScopeAlive
PROPERTY DeletesRange
