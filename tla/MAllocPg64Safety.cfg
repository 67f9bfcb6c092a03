SPECIFICATION Spec
CONSTANTS
    HugePage = 4
    GiganticPage = 8
    GiantPages = FALSE
    Top = 24
    Places = {0, 8, 16}
    Zero = Zero
    Junk = Junk
    NoRequest = NoRequest
    c1 = c1
    c2 = c2
    Clients = {c1, c2}
    Sizes = {1, 4, 5, 8}
    MaxLost = 4
SYMMETRY Symmetry
INVARIANTS TypeOK EverythingOwnedOnce SizeTellsRegime
PROPERTY KeepsContract
