SPECIFICATION GlobalSpec
CONSTANTS
    HugePage = 3
    GiganticPage = 9
    GiantPages = TRUE
    Top = 21
    Places = {0, 3, 18}
    Zero = Zero
    Junk = Junk
    NoRequest = NoRequest
    c1 = c1
    c2 = c2
    Clients = {c1, c2}
    Sizes = {1, 2, 3, 4, 10}
    MaxLost = 3
    Globals = {c2}
INVARIANTS EverythingOwnedOnce GiganticPagesWhole
PROPERTY KeepsContract
