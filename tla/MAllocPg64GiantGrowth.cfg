SPECIFICATION Spec
CONSTANTS
    HugePage = 2
    GiganticPage = 8
    GiantPages = TRUE
    Top = 24
    Places = {0, 8, 16}
    Zero = Zero
    Junk = Junk
    NoRequest = NoRequest
    c1 = c1
    c2 = c2
    Clients = {c1, c2}
    Sizes = {1, 2, 8, 9}
    MaxLost = 0
PROPERTY GrowthStaysOnHugePages
