SPECIFICATION Spec
CONSTANTS
    Align64 = 4
    MaxBytes = 15
    Aligns = {1, 2, 4, 8}
    Zero = Zero
    Junk = Junk
    NoRequest = NoRequest
    Types <- MCTypes
INVARIANTS TypeOK LayoutsMatch AlignedTo64
PROPERTY KeepsContract
