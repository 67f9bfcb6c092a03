SPECIFICATION PMSpec
CONSTANTS
    HugePage = 8
    Elems = {0, 1, 2, 3, 4, 5, 6, 7, 8, 10, 12, 16, 20, 24}
    MaxLen = 25
    Pure = TRUE
    MaxList = 9
    Counts = {0, 1, 7, 8, 9, 16, 17, 57}
INVARIANTS PageTypeOK StepIsLeast NearestLengths AgreesWithStep HoldsValues MaskFillsPages
PROPERTY StepFound
