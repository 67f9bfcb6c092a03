SPECIFICATION MacroSpec
CONSTANTS
    Pure = FALSE
    MaxList = 2
    Counts = {}
INVARIANT HoldsValues
