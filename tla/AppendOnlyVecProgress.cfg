CONSTANTS
    w1 = w1
    w2 = w2
    w3 = w3
    Uninit = Uninit
    Writers <- ThreeWriters
    Readers <- NoReaders
    Paused <- OnePaused
    Cap = 3
    MaxValues = 2
SPECIFICATION LiveSpec
PROPERTIES ClaimDecided StallsOnlyBehindPaused PushReturns
