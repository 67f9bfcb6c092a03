CONSTANTS
    w1 = w1
    w2 = w2
    w3 = w3
    r1 = r1
    Uninit = Uninit
    NoValue = NoValue
    NoReading = NoReading
    Writers <- ThreeWriters
    Readers <- ReaderAndWriter
    Cap = 2
    MaxValues = 2
SPECIFICATION Spec
INVARIANTS TypeOK ClaimsAccounted SpinCanEnd NoDataRace DropExactlyOnce IInv
PROPERTIES PublishesInClaimOrder RefusesOnlyWhenTaken BorrowsStable ImplementsLog
SYMMETRY WriterSymmetry
